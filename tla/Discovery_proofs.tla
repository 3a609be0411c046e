-------------------------- MODULE Discovery_proofs --------------------------
(***************************************************************************)
(* Safety of one discovery for any containers, any limit of concurrent     *)
(* inspections and any databases.  ListInv says what each goroutine holds  *)
(* before it has written and that the places do not move until all have    *)
(* gone; CountInv counts them; EngineInv says which containers the loop    *)
(* over the sorted listing has reported.  That ByName sorts follows from   *)
(* the ranks of the names, without induction.                              *)
(***************************************************************************)
EXTENDS Discovery, FiniteSetTheorems, SequenceTheorems, TLAPS

N == Cardinality(Names)
Row == [name : Names, detail : Names \cup {Nobody}]

Holding == {k \in Indices : worker[k] \in {"inspect", "release"}}
Running == {k \in Indices : worker[k] \in {"inspect", "release", "finish"}}

-----------------------------------------------------------------------------
(* Sorting *)

LEMMA NType == N \in Nat /\ Indices = 1..N /\ IsFiniteSet(Indices) /\ Cardinality(Indices) = N
<1>1. N \in Nat
  BY NamesAssumption, FS_CardinalityType DEF NamesAssumption, N
<1>2. IsFiniteSet(1..N) /\ Cardinality(1..N) = N
  BY <1>1, FS_Interval
<1> QED BY <1>1, <1>2 DEF N, Indices

\* An injection from the places of the listing to the names reaches them all.
LEMMA Onto ==
  ASSUME NEW f \in [Indices -> Names], \A i, j \in Indices : i # j => f[i] # f[j]
  PROVE  \A c \in Names : \E k \in Indices : f[k] = c
<1>1. f \in Injection(Indices, Names)
  BY DEF Injection, IsInjective
<1>2. f \in Surjection(Indices, Names)
  BY <1>1, NType, NamesAssumption, FS_Injection DEF NamesAssumption, N
<1> QED BY <1>2 DEF Surjection

\* The rank of a name: how many names are no larger.
UpToName(c) == {d \in Names : d <= c}
Rank == [c \in Names |-> Cardinality(UpToName(c))]

LEMMA RankIncreases ==
  /\ Rank \in [Names -> Indices]
  /\ \A c, d \in Names : c < d => Rank[c] < Rank[d]
<1>1. ASSUME NEW c \in Names
      PROVE  /\ IsFiniteSet(UpToName(c)) /\ Cardinality(UpToName(c)) \in Nat
             /\ Cardinality(UpToName(c)) <= N /\ Cardinality(UpToName(c)) # 0
  <2>1. UpToName(c) \in SUBSET Names /\ c \in UpToName(c)
    BY NamesAssumption DEF NamesAssumption, UpToName
  <2>2. IsFiniteSet(UpToName(c)) /\ Cardinality(UpToName(c)) <= N
    BY <2>1, NamesAssumption, FS_Subset DEF NamesAssumption, N
  <2>3. Cardinality(UpToName(c)) # 0
    BY <2>1, <2>2, FS_EmptySet
  <2> QED BY <2>2, <2>3, FS_CardinalityType
<1>2. Rank \in [Names -> Indices]
  BY <1>1, NType DEF Rank
<1>3. ASSUME NEW c \in Names, NEW d \in Names, c < d
      PROVE  Rank[c] < Rank[d]
  <2>1. c \in Nat /\ d \in Nat /\ Names \subseteq Nat
    BY NamesAssumption DEF NamesAssumption
  <2>2. UpToName(c) \in SUBSET UpToName(d)
    <3>1. ASSUME NEW e \in Names, e <= c PROVE e <= d
      BY <1>3, <2>1, <3>1
    <3> QED BY <3>1 DEF UpToName
  <2>3. d \in UpToName(d) /\ d \notin UpToName(c)
    BY <1>3, <2>1 DEF UpToName
  <2>4. /\ Cardinality(UpToName(c)) <= Cardinality(UpToName(d))
        /\ Cardinality(UpToName(c)) # Cardinality(UpToName(d))
    BY <1>1, <2>2, <2>3, FS_Subset
  <2> QED BY <1>1, <2>4 DEF Rank
<1> QED BY <1>2, <1>3

\* A listing that has every name once can be sorted, and ByName sorts it.
LEMMA Sorted ==
  ASSUME NEW s \in Seq(Row), Len(s) = N,
         \A i, j \in Indices : i # j => s[i].name # s[j].name
  PROVE  /\ ByName(s) \in Seq(Row) /\ Len(ByName(s)) = N
         /\ \A i, j \in Indices : i < j => ByName(s)[i].name < ByName(s)[j].name
         /\ \A k \in Indices : \E j \in Indices : ByName(s)[k] = s[j]
<1> DEFINE Orders(p) == \A i, j \in DOMAIN s : i < j => s[p[i]].name <= s[p[j]].name
           order == CHOOSE p \in SetToSeqs(DOMAIN s) : Orders(p)
           name == [k \in Indices |-> s[k].name]
<1>1. DOMAIN s = Indices /\ Names \subseteq Nat
  BY NType, NamesAssumption DEF NamesAssumption
<1>2. name \in [Indices -> Names] /\ \A i, j \in Indices : i # j => name[i] # name[j]
  <2>1. \A k \in Indices : s[k] \in Row
    BY <1>1
  <2>2. \A k \in Indices : s[k].name \in Names
    BY <2>1 DEF Row
  <2>3. \A i, j \in Indices : i # j => name[i] # name[j]
    OBVIOUS
  <2> QED BY <2>2, <2>3
<1>3. \A k \in Indices : s[k] \in Row /\ name[k] = s[k].name
  BY <1>1
<1>4. SetToSeqs(DOMAIN s) = {p \in [Indices -> Indices] : \A i, j \in Indices : i # j => p[i] # p[j]}
  BY <1>1, NType DEF SetToSeqs
\* The ranks of the names are a permutation of the places; its inverse sorts.
<1>5. \E p \in SetToSeqs(DOMAIN s) : Orders(p)
  <2> DEFINE rank == [k \in Indices |-> Rank[name[k]]]
             inv == [r \in Indices |-> CHOOSE k \in Indices : rank[k] = r]
  <2>1. rank \in [Indices -> Indices] /\ \A i, j \in Indices : i # j => rank[i] # rank[j]
    <3>1. ASSUME NEW i \in Indices, NEW j \in Indices, i # j PROVE rank[i] # rank[j]
      <4>1. name[i] \in Names /\ name[j] \in Names /\ name[i] # name[j]
            /\ name[i] \in Nat /\ name[j] \in Nat
        BY <1>1, <1>2, <3>1
      <4>2. name[i] < name[j] \/ name[j] < name[i]
        BY <4>1
      <4>3. Rank[name[i]] \in Nat /\ Rank[name[j]] \in Nat
        BY <4>1, RankIncreases, NType
      <4> QED BY <4>1, <4>2, <4>3, RankIncreases
    <3>2. rank \in [Indices -> Indices]
      BY <1>2, RankIncreases
    <3> QED BY <3>1, <3>2
  <2>2. \A r \in Indices : \E k \in Indices : rank[k] = r
    <3>1. rank \in Injection(Indices, Indices)
      BY <2>1 DEF Injection, IsInjective
    <3>2. rank \in Surjection(Indices, Indices)
      BY <3>1, NType, FS_Injection
    <3> QED BY <3>2 DEF Surjection
  <2>3. inv \in [Indices -> Indices] /\ \A r \in Indices : rank[inv[r]] = r
    BY <2>2
  <2>4. inv \in SetToSeqs(DOMAIN s)
    <3> HIDE DEF inv, rank
    <3>1. \A i, j \in Indices : i # j => inv[i] # inv[j]
      BY <2>3
    <3> QED BY <1>4, <2>3, <3>1
  <2>5. Orders(inv)
    <3> SUFFICES ASSUME NEW i \in Indices, NEW j \in Indices, i < j
                 PROVE  s[inv[i]].name <= s[inv[j]].name
      BY <1>1
    <3>1. inv[i] \in Indices /\ inv[j] \in Indices
      BY <2>3
    <3>2. Rank[name[inv[i]]] = i /\ Rank[name[inv[j]]] = j
      BY <2>3, <3>1
    <3>3. name[inv[i]] \in Names /\ name[inv[j]] \in Names
      BY <1>2, <3>1
    <3>4. ~(name[inv[j]] < name[inv[i]])
      <4>1. i \in Nat /\ j \in Nat
        BY NType
      <4> HIDE DEF inv, name
      <4> QED BY <3>2, <3>3, <4>1, RankIncreases
    <3>5. s[inv[i]].name = name[inv[i]] /\ s[inv[j]].name = name[inv[j]]
      BY <3>1
    <3>6. name[inv[i]] \in Nat /\ name[inv[j]] \in Nat
      BY <1>1, <3>3
    <3> HIDE DEF inv, name
    <3> QED BY <3>4, <3>5, <3>6
  <2> HIDE DEF inv, Orders
  <2> QED BY <2>4, <2>5
<1>6. order \in SetToSeqs(DOMAIN s) /\ Orders(order)
  <2> HIDE DEF Orders
  <2> QED BY <1>5
<1>7. /\ order \in [Indices -> Indices]
      /\ \A i, j \in Indices : i # j => order[i] # order[j]
      /\ \A i, j \in Indices : i < j => s[order[i]].name <= s[order[j]].name
  <2> HIDE DEF order
  <2> QED BY <1>1, <1>4, <1>6
<1>8. ByName(s) = [k \in Indices |-> s[order[k]]]
  BY <1>1 DEF ByName
<1> HIDE DEF order, name
<1>9. ASSUME NEW i \in Indices, NEW j \in Indices, i < j
      PROVE  s[order[i]].name < s[order[j]].name
  <2>1. order[i] \in Indices /\ order[j] \in Indices /\ i # j
    BY <1>7, <1>9, NType
  <2>2. s[order[i]].name \in Names /\ s[order[j]].name \in Names
    BY <1>3, <2>1 DEF Row
  <2>3. s[order[i]].name # s[order[j]].name
    BY <1>7, <2>1
  <2>4. s[order[i]].name \in Nat /\ s[order[j]].name \in Nat
    BY <1>1, <2>2
  <2> QED BY <1>7, <1>9, <2>3, <2>4
<1>10. ByName(s) \in [1..N -> Row]
  BY <1>3, <1>7, <1>8, NType
<1> QED BY <1>7, <1>8, <1>9, <1>10, NType

-----------------------------------------------------------------------------
(* The invariant *)

\* In readContainers: a goroutine that has not written yet inspects what its
\* place in the listing names, and the places it writes to have not moved.
ListInv ==
  /\ pc = "list" => out = <<>> /\ next = 1 /\ answered = {} /\ \A k \in Indices : worker[k] = "none"
  /\ pc \in {"fan", "wait"} =>
       /\ Len(out) = N
       /\ \A i, j \in Indices : i # j => out[i].name # out[j].name
       /\ \A k \in Indices :
            /\ worker[k] = "none" <=> k >= next
            /\ worker[k] \in {"inspect", "release"} => id[k] = out[k].name
            /\ worker[k] \in {"none", "inspect"} => out[k].name \notin answered
            /\ out[k].detail = IF out[k].name \in answered THEN out[k].name ELSE Nobody
  /\ pc = "wait" => next > N
  /\ pc \notin {"list", "fan", "wait"} =>
       /\ \A k \in Indices : worker[k] \in {"none", "gone"}
       /\ \A i, j \in DOMAIN out : i < j => out[i].name < out[j].name

CountInv ==
  /\ slots = Cardinality(Holding) /\ slots <= Concurrency
  /\ waiting = Cardinality(Running)

\* readDatabases is at a container, or has gone through all of them.
Looking == pc = "look" \/ (pc \in {"create", "start"} /\ query # "pressure")
Looked  == pc \in {"reload", "probe", "done"} \/ (pc \in {"create", "start"} /\ query = "pressure")

Of(c) == {d \in databases : d.container = c}

\* Of the entries S, every file of fs has one: its own or the server's.
Tells(S, fs) ==
  /\ \A d \in S : d.source = "file" => d.name \in fs
  /\ \A f \in fs : (\E d \in S : d.source = "file" /\ d.name = f)
                     <=> ~\E d \in S : d.source = "sql" /\ Lower[d.name] = Lower[f]

ShownOnce(c) ==
  /\ Tells(Of(c), files[c])
  /\ Of(c) # {}
  /\ \A d \in Of(c) : d.source = "placeholder" => Of(c) = {d}

\* What is reported so far is what the containers behind the loop gave: the one
\* being looked at has nothing yet, so that no entry meets an older one.
EngineInv ==
  /\ pc \in {"list", "fan", "wait", "postgres"} => databases = {}
  /\ pc = "load" => \A d \in databases : d.container = Host
  /\ Looking =>
       /\ \A d \in databases : d.container = Host \/ \E j \in 1..next - 1 : d.container = out[j].name
       /\ \A j \in 1..next - 1 : out[j].name \in MSSQL => ShownOnce(out[j].name)
  /\ Looked => \A k \in DOMAIN out : out[k].name \in MSSQL => ShownOnce(out[k].name)
  /\ pc \in {"look", "probe", "create", "start"} => next <= Len(out) \/ (out = <<>> /\ next = 1)
  /\ pc \in {"create", "start"} => next <= Len(out) /\ Here \in MSSQL

IInv == TypeOK /\ ListInv /\ CountInv /\ ListingIsWhole /\ EngineInv

-----------------------------------------------------------------------------
(* readContainers keeps the listing's part of the invariant. *)

ListType ==
  /\ out \in Seq(Row) /\ Len(out) <= N /\ next \in 1..Len(out) + 1
  /\ worker \in [Indices -> {"none", "inspect", "release", "finish", "gone"}]
  /\ id \in [Indices -> Names \cup {Nobody}]
  /\ answered \subseteq Names

ListPart == ListType /\ ListInv /\ CountInv /\ ListingIsWhole

ReadContainers == List \/ NoDocker \/ Launch \/ EndFan \/ SortListing

AskOthers ==
  \/ ReadPostgreSQL \/ LoadConfigs \/ Skip \/ NothingListed \/ LookAtFiles \/ Probe
  \/ CreateExec \/ ExecFails \/ StartExec

LEMMA AskOthersFrame ==
  ASSUME TypeOK, EngineInv, AskOthers
  PROVE  /\ UNCHANGED list_vars
         /\ pc \notin {"list", "fan", "wait"} /\ pc' \notin {"list", "fan", "wait"}
         /\ pc' \in {"load", "look", "create", "start", "reload", "probe", "done"}
         /\ next' \in 1..Len(out) + 1
<1>0. Len(out) \in Nat /\ next \in 1..Len(out) + 1
  BY DEF TypeOK
<1>1. ASSUME NEW step \in {"look", "probe"}, NextContainer(step)
      PROVE  pc' \in {"look", "probe", "reload", "done"} /\ next' \in 1..Len(out) + 1
  BY <1>0, <1>1 DEF NextContainer
<1> USE DEF list_vars, probe_vars, world_vars
<1>2. CASE ReadPostgreSQL
  BY <1>0, <1>2 DEF ReadPostgreSQL
<1>3. CASE LoadConfigs
  BY <1>0, <1>3 DEF LoadConfigs
<1>4. CASE Skip
  BY <1>1, <1>4 DEF Skip, Visiting
<1>5. CASE NothingListed
  BY <1>0, <1>5 DEF NothingListed
<1>6. CASE LookAtFiles
  BY <1>0, <1>1, <1>6 DEF LookAtFiles, Visiting
<1>7. CASE Probe
  BY <1>0, <1>7 DEF Probe, Visiting
<1>8. CASE CreateExec
  BY <1>0, <1>8 DEF CreateExec
<1>9. ASSUME QueryFails, pc \in {"create", "start"}
      PROVE  pc' \in {"create", "look", "probe", "reload", "done"} /\ next' \in 1..Len(out) + 1
  BY <1>0, <1>1, <1>9 DEF QueryFails, TypeOK, Queries
<1>10. CASE ExecFails
  BY <1>9, <1>10 DEF ExecFails
<1>11. CASE StartExec
  BY <1>1, <1>9, <1>11 DEF StartExec, QueryAnswers
<1> QED BY <1>2, <1>3, <1>4, <1>5, <1>6, <1>7, <1>8, <1>10, <1>11 DEF AskOthers

\* A goroutine that reaches Release or leaves is taken out of one count.
LEMMA Counts ==
  ASSUME ListType
  PROVE  /\ IsFiniteSet(Holding) /\ IsFiniteSet(Running)
         /\ Cardinality(Holding) \in Nat /\ Cardinality(Running) \in Nat
         /\ Cardinality(Holding) <= Cardinality(Running) /\ Cardinality(Running) <= N
         /\ Cardinality(Running) = 0 => Running = {}
         /\ \A k \in Running : Cardinality(Running) > 0
         /\ \A k \in Holding : Cardinality(Holding) > 0
<1>1. Holding \in SUBSET Running /\ Running \in SUBSET Indices
  BY DEF Holding, Running
<1>2. IsFiniteSet(Running) /\ Cardinality(Running) <= N
  BY <1>1, NType, FS_Subset
<1>3. IsFiniteSet(Holding) /\ Cardinality(Holding) <= Cardinality(Running)
  BY <1>1, <1>2, FS_Subset
<1>4. Cardinality(Holding) \in Nat /\ Cardinality(Running) \in Nat
  BY <1>2, <1>3, FS_CardinalityType
<1>5. /\ Cardinality(Running) = 0 => Running = {}
      /\ Cardinality(Holding) = 0 => Holding = {}
  BY <1>2, <1>3, FS_EmptySet
<1> QED BY <1>2, <1>3, <1>4, <1>5

LEMMA ListStep ==
  ASSUME TypeOK, ListPart, [Next]_vars, EngineInv
  PROVE  ListPart'
<1> USE DEF list_vars, probe_vars, world_vars
<1>0. /\ out \in Seq(Row) /\ Len(out) \in Nat /\ next \in Nat /\ N \in Nat /\ Indices = 1..N
      /\ ListType /\ ListInv /\ CountInv /\ ListingIsWhole
  BY NType DEF ListPart, ListType
<1>1. ASSUME UNCHANGED list_vars, pc \notin {"list", "fan", "wait"}, pc' \notin {"list", "fan", "wait"},
             next' \in 1..Len(out) + 1
      PROVE  ListPart'
  <2>1. ListType'
    BY <1>0, <1>1 DEF ListType
  <2>2. ListInv'
    BY <1>0, <1>1 DEF ListInv
  <2>3. CountInv'
    BY <1>0, <1>1 DEF CountInv, Holding, Running
  <2>4. ListingIsWhole'
    BY <1>0, <1>1 DEF ListingIsWhole
  <2> QED BY <2>1, <2>2, <2>3, <2>4 DEF ListPart
<1>2. CASE List
  <2>1. PICK order \in SetToSeqs(Names) :
          out' = [k \in Indices |-> [name |-> order[k], detail |-> Nobody]]
    BY <1>2 DEF List
  <2>2. /\ order \in [Indices -> Names]
        /\ \A i, j \in Indices : i # j => order[i] # order[j]
    BY <2>1, NType DEF SetToSeqs, Indices
  <2>3. out' \in [1..N -> Row]
    BY <1>0, <2>1, <2>2 DEF Row
  <2>4. out' \in Seq(Row) /\ Len(out') = N
    BY <1>0, <2>3
  <2>5. /\ pc = "list" /\ pc' = "fan" /\ UNCHANGED <<next, worker, id, slots, waiting, answered>>
        /\ next = 1 /\ answered = {} /\ \A k \in Indices : worker[k] = "none"
    BY <1>0, <1>2 DEF List, ListInv
  <2>6. ListType'
    BY <1>0, <2>4, <2>5 DEF ListType
  <2>7. ListInv'
    BY <1>0, <2>1, <2>2, <2>4, <2>5 DEF ListInv
  <2>8. CountInv' /\ ListingIsWhole'
    BY <1>0, <2>5 DEF CountInv, Holding, Running, ListingIsWhole
  <2> QED BY <2>6, <2>7, <2>8 DEF ListPart
<1>3. CASE NoDocker
  <2>1. /\ UNCHANGED <<next, list_vars>> /\ pc' = "postgres"
        /\ out = <<>> /\ \A k \in Indices : worker[k] = "none"
    BY <1>0, <1>3 DEF NoDocker, ListInv
  <2> QED BY <1>0, <2>1 DEF ListPart, ListType, ListInv, CountInv, Holding, Running, ListingIsWhole
<1>4. CASE Launch
  <2>1. /\ pc = "fan" /\ pc' = "fan" /\ Len(out) = N /\ next \in Indices /\ next <= N /\ worker[next] = "none"
        /\ slots < Concurrency /\ slots' = slots + 1 /\ waiting' = waiting + 1 /\ next' = next + 1
        /\ worker' = [worker EXCEPT ![next] = "inspect"]
        /\ id' = [id EXCEPT ![next] = out[next].name]
        /\ UNCHANGED <<out, answered>>
    BY <1>0, <1>4 DEF Launch, Free, ListInv, ListType
  <2>2. out[next].name \in Names
    <3>1. out[next] \in Row
      BY <1>0, <2>1
    <3> QED BY <3>1 DEF Row
  <2>3. ListType'
    BY <1>0, <2>1, <2>2 DEF ListType
  <2>4. ListInv'
    <3>1. ASSUME NEW k \in Indices
          PROVE  /\ worker'[k] = "none" <=> k >= next'
                 /\ worker'[k] \in {"inspect", "release"} => id'[k] = out[k].name
                 /\ worker'[k] \in {"none", "inspect"} => out[k].name \notin answered
      BY <1>0, <2>1 DEF ListInv, ListType
    <3> QED BY <1>0, <2>1, <3>1 DEF ListInv
  <2>5. CountInv'
    <3>1. Holding' = Holding \cup {next} /\ next \notin Holding
      BY <1>0, <2>1 DEF Holding, ListType
    <3>2. Running' = Running \cup {next} /\ next \notin Running
      BY <1>0, <2>1 DEF Running, ListType
    <3>3. /\ Cardinality(Holding') = Cardinality(Holding) + 1
          /\ Cardinality(Running') = Cardinality(Running) + 1
      BY <1>0, <3>1, <3>2, Counts, FS_AddElement
    <3>4. slots \in Nat /\ Concurrency \in Nat
      BY <1>0, Counts, ConcurrencyAssumption DEF CountInv, ConcurrencyAssumption
    <3> QED BY <1>0, <2>1, <3>3, <3>4 DEF CountInv
  <2>6. ListingIsWhole'
    BY <2>1 DEF ListingIsWhole
  <2> QED BY <2>3, <2>4, <2>5, <2>6 DEF ListPart
<1>5. CASE EndFan
  <2>1. /\ pc = "fan" /\ pc' = "wait" /\ UNCHANGED <<next, list_vars>> /\ next > Len(out)
    BY <1>5 DEF EndFan
  <2> QED BY <1>0, <2>1 DEF ListPart, ListType, ListInv, CountInv, Holding, Running, ListingIsWhole
\* The sort runs when no goroutine is left, so that every name has what its
\* own inspection said, and takes it along.
<1>6. CASE SortListing
  <2>1. /\ pc = "wait" /\ pc' = "postgres" /\ waiting = 0 /\ out' = ByName(out)
        /\ UNCHANGED <<next, worker, id, slots, waiting, answered>>
        /\ Len(out) = N
        /\ \A i, j \in Indices : i # j => out[i].name # out[j].name
        /\ \A k \in Indices :
             out[k].detail = IF out[k].name \in answered THEN out[k].name ELSE Nobody
    BY <1>0, <1>6 DEF SortListing, Drained, ListInv
  <2>2. /\ out' \in Seq(Row) /\ Len(out') = N
        /\ \A i, j \in Indices : i < j => out'[i].name < out'[j].name
        /\ \A k \in Indices : \E j \in Indices : out'[k] = out[j]
    <3>1. out \in Seq(Row) /\ Len(out) = N /\ \A i, j \in Indices : i # j => out[i].name # out[j].name
      BY <1>0, <2>1
    <3>2. /\ ByName(out) \in Seq(Row) /\ Len(ByName(out)) = N
          /\ \A i, j \in Indices : i < j => ByName(out)[i].name < ByName(out)[j].name
          /\ \A k \in Indices : \E j \in Indices : ByName(out)[k] = out[j]
      BY <3>1, Sorted
    <3> QED BY <2>1, <3>2
  <2>3. ListType'
    BY <1>0, <2>1, <2>2 DEF ListType
  <2>4. ListInv'
    <3>1. Running = {}
      BY <1>0, <2>1, Counts DEF CountInv
    <3>2. DOMAIN out' = Indices
      BY <1>0, <2>2
    <3>3. \A k \in Indices : worker[k] \in {"none", "gone"}
      BY <1>0, <3>1 DEF ListType, Running
    <3> QED BY <2>1, <2>2, <3>2, <3>3 DEF ListInv
  <2>5. CountInv'
    BY <1>0, <2>1 DEF CountInv, Holding, Running
  <2>6. ListingIsWhole'
    <3>1. DOMAIN out' = Indices
      BY <1>0, <2>2
    <3>2. \A k \in Indices :
            out'[k].detail = IF out'[k].name \in answered' THEN out'[k].name ELSE Nobody
      BY <2>1, <2>2
    <3>3. {out'[k].name : k \in Indices} = Names
      <4> DEFINE name == [k \in Indices |-> out'[k].name]
      <4>1. \A k \in Indices : out'[k] \in Row
        BY <2>2, <3>1
      <4>2. \A k \in Indices : out'[k].name \in Names /\ out'[k].name \in Nat
        BY <4>1, NamesAssumption DEF Row, NamesAssumption
      <4>3. name \in [Indices -> Names]
        BY <4>2
      <4>4. \A i, j \in Indices : i # j => name[i] # name[j]
        <5>1. ASSUME NEW i \in Indices, NEW j \in Indices, i < j
              PROVE  name[i] # name[j]
          BY <2>2, <4>2, <5>1
        <5>2. \A i, j \in Indices : i # j => i < j \/ j < i
          BY <1>0
        <5> HIDE DEF name
        <5> QED BY <5>1, <5>2
      <4>5. \A c \in Names : \E k \in Indices : name[k] = c
        <5> HIDE DEF name
        <5> QED BY <4>3, <4>4, Onto
      <4> QED BY <4>2, <4>5
    <3>4. \A k \in 1..Len(out') - 1 : out'[k].name < out'[k + 1].name
      BY <1>0, <2>2
    <3> QED BY <3>1, <3>2, <3>3, <3>4 DEF ListingIsWhole
  <2> QED BY <2>3, <2>4, <2>5, <2>6 DEF ListPart
<1>7. CASE AskOthers
  BY <1>1, <1>7, AskOthersFrame
<1>8. ASSUME NEW k \in Indices, Goroutine(k)
      PROVE  ListPart'
  <2>1. /\ pc \in {"fan", "wait"} /\ UNCHANGED <<pc, next>>
        /\ Len(out) = N
        /\ \A i, j \in Indices : i # j => out[i].name # out[j].name
        /\ \A j \in Indices :
            /\ worker[j] = "none" <=> j >= next
            /\ worker[j] \in {"inspect", "release"} => id[j] = out[j].name
            /\ worker[j] \in {"none", "inspect"} => out[j].name \notin answered
            /\ out[j].detail = IF out[j].name \in answered THEN out[j].name ELSE Nobody
    BY <1>0, <1>8 DEF Goroutine, Inspect, Release, Finish, ListInv
  <2>2. \A j \in Indices : out[j] \in Row /\ out[j].name \in Names
    <3>1. \A j \in Indices : out[j] \in Row
      BY <1>0, <2>1
    <3> QED BY <3>1 DEF Row
  <2>3. ListingIsWhole'
    BY <2>1 DEF ListingIsWhole
  <2>4. CASE Inspect(k)
    <3>1. /\ worker[k] = "inspect" /\ worker' = [worker EXCEPT ![k] = "release"]
          /\ UNCHANGED <<id, slots, waiting>> /\ id[k] = out[k].name
          /\ \/ UNCHANGED <<out, answered>>
             \/ /\ out' = [out EXCEPT ![k].detail = out[k].name]
                /\ answered' = answered \cup {out[k].name}
      BY <2>1, <2>4 DEF Inspect
    <3>2. Holding' = Holding /\ Running' = Running
      BY <1>0, <3>1 DEF Holding, Running, ListType
    <3>3. CountInv'
      BY <1>0, <3>1, <3>2 DEF CountInv
    <3>4. out' \in Seq(Row) /\ Len(out') = N
      <4>1. [out[k] EXCEPT !.detail = out[k].name] \in Row
        BY <2>2 DEF Row
      <4>2. out \in [1..N -> Row]
        BY <1>0, <2>1
      <4>3. out' \in [1..N -> Row]
        BY <1>0, <3>1, <4>1, <4>2
      <4> QED BY <1>0, <4>3
    <3>5. /\ \A j \in Indices : out'[j].name = out[j].name
          /\ \A j \in Indices \ {k} : out'[j] = out[j]
          /\ \/ UNCHANGED <<out, answered>>
             \/ out'[k].detail = out[k].name /\ answered' = answered \cup {out[k].name}
      BY <1>0, <2>1, <2>2, <3>1 DEF Row
    <3>6. ListType'
      BY <1>0, <2>1, <2>2, <3>1, <3>4 DEF ListType
    <3>7. ListInv'
      <4>1. ASSUME NEW j \in Indices
            PROVE  /\ worker'[j] = "none" <=> j >= next
                   /\ worker'[j] \in {"inspect", "release"} => id'[j] = out'[j].name
                   /\ worker'[j] \in {"none", "inspect"} => out'[j].name \notin answered'
                   /\ out'[j].detail = IF out'[j].name \in answered' THEN out'[j].name ELSE Nobody
        BY <1>0, <2>1, <3>1, <3>5 DEF ListType
      <4> QED BY <1>0, <2>1, <3>4, <3>5, <4>1 DEF ListInv
    <3> QED BY <2>3, <3>3, <3>6, <3>7 DEF ListPart
  <2>5. CASE Release(k)
    <3>1. /\ worker[k] = "release" /\ worker' = [worker EXCEPT ![k] = "finish"]
          /\ slots' = slots - 1 /\ UNCHANGED <<out, id, waiting, answered>>
      BY <2>5 DEF Release, GiveBack
    <3>2. Holding' = Holding \ {k} /\ k \in Holding /\ Running' = Running
      BY <1>0, <3>1 DEF Holding, Running, ListType
    <3>3. Cardinality(Holding') = Cardinality(Holding) - 1
      BY <1>0, <3>2, Counts, FS_RemoveElement
    <3>4. CountInv'
      <4>1. slots \in Nat /\ Concurrency \in Nat
        BY <1>0, Counts, ConcurrencyAssumption DEF CountInv, ConcurrencyAssumption
      <4> QED BY <1>0, <3>1, <3>2, <3>3, <4>1 DEF CountInv
    <3>5. ListType'
      BY <1>0, <2>1, <3>1 DEF ListType
    <3>6. ListInv'
      BY <1>0, <2>1, <3>1 DEF ListInv, ListType
    <3> QED BY <2>3, <3>4, <3>5, <3>6 DEF ListPart
  <2>6. CASE Finish(k)
    <3>1. /\ worker[k] = "finish" /\ worker' = [worker EXCEPT ![k] = "gone"]
          /\ id' = [id EXCEPT ![k] = Nobody]
          /\ waiting' = waiting - 1 /\ UNCHANGED <<out, slots, answered>>
      BY <2>6 DEF Finish
    <3>2. Running' = Running \ {k} /\ k \in Running /\ Holding' = Holding
      BY <1>0, <3>1 DEF Holding, Running, ListType
    <3>3. Cardinality(Running') = Cardinality(Running) - 1
      BY <1>0, <3>2, Counts, FS_RemoveElement
    <3>4. CountInv'
      BY <1>0, <3>1, <3>2, <3>3 DEF CountInv
    <3>5. ListType'
      BY <1>0, <2>1, <3>1 DEF ListType
    <3>6. ListInv'
      BY <1>0, <2>1, <3>1 DEF ListInv, ListType
    <3> QED BY <2>3, <3>4, <3>5, <3>6 DEF ListPart
  <2> QED BY <1>8, <2>4, <2>5, <2>6 DEF Goroutine
<1>9. ASSUME UNCHANGED <<pc, next, list_vars>> PROVE ListPart'
  BY <1>0, <1>9 DEF ListPart, ListType, ListInv, CountInv, Holding, Running, ListingIsWhole
<1>10. ASSUME NEW c \in MSSQL, ChangeCredentials(c) PROVE ListPart'
  BY <1>9, <1>10 DEF ChangeCredentials
<1>11. CASE UNCHANGED vars
  BY <1>9, <1>11 DEF vars
<1> QED BY <1>2, <1>3, <1>4, <1>5, <1>6, <1>7, <1>8, <1>10, <1>11
        DEF Next, Snapshot, ReadContainers, AskOthers

-----------------------------------------------------------------------------
(* What is reported of a container. *)

Entries(c) == [container : {c}, name : DbNames \cup FileNames \cup {"container"}, source : {"sql", "file", "placeholder"}]

\* The entries of one container: there is one, a placeholder stands alone, and
\* every database found by its file is told of once.
Whole(new, c, fs) ==
  /\ new \subseteq Entries(c) /\ new # {}
  /\ \A d \in new : d.source = "placeholder" => new = {d}
  /\ Tells(new, fs)

LEMMA FilesWhole ==
  ASSUME NEW found \in SUBSET FileNames
  PROVE  Whole(Placeholder({Entry(f, "file") : f \in found}), Here, found)
<1> DEFINE new == {Entry(f, "file") : f \in found}
<1>1. CASE found = {}
  <2>1. Placeholder(new) = {Entry("container", "placeholder")}
    BY <1>1 DEF Placeholder
  <2>2. Entry("container", "placeholder") \in Entries(Here) /\ Entry("container", "placeholder").source = "placeholder"
    BY DEF Entry, Entries
  <2> QED BY <1>1, <2>1, <2>2 DEF Whole, Tells
<1>2. CASE found # {}
  <2>1. Placeholder(new) = new /\ new # {}
    BY <1>2 DEF Placeholder
  <2>2. \A d \in new : d.source = "file" /\ d \in Entries(Here) /\ d.name \in found
    BY DEF Entry, Entries
  <2>3. ASSUME NEW f \in found PROVE \E d \in new : d.source = "file" /\ d.name = f
    <3>1. Entry(f, "file") \in new
      OBVIOUS
    <3> QED BY <3>1 DEF Entry
  <2>4. Tells(new, found)
    <3> HIDE DEF new
    <3> QED BY <2>2, <2>3 DEF Tells
  <2>5. Whole(new, Here, found)
    <3> HIDE DEF new
    <3> QED BY <2>1, <2>2, <2>4 DEF Whole
  <2> QED BY <2>1, <2>5
<1> QED BY <1>1, <1>2

LEMMA MergeWhole ==
  ASSUME NEW found \in SUBSET FileNames, NEW rows \in SUBSET DbNames, rows # {}
  PROVE  Whole(Merge(rows, found), Here, found)
<1>1. Merge(rows, found) # {}
  BY DEF Merge
<1>2. \A d \in Merge(rows, found) :
        /\ d \in Entries(Here)
        /\ \/ d.source = "sql" /\ d.name \in rows
           \/ /\ d.source = "file" /\ d.name \in found
              /\ \A r \in rows : Lower[d.name] # Lower[r]
  BY DEF Merge, Entry, Entries
<1>3. \A r \in rows : \E d \in Merge(rows, found) : d.source = "sql" /\ d.name = r
  <2>1. ASSUME NEW r \in rows PROVE \E d \in Merge(rows, found) : d.source = "sql" /\ d.name = r
    <3>1. Entry(r, "sql") \in Merge(rows, found)
      BY DEF Merge
    <3> QED BY <3>1 DEF Entry
  <2> QED BY <2>1
<1>4. \A f \in found : (\A r \in rows : Lower[f] # Lower[r]) =>
        \E d \in Merge(rows, found) : d.source = "file" /\ d.name = f
  <2>1. ASSUME NEW f \in found, \A r \in rows : Lower[f] # Lower[r]
        PROVE  \E d \in Merge(rows, found) : d.source = "file" /\ d.name = f
    <3>1. Entry(f, "file") \in Merge(rows, found)
      BY <2>1 DEF Merge
    <3> QED BY <3>1 DEF Entry
  <2> QED BY <2>1
<1>5. PICK new : new = Merge(rows, found)
  OBVIOUS
<1>6. Tells(new, found)
  <2>1. \A d \in new : d.source = "file" => d.name \in found
    BY <1>2, <1>5
  <2>2. ASSUME NEW f \in found
        PROVE  (\E d \in new : d.source = "file" /\ d.name = f)
                  <=> ~\E d \in new : d.source = "sql" /\ Lower[d.name] = Lower[f]
    <3>1. CASE \E r \in rows : Lower[f] = Lower[r]
      BY <1>2, <1>3, <1>5, <3>1
    <3>2. CASE \A r \in rows : Lower[f] # Lower[r]
      BY <1>2, <1>4, <1>5, <3>2
    <3> QED BY <3>1, <3>2
  <2> QED BY <2>1, <2>2 DEF Tells
<1> QED BY <1>1, <1>2, <1>5, <1>6 DEF Whole

-----------------------------------------------------------------------------
(* readDatabases keeps the rest of the invariant. *)

Databases == [container : MSSQL \cup {Host}, name : DbNames \cup FileNames \cup {"container", "cluster"},
              source : {"sql", "file", "placeholder", "cluster"}]

EnginePart == databases \subseteq Databases /\ EngineInv

\* The containers of the listing are distinct, and none is the host.
LEMMA Distinct ==
  ASSUME ListPart, pc \notin {"list", "fan", "wait"}
  PROVE  /\ Len(out) \in Nat /\ DOMAIN out = 1..Len(out) /\ next \in Nat
         /\ \A k \in DOMAIN out : out[k].name \in Names /\ out[k].name # Host
         /\ \A i, j \in DOMAIN out : i # j => out[i].name # out[j].name
<1>1. out \in Seq(Row) /\ next \in Nat
  BY DEF ListPart, ListType
<1>2. Len(out) \in Nat /\ DOMAIN out = 1..Len(out) /\ \A k \in DOMAIN out : out[k] \in Row
  BY <1>1
<1>3. \A k \in DOMAIN out : out[k].name \in Names
  BY <1>2 DEF Row
<1>4. \A k \in DOMAIN out : out[k].name \in Nat /\ out[k].name # Host
  BY <1>3, NamesAssumption DEF NamesAssumption, Host
<1>5. \A i, j \in DOMAIN out : i < j => out[i].name < out[j].name
  BY DEF ListPart, ListInv
<1>6. \A i, j \in DOMAIN out : i # j => i < j \/ j < i
  BY <1>2
<1> QED BY <1>1, <1>2, <1>3, <1>4, <1>5, <1>6

\* The loop reports the container it is at and goes on.
\* (A container that is not MSSQL is passed over.)
LEMMA Report ==
  ASSUME ListPart, EnginePart, Looking, next <= Len(out), NEW new,
         \/ Here \in MSSQL /\ Whole(new, Here, files'[Here])
         \/ Here \notin MSSQL /\ new = {},
         \A c \in MSSQL : c # Here => files'[c] = files[c],
         databases' = databases \cup new,
         NextContainer("look"), UNCHANGED <<out, query>>
  PROVE  EnginePart'
<1>0. /\ pc \notin {"list", "fan", "wait"} /\ next \in 1..Len(out) /\ next \in DOMAIN out
      /\ Len(out) \in Nat /\ DOMAIN out = 1..Len(out)
  BY Distinct DEF Looking, ListPart, ListType
<1> DEFINE Now(c) == {d \in databases' : d.container = c}
           OnceNow(c) == Tells(Now(c), files'[c]) /\ Now(c) # {} /\ \A d \in Now(c) : d.source = "placeholder" => Now(c) = {d}
<1>01. PICK here : here = out[next].name
  OBVIOUS
<1>1. /\ here # Host /\ (new # {} <=> here \in MSSQL)
      /\ \A k \in DOMAIN out : k # next => out[k].name # here /\ out[k].name # Host
      /\ new \subseteq Entries(here)
      /\ \A d \in new : d.container = here /\ d.source \in {"sql", "file", "placeholder"}
      /\ \A d \in new : d.source = "placeholder" => new = {d}
      /\ here \in MSSQL => Tells(new, files'[here])
      /\ \A c \in MSSQL : c # here => files'[c] = files[c]
  BY <1>0, <1>01, Distinct DEF Here, Whole, Entries
<1>2. /\ \A d \in databases : d.container = Host \/ \E j \in 1..next - 1 : d.container = out[j].name
      /\ \A j \in 1..next - 1 : out[j].name \in MSSQL => ShownOnce(out[j].name)
  BY DEF EnginePart, EngineInv
<1>3. \A d \in databases : d.container # here
  BY <1>0, <1>1, <1>2
<1>4. Now(here) = new
  BY <1>1, <1>3
<1>5. \A j \in 1..next - 1 : Now(out[j].name) = Of(out[j].name)
  BY <1>0, <1>1 DEF Of
<1>6. \A j \in 1..next : out[j].name \in MSSQL => OnceNow(out[j].name)
  <2>1. here \in MSSQL => OnceNow(here)
    <3> HIDE DEF Now
    <3> QED BY <1>1, <1>4
  <2>2. \A j \in 1..next - 1 : out[j].name \in MSSQL => OnceNow(out[j].name)
    <3> HIDE DEF Now
    <3>1. \A j \in 1..next - 1 : out[j].name \in MSSQL => files'[out[j].name] = files[out[j].name]
      BY <1>0, <1>1
    <3>2. ASSUME NEW j \in 1..next - 1, out[j].name \in MSSQL PROVE OnceNow(out[j].name)
      <4>1. Now(out[j].name) = Of(out[j].name) /\ files'[out[j].name] = files[out[j].name]
        BY <1>5, <3>1, <3>2
      <4> QED BY <1>2, <3>2, <4>1 DEF ShownOnce
    <3> QED BY <3>2
  <2>3. \A j \in 1..next : j = next \/ j \in 1..next - 1
    BY <1>0
  <2> HIDE DEF OnceNow
  <2> QED BY <1>01, <2>1, <2>2, <2>3
<1>7. \A d \in databases' : d.container = Host \/ \E j \in 1..next : d.container = out[j].name
  BY <1>0, <1>01, <1>1, <1>2
<1>8. databases' \subseteq Databases
  <2>1. \A d \in new : d \in Databases
    BY <1>1 DEF Entries, Databases
  <2> QED BY <1>1, <1>2, <2>1 DEF EnginePart
<1>9. EngineInv'
  <2>1. CASE next < Len(out)
    <3>1. pc' = "look" /\ next' = next + 1 /\ next' - 1 = next
      BY <1>0, <2>1 DEF NextContainer
    <3> QED BY <1>0, <1>6, <1>7, <1>8, <2>1, <3>1 DEF EngineInv, Looking, Looked, ShownOnce, Of, Tells
  <2>2. CASE next = Len(out)
    <3>1. pc' = "reload" /\ next' = next
      BY <1>0, <2>2 DEF NextContainer
    <3> QED BY <1>0, <1>6, <1>8, <2>2, <3>1 DEF EngineInv, Looking, Looked, ShownOnce, Of, Tells
  <2> QED BY <1>0, <2>1, <2>2
<1> QED BY <1>8, <1>9 DEF EnginePart

\* The loop of readSQLServers goes on.
LEMMA Pass ==
  ASSUME ListPart, EnginePart, Looked, next <= Len(out), UNCHANGED <<out, databases, files>>,
         \/ pc' = "probe" /\ next' = next + 1 /\ next' <= Len(out)
         \/ pc' = "done"
         \/ pc' \in {"create", "start"} /\ UNCHANGED next /\ query' = "pressure" /\ Here \in MSSQL
  PROVE  EnginePart'
<1>1. \A k \in DOMAIN out : out[k].name \in MSSQL => ShownOnce(out[k].name)'
  BY DEF EnginePart, EngineInv, ShownOnce, Of, Tells
<1>2. EngineInv'
  BY <1>1 DEF EnginePart, EngineInv, Looking, Looked, Here, ShownOnce, Of, Tells
<1> QED BY <1>2 DEF EnginePart

\* Another query is tried at the container, or the same one goes on.
LEMMA Stay ==
  ASSUME ListPart, EnginePart, Looking, next <= Len(out), Here \in MSSQL,
         UNCHANGED <<out, databases, next>>,
         \A c \in MSSQL : c # Here => files'[c] = files[c],
         pc' \in {"create", "start"}, query' # "pressure"
  PROVE  EnginePart'
<1>0. \A j \in 1..next - 1 : j \in DOMAIN out /\ out[j].name # Here
  BY Distinct DEF Here, Looking
<1>1. \A j \in 1..next - 1 : out[j].name \in MSSQL => ShownOnce(out[j].name)'
  BY <1>0 DEF EnginePart, EngineInv, ShownOnce, Of, Tells
<1>2. EngineInv'
  BY <1>1 DEF EnginePart, EngineInv, Looking, Looked, Here
<1> QED BY <1>2 DEF EnginePart

LEMMA QueryFailsStep ==
  ASSUME ListPart, EnginePart, pc \in {"create", "start"}, query \in Queries,
         files \in [MSSQL -> SUBSET FileNames], QueryFails, UNCHANGED <<out, files>>
  PROVE  EnginePart'
<1>1. next <= Len(out) /\ Here \in MSSQL /\ Len(out) \in Nat /\ next \in Nat
  BY Distinct DEF EnginePart, EngineInv
<1>2. CASE query = "metadata"
  <2>1. pc' = "create" /\ query' = "sizes" /\ UNCHANGED <<next, databases>>
    BY <1>2 DEF QueryFails
  <2> QED BY <1>1, <1>2, <2>1, Stay DEF Looking
<1>3. CASE query = "sizes"
  <2> DEFINE new == Placeholder({Entry(f, "file") : f \in files[Here]})
  <2>1. NextContainer("look") /\ databases' = databases \cup new /\ UNCHANGED query
    BY <1>3 DEF QueryFails, ByFiles
  <2>2. Looking /\ Whole(new, Here, files[Here])
    BY <1>1, <1>3, FilesWhole DEF Looking
  <2> HIDE DEF new
  <2>3. (Here \in MSSQL /\ Whole(new, Here, files'[Here])) \/ (Here \notin MSSQL /\ new = {})
    BY <1>1, <2>2
  <2> QED BY ONLY ListPart, EnginePart, UNCHANGED <<out, files>>, <1>1, <2>1, <2>2, <2>3, Report
<1>4. CASE query = "pressure"
  <2>1. NextContainer("probe") /\ UNCHANGED <<query, databases>>
    BY <1>4 DEF QueryFails
  <2> QED BY <1>1, <1>4, <2>1, Pass DEF Looked, NextContainer
<1> QED BY <1>2, <1>3, <1>4 DEF Queries

LEMMA EngineStep ==
  ASSUME TypeOK, ListPart, EnginePart, [Next]_vars
  PROVE  EnginePart'
<1> USE DEF list_vars, probe_vars, world_vars
<1>0. /\ files \in [MSSQL -> SUBSET FileNames] /\ query \in Queries /\ configs \in SUBSET MSSQL
      /\ databases \subseteq Databases /\ EngineInv
      /\ Len(out) \in Nat /\ next \in 1..Len(out) + 1 /\ (out = <<>> <=> Len(out) = 0)
  BY DEF TypeOK, EnginePart
<1>1. ASSUME pc \in {"list", "fan", "wait"}, pc' \in {"fan", "wait", "postgres"}, UNCHANGED databases
      PROVE  EnginePart'
  BY <1>0, <1>1 DEF EnginePart, EngineInv, Looking, Looked
<1>2. CASE ReadContainers
  BY <1>1, <1>2 DEF ReadContainers, List, NoDocker, Launch, EndFan, SortListing
<1>3. ASSUME NEW k \in Indices, Goroutine(k) PROVE EnginePart'
  <2>1. pc \in {"fan", "wait"} /\ UNCHANGED <<pc, databases>>
    BY <1>3 DEF Goroutine, Inspect, Release, Finish, ListPart, ListInv
  <2> QED BY <1>1, <2>1
<1>4. CASE ReadPostgreSQL
  <2>1. /\ \A d \in databases' : d \in Databases /\ d.container = Host
        /\ pc' = "load"
    BY <1>4 DEF ReadPostgreSQL, QueryInventories, Clusters, Databases
  <2> QED BY <2>1 DEF EnginePart, EngineInv, Looking, Looked
<1>5. CASE LoadConfigs
  <2>1. UNCHANGED <<out, databases, query, files>> /\ next' = 1
    BY <1>5 DEF LoadConfigs
  <2>2. CASE pc = "load" /\ pc' = "look"
    BY <1>0, <2>1, <2>2 DEF EnginePart, EngineInv, Looking, Looked
  <2>3. CASE pc = "reload" /\ pc' = "probe"
    <3>1. \A k \in DOMAIN out : out[k].name \in MSSQL => ShownOnce(out[k].name)'
      BY <1>0, <2>1, <2>3 DEF EngineInv, Looked, ShownOnce, Of, Tells
    <3> QED BY <1>0, <2>1, <2>3, <3>1 DEF EnginePart, EngineInv, Looking, Looked, ShownOnce, Of, Tells
  <2> QED BY <1>5, <2>2, <2>3 DEF LoadConfigs
<1>6. CASE Skip
  <2>1. UNCHANGED <<out, databases, query, files>>
    BY <1>6 DEF Skip
  <2>2. CASE Visiting("look") /\ Here \notin MSSQL /\ NextContainer("look")
    <3>1. databases' = databases \cup {}
      BY <2>1
    <3> QED BY <2>1, <2>2, <3>1, Report DEF Visiting, Looking
  <2>3. CASE Visiting("probe") /\ NextContainer("probe")
    BY <1>0, <2>1, <2>3, Pass DEF Visiting, Looked, NextContainer
  <2> QED BY <1>6, <2>2, <2>3 DEF Skip
<1>7. CASE NothingListed
  BY <1>0, <1>7 DEF NothingListed, EnginePart, EngineInv, Looking, Looked
<1>8. CASE LookAtFiles
  <2>1. PICK found \in SUBSET FileNames :
          /\ files' = [files EXCEPT ![Here] = found]
          /\ IF Here \in configs
             THEN pc' = "create" /\ query' = "metadata" /\ UNCHANGED <<next, databases>>
             ELSE NextContainer("look") /\ databases' = ByFiles(found) /\ UNCHANGED query
    BY <1>8 DEF LookAtFiles, FileInventories
  <2>2. pc = "look" /\ next <= Len(out) /\ Here \in MSSQL /\ UNCHANGED out /\ Looking
    BY <1>8 DEF LookAtFiles, Visiting, Looking
  <2>5. files'[Here] = found /\ \A c \in MSSQL : c # Here => files'[c] = files[c]
    BY <1>0, <2>1, <2>2
  <2>3. CASE Here \in configs
    BY <2>1, <2>2, <2>3, <2>5, Stay
  <2>4. CASE Here \notin configs
    <3> DEFINE new == Placeholder({Entry(f, "file") : f \in found})
    <3>1. NextContainer("look") /\ databases' = databases \cup new /\ UNCHANGED query
      BY <2>1, <2>4 DEF ByFiles
    <3>2. Whole(new, Here, found)
      BY FilesWhole
    <3> HIDE DEF new
    <3>3. (Here \in MSSQL /\ Whole(new, Here, files'[Here])) \/ (Here \notin MSSQL /\ new = {})
      BY <2>2, <2>5, <3>2
    <3> QED BY ONLY ListPart, EnginePart, <2>2, <2>5, <3>1, <3>3, Report
  <2> QED BY <2>3, <2>4
<1>9. CASE Probe
  BY <1>9, Pass DEF Probe, Visiting, Looked
<1>10. CASE CreateExec
  <2>1. /\ pc = "create" /\ pc' = "start" /\ UNCHANGED <<out, databases, next, query, files>>
        /\ next <= Len(out) /\ Here \in MSSQL
    BY <1>0, <1>10 DEF CreateExec, EngineInv
  <2>2. CASE query = "pressure"
    BY <2>1, <2>2, Pass DEF Looked
  <2>3. CASE query # "pressure"
    BY <2>1, <2>3, Stay DEF Looking
  <2> QED BY <2>2, <2>3
<1>11. CASE ExecFails
  BY <1>0, <1>11, QueryFailsStep DEF ExecFails
<1>12. CASE StartExec
  <2>1. PICK rows \in SUBSET DbNames : QueryAnswers(rows)
    BY <1>12 DEF StartExec, QueryInventories
  <2>2. /\ pc = "start" /\ UNCHANGED <<out, files>> /\ next <= Len(out) /\ Here \in MSSQL
    BY <1>0, <1>12 DEF StartExec, EngineInv
  <2>3. CASE rows = {}
    BY <1>0, <2>1, <2>2, <2>3, QueryFailsStep DEF QueryAnswers, Usable
  <2>4. CASE rows # {} /\ query = "pressure"
    BY <1>0, <2>1, <2>2, <2>4, Pass DEF QueryAnswers, Usable, NextContainer, Looked
  <2>5. CASE rows # {} /\ query # "pressure"
    <3>1. /\ NextContainer("look") /\ databases' = databases \cup Merge(rows, files[Here]) /\ UNCHANGED query
      BY <2>1, <2>5 DEF QueryAnswers, Usable
    <3>2. Whole(Merge(rows, files[Here]), Here, files[Here]) /\ Looking
      BY <1>0, <2>2, <2>5, MergeWhole DEF Looking
    <3>3. PICK new : new = Merge(rows, files[Here])
      OBVIOUS
    <3>4. (Here \in MSSQL /\ Whole(new, Here, files'[Here])) \/ (Here \notin MSSQL /\ new = {})
      BY <2>2, <3>2, <3>3
    <3> QED BY ONLY ListPart, EnginePart, <2>2, <3>1, <3>2, <3>3, <3>4, Report
  <2> QED BY <2>3, <2>4, <2>5
<1>13. ASSUME UNCHANGED <<pc, next, out, query, databases, files>> PROVE EnginePart'
  BY <1>0, <1>13 DEF EnginePart, EngineInv, Looking, Looked, ShownOnce, Of, Tells, Here
<1>14. ASSUME NEW c \in MSSQL, ChangeCredentials(c) PROVE EnginePart'
  BY <1>13, <1>14 DEF ChangeCredentials
<1>15. CASE UNCHANGED vars
  BY <1>13, <1>15 DEF vars
<1> QED BY <1>2, <1>3, <1>4, <1>5, <1>6, <1>7, <1>8, <1>9, <1>10, <1>11, <1>12, <1>14, <1>15
        DEF Next, Snapshot, ReadContainers

-----------------------------------------------------------------------------
(* The theorems. *)

LEMMA InitIInv == Init => IInv
<1> SUFFICES ASSUME Init PROVE IInv
  OBVIOUS
<1>1. out = <<>> /\ Len(out) = 0 /\ out \in Seq(Row) /\ DOMAIN out = {} /\ databases = {}
  BY DEF Init
<1>2. Holding = {} /\ Running = {}
  BY DEF Init, Holding, Running
<1>3. TypeOK
  <2>1. /\ stored \subseteq MSSQL /\ configs \subseteq MSSQL /\ files \in [MSSQL -> SUBSET FileNames]
        /\ servers \subseteq MSSQL /\ answered \subseteq Names /\ query \in Queries
        /\ databases \subseteq Databases
    BY DEF Init, Queries
  <2>2. changes \in 0..MaxChanges /\ slots \in 0..N /\ waiting \in 0..Len(out) /\ next \in 1..Len(out) + 1
        /\ Len(out) <= N
    BY <1>1, NType, ChangesAssumption DEF Init, ChangesAssumption
  <2>3. /\ worker \in [Indices -> {"none", "inspect", "release", "finish", "gone"}]
        /\ id \in [Indices -> Names \cup {Nobody}]
        /\ pc = "list"
    BY DEF Init
  <2> QED BY <1>1, <2>1, <2>2, <2>3 DEF TypeOK, Row, N, Databases
<1>4. ListInv /\ ListingIsWhole
  BY <1>1 DEF Init, ListInv, ListingIsWhole
<1>5. CountInv
  BY <1>2, FS_EmptySet, ConcurrencyAssumption DEF Init, CountInv, ConcurrencyAssumption
<1>6. EngineInv
  BY <1>1 DEF Init, EngineInv, Looking, Looked
<1> QED BY <1>3, <1>4, <1>5, <1>6 DEF IInv

\* The parts of the type that neither the listing nor the databases are.
LEMMA TypeStep ==
  ASSUME TypeOK, EngineInv, ListPart', EnginePart', [Next]_vars
  PROVE  TypeOK'
<1> USE DEF list_vars, probe_vars, world_vars
<1>1. /\ slots' \in 0..N /\ waiting' \in 0..Len(out')
  <2>1. ListType' /\ ListInv' /\ CountInv'
    BY DEF ListPart
  <2>2. /\ Cardinality(Holding') \in Nat /\ Cardinality(Running') \in Nat
        /\ Cardinality(Holding') <= Cardinality(Running') /\ Cardinality(Running') <= N
    <3>1. Holding' \in SUBSET Running' /\ Running' \in SUBSET Indices
      BY DEF Holding, Running
    <3>2. IsFiniteSet(Running') /\ Cardinality(Running') <= N
      BY <3>1, NType, FS_Subset
    <3>3. IsFiniteSet(Holding') /\ Cardinality(Holding') <= Cardinality(Running')
      BY <3>1, <3>2, FS_Subset
    <3> QED BY <3>2, <3>3, FS_CardinalityType
  <2>3. waiting' <= Len(out') /\ Len(out') \in Nat
    <3>0. Len(out') \in Nat
      BY <2>1 DEF ListType
    <3>1. CASE pc' \in {"fan", "wait"}
      BY <2>1, <2>2, <3>1, <3>0 DEF ListInv, CountInv
    <3>2. CASE pc' \notin {"fan", "wait"}
      <4>1. Running' = {}
        BY <2>1, <3>2 DEF ListInv, Running
      <4>2. waiting' = 0
        BY <2>1, <4>1, FS_EmptySet DEF CountInv
      <4> QED BY <3>0, <4>2
    <3> QED BY <3>1, <3>2
  <2> QED BY <2>1, <2>2, <2>3, NType DEF CountInv
<1>2. /\ pc' \in {"list", "fan", "wait", "postgres", "load", "look", "create", "start", "reload", "probe", "done"}
      /\ stored' \subseteq MSSQL /\ changes' \in 0..MaxChanges
      /\ configs' \subseteq MSSQL /\ files' \in [MSSQL -> SUBSET FileNames] /\ query' \in Queries
      /\ servers' \subseteq MSSQL
  <2>0. /\ pc \in {"list", "fan", "wait", "postgres", "load", "look", "create", "start", "reload", "probe", "done"}
        /\ stored \subseteq MSSQL /\ changes \in 0..MaxChanges
        /\ configs \subseteq MSSQL /\ files \in [MSSQL -> SUBSET FileNames] /\ query \in Queries
        /\ servers \subseteq MSSQL
    BY DEF TypeOK
  <2>1. CASE ReadContainers
    BY <2>0, <2>1 DEF ReadContainers, List, NoDocker, Launch, EndFan, SortListing
  <2>2. CASE AskOthers
    <3>1. pc' \in {"load", "look", "create", "start", "reload", "probe", "done"}
      BY <2>2, AskOthersFrame
    <3>2. UNCHANGED <<stored, changes>>
      BY <2>2 DEF AskOthers, ReadPostgreSQL, LoadConfigs, Skip, NothingListed, LookAtFiles, Probe,
                  CreateExec, ExecFails, StartExec
    <3>3. CASE ReadPostgreSQL \/ LoadConfigs \/ Skip \/ NothingListed \/ LookAtFiles \/ Probe \/ CreateExec
      BY <2>0, <3>1, <3>2, <3>3 DEF ReadPostgreSQL, LoadConfigs, Skip, NothingListed, LookAtFiles,
         Probe, CreateExec, Queries, FileInventories
    <3>4. QueryFails => query' \in Queries
      BY <2>0 DEF QueryFails, Queries
    <3>5. CASE ExecFails
      BY <2>0, <3>1, <3>2, <3>4, <3>5 DEF ExecFails
    <3>6. CASE StartExec
      <4>1. Here \in MSSQL /\ UNCHANGED <<configs, files>>
        BY <3>6 DEF StartExec, EngineInv
      <4>2. query' \in Queries /\ servers' \subseteq MSSQL
        BY <2>0, <3>4, <3>6, <4>1 DEF StartExec, QueryAnswers
      <4> QED BY <2>0, <3>1, <3>2, <4>1, <4>2
    <3> QED BY <2>2, <3>3, <3>5, <3>6 DEF AskOthers
  <2>3. ASSUME NEW k \in Indices, Goroutine(k) PROVE UNCHANGED <<pc, world_vars, probe_vars>>
    BY <2>3 DEF Goroutine, Inspect, Release, Finish
  <2>4. ASSUME NEW c \in MSSQL, ChangeCredentials(c)
        PROVE  UNCHANGED <<pc, probe_vars>> /\ stored' \subseteq MSSQL /\ changes' \in 0..MaxChanges
    <3>1. MaxChanges \in Nat
      BY ChangesAssumption DEF ChangesAssumption
    <3> QED BY <2>0, <2>4, <3>1 DEF ChangeCredentials
  <2>5. CASE UNCHANGED vars
    BY <2>0, <2>5 DEF vars
  <2> QED BY <2>0, <2>1, <2>2, <2>3, <2>4, <2>5 DEF Next, Snapshot, ReadContainers, AskOthers
<1>3. ListType' /\ databases' \subseteq Databases
  BY DEF ListPart, EnginePart
<1> QED BY <1>1, <1>2, <1>3 DEF TypeOK, ListType, Row, N, Databases

LEMMA Invariance == Spec => []IInv
<1>1. IInv /\ [Next]_vars => IInv'
  <2> SUFFICES ASSUME IInv, [Next]_vars PROVE IInv'
    OBVIOUS
  <2>1. TypeOK /\ ListPart /\ EnginePart /\ EngineInv
    BY DEF IInv, ListPart, ListType, EnginePart, TypeOK, Row, N, Databases
  <2>2. ListPart' /\ EnginePart'
    BY <2>1, ListStep, EngineStep
  <2>3. TypeOK'
    BY <2>1, <2>2, TypeStep
  <2> QED BY <2>2, <2>3 DEF IInv, ListPart, EnginePart
<1> QED BY InitIInv, <1>1, PTL DEF Spec

-----------------------------------------------------------------------------

\* The type invariant, for any containers and any limit.
THEOREM TypeCorrect == Spec => []TypeOK
<1>1. IInv => TypeOK
  BY DEF IInv
<1> QED BY Invariance, <1>1, PTL

\* The semaphore of readContainers holds for any number of containers, and no
\* value stays in it.
THEOREM SemaphoreHolds == Spec => []InspectionsBounded
<1>1. IInv => InspectionsBounded
  BY DEF IInv, CountInv, InspectionsBounded, Holding
<1> QED BY Invariance, <1>1, PTL

\* readContainers returns every container once, in order, with its own
\* inspection: no goroutine writes through an address that the sort moved.
THEOREM ListingComplete == Spec => []ListingIsWhole
<1>1. IInv => ListingIsWhole
  BY DEF IInv
<1> QED BY Invariance, <1>1, PTL

\* No MSSQL container is missing from a snapshot, whatever fails.
THEOREM EnginesShown == Spec => []EveryEngineShown
<1>1. IInv => EveryEngineShown
  <2> SUFFICES ASSUME IInv, pc \in {"reload", "probe", "done"},
                      NEW k \in DOMAIN out, out[k].name \in MSSQL
               PROVE  /\ Of(out[k].name) # {}
                      /\ (\E d \in Of(out[k].name) : d.source = "placeholder") =>
                            Cardinality(Of(out[k].name)) = 1
    BY DEF EveryEngineShown, Of
  <2>1. ShownOnce(out[k].name)
    BY DEF IInv, EngineInv, Looked
  <2> QED BY <2>1, FS_Singleton DEF ShownOnce
<1> QED BY Invariance, <1>1, PTL

\* Of every container, whatever fails, each database found by a file is told of
\* exactly once, by the server or by the file, and no file of another is.
THEOREM FilesCounted == Spec => []EveryFileCounted
<1>1. IInv => EveryFileCounted
  <2> SUFFICES ASSUME IInv, pc \in {"reload", "probe", "done"},
                      NEW k \in DOMAIN out, out[k].name \in MSSQL, NEW c, c = out[k].name
               PROVE  /\ Reported(c, "file") \subseteq files[c]
                      /\ \A f \in files[c] :
                           f \in Reported(c, "file")
                             <=> ~\E r \in Reported(c, "sql") : Lower[r] = Lower[f]
    BY DEF EveryFileCounted
  <2>1. Tells(Of(c), files[c])
    BY DEF IInv, EngineInv, Looked, ShownOnce
  <2> QED BY <2>1 DEF Tells, Of, Reported
<1> QED BY Invariance, <1>1, PTL
=============================================================================
