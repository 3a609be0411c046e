----------------------------- MODULE MSSQLStore -----------------------------
(***************************************************************************)
(* The MSSQL inventory of internal/config/config.go: a JSON file of        *)
(* credentials whose passwords are sealed with a key kept in a file of its *)
(* own.  SaveMSSQLInventory and RemoveMSSQLInventory load the whole file,  *)
(* decrypt it, edit the list, encrypt it again and replace the file.       *)
(* Goroutines of the server (POST and DELETE /v1/config/mssql) exclude     *)
(* each other with mssqlInventoryMu; a CLI process (config remove-mssql)   *)
(* has its own copy of that mutex.                                         *)
(*                                                                         *)
(* File replacement is one step here: StateFile says when that is sound.   *)
(***************************************************************************)
EXTENDS Naturals, Sequences, FiniteSets

CONSTANTS
  Handlers,     \* goroutines of the server that save or remove
  Commands,     \* CLI processes that remove
  Containers, Passwords,
  MaxEntries,   \* maxMSSQLInventories
  Legacy,       \* the plaintext entries an older version may have left
  MaxFaults,    \* bound: killed commands, failed writes and losses of the key file
  MaxKeys,      \* bound: keys ever made
  NoFile, NoPassword, NoOp

ASSUME EntriesAssumption == MaxEntries \in Nat \ {0}
ASSUME BoundsAssumption  == MaxFaults \in Nat /\ MaxKeys \in Nat

Procs == Handlers \cup Commands
NoKey == 0
Plain == 0   \* the key number of an entry whose password is not sealed

VARIABLES
  file,     \* the inventory file: a sequence of entries, or NoFile
  key,      \* the key file: the number of a key, or NoKey
  made,     \* keys made so far
  lost,     \* the key file was lost at some time (history)
  pc, op,   \* the callers
  buf,      \* buf[p]: the list p works on; the key of a decrypted entry is Plain
  mutex,    \* handlers that hold mssqlInventoryMu, one or none
  outcome,  \* outcome[p]: what p's call returned, if it ended just now
  raced,    \* the call overlapped one of another process (history)
  seen,     \* seen[p]: the inventory as p's call loaded it (history)
  faults    \* killed commands, failed writes and losses so far

disk_vars == <<file, key, made, lost>>
call_vars == <<pc, op, buf, mutex, outcome, raced, seen>>
vars      == <<disk_vars, call_vars, faults>>

Entries == [c : Containers, pw : Passwords, k : 0..MaxKeys]
Ops     == [kind : {"save"}, c : Containers, pw : Passwords]
             \cup [kind : {"remove"}, c : Containers, pw : {NoPassword}]
Steps   == {"idle", "lock", "load", "decrypt", "encrypt", "mint", "unlink"}
Results == {"none", "ok", "full", "notfound", "error"}

\* An inventory as a map, and the one that holds nothing.
Maps     == [Containers -> Passwords \cup {NoPassword}]
EmptyMap == [c \in Containers |-> NoPassword]

ASSUME NothingAssumption ==
  /\ NoFile \notin Seq(Entries) /\ NoOp \notin Ops /\ NoPassword \notin Passwords

\* Older versions edited the list in the same way.
ASSUME LegacyAssumption ==
  /\ Legacy \in Seq([c : Containers, pw : Passwords, k : {Plain}])
  /\ Len(Legacy) <= MaxEntries
  /\ \A i, j \in DOMAIN Legacy : Legacy[i].c = Legacy[j].c => i = j

TypeOK ==
  /\ file \in Seq(Entries) \cup {NoFile}
  /\ key \in 0..made
  /\ made \in 0..MaxKeys
  /\ lost \in BOOLEAN
  /\ pc \in [Procs -> Steps]
  /\ op \in [Procs -> Ops \cup {NoOp}]
  /\ buf \in [Procs -> Seq(Entries)]
  /\ mutex \in SUBSET Handlers
  /\ outcome \in [Procs -> Results]
  /\ raced \in [Procs -> BOOLEAN]
  /\ seen \in [Procs -> Maps]
  /\ faults \in 0..MaxFaults

Silence == [p \in Procs |-> "none"]

\* A new installation, or one whose file was written before passwords were sealed.
Init ==
  /\ file \in {NoFile} \cup (IF Legacy = <<>> THEN {} ELSE {Legacy})
  /\ key = NoKey /\ made = 0 /\ lost = FALSE
  /\ pc = [p \in Procs |-> "idle"]
  /\ op = [p \in Procs |-> NoOp]
  /\ buf = [p \in Procs |-> <<>>]
  /\ mutex = {}
  /\ outcome = Silence
  /\ raced = [p \in Procs |-> FALSE]
  /\ seen = [p \in Procs |-> EmptyMap]
  /\ faults = 0

-----------------------------------------------------------------------------
(* Calls *)

List(f) == IF f = NoFile THEN <<>> ELSE f

At(s, c)  == {i \in DOMAIN s : s[i].c = c}
Least(S)  == CHOOSE i \in S : \A j \in S : i <= j

\* What the file says of a container, and of all of them.
Kept(c) ==
  LET found == At(List(file), c)
  IN IF found = {} THEN NoPassword ELSE List(file)[Least(found)].pw

Stored == [c \in Containers |-> Kept(c)]

Goto(p, s) == pc' = [pc EXCEPT ![p] = s]

\* The deferred Unlock and the call's result.
Return(p, res) ==
  /\ Goto(p, "idle")
  /\ op' = [op EXCEPT ![p] = NoOp]
  /\ buf' = [buf EXCEPT ![p] = <<>>]
  /\ mutex' = mutex \ {p}
  /\ outcome' = [Silence EXCEPT ![p] = res]
  /\ raced' = [raced EXCEPT ![p] = FALSE]
  /\ seen' = [seen EXCEPT ![p] = EmptyMap]

\* A valid request or command; a handler has tested new credentials against the
\* container before it calls SaveMSSQLInventory.  What it asks for is chosen when
\* it has the mutex: nothing depends on it before.
Call(p) ==
  /\ pc[p] = "idle"
  /\ Goto(p, "lock")
  /\ outcome' = Silence
  /\ UNCHANGED <<disk_vars, op, buf, mutex, raced, seen, faults>>

\* The callers between Lock and Unlock, and whether two are of one process.
Inside == {q \in Procs : pc[q] \notin {"idle", "lock"}}
SameProcess(p, q) == p = q \/ {p, q} \subseteq Handlers

\* Mutant: handlers do not wait for the mutex.
Lock_NoWait(p, o) ==
  /\ pc[p] = "lock"
  /\ p \in Commands => o.kind = "remove"
  /\ op' = [op EXCEPT ![p] = o]
  /\ mutex' = IF p \in Handlers THEN {p} ELSE mutex
  /\ Goto(p, "load")
  /\ LET others == {q \in Inside : ~SameProcess(p, q)} IN
     raced' = [q \in Procs |-> raced[q] \/ q \in others \/ (q = p /\ others # {})]
  /\ outcome' = Silence
  /\ UNCHANGED <<disk_vars, buf, seen, faults>>

Lock(p, o) ==
  /\ pc[p] = "lock"
  /\ p \in Commands => o.kind = "remove"
  /\ op' = [op EXCEPT ![p] = o]
  /\ p \in Handlers => mutex = {}
  /\ mutex' = IF p \in Handlers THEN {p} ELSE mutex
  /\ Goto(p, "load")
  /\ LET others == {q \in Inside : ~SameProcess(p, q)} IN
     raced' = [q \in Procs |-> raced[q] \/ q \in others \/ (q = p /\ others # {})]
  /\ outcome' = Silence
  /\ UNCHANGED <<disk_vars, buf, seen, faults>>

\* LoadMSSQLInventories reads the file ...
Load(p) ==
  /\ pc[p] = "load"
  /\ buf' = [buf EXCEPT ![p] = List(file)]
  /\ seen' = [seen EXCEPT ![p] = Stored]
  /\ Goto(p, "decrypt")
  /\ outcome' = Silence
  /\ UNCHANGED <<disk_vars, op, mutex, raced, faults>>

\* ... and opens the passwords one by one, each with the key file as it is then.
Sealed(s) == {i \in DOMAIN s : s[i].k # Plain}
Opened(s) == {i \in DOMAIN s : s[i].k = Plain}

Decrypt(p) ==
  /\ pc[p] = "decrypt"
  /\ Sealed(buf[p]) # {}
  /\ LET i == Least(Sealed(buf[p])) IN
     /\ buf[p][i].k = key
     /\ buf' = [buf EXCEPT ![p][i].k = Plain]
  /\ outcome' = Silence
  /\ UNCHANGED <<disk_vars, pc, op, mutex, raced, seen, faults>>

\* Mutant: the error return does not unlock.
DecryptFails_KeepsLock(p) ==
  /\ pc[p] = "decrypt"
  /\ Sealed(buf[p]) # {}
  /\ buf[p][Least(Sealed(buf[p]))].k # key
  /\ Goto(p, "idle")
  /\ op' = [op EXCEPT ![p] = NoOp]
  /\ buf' = [buf EXCEPT ![p] = <<>>]
  /\ outcome' = [Silence EXCEPT ![p] = "error"]
  /\ raced' = [raced EXCEPT ![p] = FALSE]
  /\ seen' = [seen EXCEPT ![p] = EmptyMap]
  /\ UNCHANGED <<disk_vars, mutex, faults>>

\* Mutant: an entry that does not open is skipped.
DecryptFails_Skips(p) ==
  /\ pc[p] = "decrypt"
  /\ Sealed(buf[p]) # {}
  /\ LET i == Least(Sealed(buf[p])) IN
     /\ buf[p][i].k # key
     /\ buf' = [buf EXCEPT ![p] = SubSeq(@, 1, i - 1) \o SubSeq(@, i + 1, Len(@))]
  /\ outcome' = Silence
  /\ UNCHANGED <<disk_vars, pc, op, mutex, raced, seen, faults>>

\* The key is missing or another one: every caller gets an error.
DecryptFails(p) ==
  /\ pc[p] = "decrypt"
  /\ Sealed(buf[p]) # {}
  /\ buf[p][Least(Sealed(buf[p]))].k # key
  /\ Return(p, "error")
  /\ UNCHANGED <<disk_vars, faults>>

AllOpen(p)    == pc[p] = "decrypt" /\ Sealed(buf[p]) = {}
Entry(o)      == [c |-> o.c, pw |-> o.pw, k |-> Plain]

\* The loop over the loaded entries.
Without(s, c) ==
  LET next[i \in 0..Len(s)] ==
        IF i = 0 THEN <<>>
        ELSE IF s[i].c = c THEN next[i - 1] ELSE Append(next[i - 1], s[i])
  IN next[Len(s)]

\* Mutant: an entry is always appended.
EditSave_Appends(p) ==
  /\ AllOpen(p) /\ op[p].kind = "save"
  /\ IF Len(buf[p]) >= MaxEntries
     THEN Return(p, "full")
     ELSE /\ buf' = [buf EXCEPT ![p] = Append(@, Entry(op[p]))]
          /\ Goto(p, "encrypt")
          /\ outcome' = Silence /\ UNCHANGED <<op, mutex, raced, seen>>
  /\ UNCHANGED <<disk_vars, faults>>

\* SaveMSSQLInventory replaces the container's entry or appends one.
EditSave(p) ==
  /\ AllOpen(p) /\ op[p].kind = "save"
  /\ LET o == op[p]
         found == At(buf[p], o.c)
     IN IF found # {}
        THEN /\ buf' = [buf EXCEPT ![p][Least(found)] = Entry(o)]
             /\ Goto(p, "encrypt")
             /\ outcome' = Silence /\ UNCHANGED <<op, mutex, raced, seen>>
        ELSE IF Len(buf[p]) >= MaxEntries
        THEN Return(p, "full")
        ELSE /\ buf' = [buf EXCEPT ![p] = Append(@, Entry(o))]
             /\ Goto(p, "encrypt")
             /\ outcome' = Silence /\ UNCHANGED <<op, mutex, raced, seen>>
  /\ UNCHANGED <<disk_vars, faults>>

\* RemoveMSSQLInventory drops the container's entries, and the file with the last.
EditRemove(p) ==
  /\ AllOpen(p) /\ op[p].kind = "remove"
  /\ LET rest == Without(buf[p], op[p].c) IN
     IF rest = buf[p]
     THEN Return(p, "notfound")
     ELSE /\ buf' = [buf EXCEPT ![p] = rest]
          /\ Goto(p, IF rest = <<>> THEN "unlink" ELSE "encrypt")
          /\ outcome' = Silence /\ UNCHANGED <<op, mutex, raced, seen>>
  /\ UNCHANGED <<disk_vars, faults>>

\* encryptMSSQLPassword: each entry with the key file as it is then ...
Encrypt(p) ==
  /\ pc[p] = "encrypt"
  /\ Opened(buf[p]) # {}
  /\ IF key # NoKey
     THEN /\ buf' = [buf EXCEPT ![p][Least(Opened(buf[p]))].k = key]
          /\ UNCHANGED pc
     ELSE UNCHANGED buf /\ Goto(p, "mint")
  /\ outcome' = Silence
  /\ UNCHANGED <<disk_vars, op, mutex, raced, seen, faults>>

\* Mutant: the new key is used but does not reach the disk.
Mint_NotWritten(p) ==
  /\ pc[p] = "mint"
  /\ made < MaxKeys
  /\ made' = made + 1
  /\ buf' = [buf EXCEPT ![p][Least(Opened(buf[p]))].k = made + 1]
  /\ Goto(p, "encrypt")
  /\ outcome' = Silence
  /\ UNCHANGED <<file, key, lost, op, mutex, raced, seen, faults>>

\* ... or, if there was none, with a new key that replaces the key file first.
Mint(p) ==
  /\ pc[p] = "mint"
  /\ made < MaxKeys
  /\ made' = made + 1
  /\ key' = made + 1
  /\ buf' = [buf EXCEPT ![p][Least(Opened(buf[p]))].k = made + 1]
  /\ Goto(p, "encrypt")
  /\ outcome' = Silence
  /\ UNCHANGED <<file, lost, op, mutex, raced, seen, faults>>

AllSealed(p) == pc[p] = "encrypt" /\ Opened(buf[p]) = {}

Commit(p) ==
  /\ AllSealed(p)
  /\ file' = buf[p]
  /\ Return(p, "ok")
  /\ UNCHANGED <<key, made, lost, faults>>

\* os.Remove; a file that is gone already is no error.
Unlink(p) ==
  /\ pc[p] = "unlink"
  /\ file' = NoFile
  /\ Return(p, "ok")
  /\ UNCHANGED <<key, made, lost, faults>>

\* The key file or the inventory file cannot be replaced.
WriteFails(p) ==
  /\ pc[p] \in {"mint", "unlink"} \/ AllSealed(p)
  /\ faults < MaxFaults
  /\ faults' = faults + 1
  /\ Return(p, "error")
  /\ UNCHANGED <<disk_vars>>

-----------------------------------------------------------------------------
(* The environment. *)

LoseKey ==
  /\ key # NoKey
  /\ faults < MaxFaults
  /\ faults' = faults + 1
  /\ lost' = TRUE
  /\ key' = NoKey
  /\ outcome' = Silence
  /\ UNCHANGED <<file, made, pc, op, buf, mutex, raced, seen>>

\* The processes whose callers are P end: their memory goes, mutex included.
End(P) ==
  /\ \E p \in P : pc[p] # "idle"
  /\ pc' = [p \in Procs |-> IF p \in P THEN "idle" ELSE pc[p]]
  /\ op' = [p \in Procs |-> IF p \in P THEN NoOp ELSE op[p]]
  /\ buf' = [p \in Procs |-> IF p \in P THEN <<>> ELSE buf[p]]
  /\ outcome' = Silence
  /\ raced' = [p \in Procs |-> IF p \in P THEN FALSE ELSE raced[p]]
  /\ seen' = [p \in Procs |-> IF p \in P THEN EmptyMap ELSE seen[p]]
  /\ mutex' = mutex \ P
  /\ UNCHANGED disk_vars

\* A crash, or a stop: Run returns when Shutdown has closed the listener, main
\* ends, and the handlers that Shutdown still waits for end with it.
ServerEnds == End(Handlers) /\ UNCHANGED faults

CommandDies(p) ==
  /\ faults < MaxFaults /\ faults' = faults + 1
  /\ End({p})

-----------------------------------------------------------------------------

Work(p) ==
  \/ Load(p) \/ Decrypt(p) \/ DecryptFails(p) \/ EditSave(p) \/ EditRemove(p)
  \/ Encrypt(p) \/ Mint(p) \/ Commit(p) \/ Unlink(p) \/ WriteFails(p)

Next ==
  \/ \E p \in Procs : Call(p) \/ (\E o \in Ops : Lock(p, o)) \/ Work(p)
  \/ LoseKey \/ ServerEnds
  \/ \E p \in Commands : CommandDies(p)

Spec == Init /\ [][Next]_vars

-----------------------------------------------------------------------------
(* Properties *)

\* The inventory is a bounded map with atomic Save and Remove: a call either
\* takes effect as a whole or fails and changes nothing, "full" and "not found"
\* tell the truth, and only calls of two processes that overlap escape this
\* (config.go Save and Remove under mssqlInventoryMu; crashes, failed writes and
\* lost keys included).
Map == INSTANCE InventoryMap WITH
  store   <- Stored,
  pending <- op

AtomicMap == Map!Spec

\* A container has one entry and the file never holds more than the maximum,
\* even when processes overlap (a snapshot would use the last of two).
OneEntryEach ==
  /\ \A c \in Containers : Cardinality(At(List(file), c)) <= 1
  /\ Len(List(file)) <= MaxEntries

\* A call that succeeds leaves what it loaded with its own edit applied, even when
\* processes overlap: it may undo what others wrote since, but it never drops an
\* entry it could not decrypt, nor mixes two lists (config.go:143-159, 183-232).
Edited(m, o) == [m EXCEPT ![o.c] = o.pw]

WritesItsOwnEdit ==
  [][\A p \in Procs :
       (op[p] # NoOp /\ outcome'[p] = "ok") => Stored' = Edited(seen[p], op[p])]_vars

\* loadMSSQLPasswordKey looks for a key, finds none and then writes a new one.
\* Only a call that overlapped another process's can replace a key that appeared
\* in between and leave what that key sealed unreadable; the handlers of the
\* server cannot do it to each other, whatever is lost or fails (config.go:319-347).
KeyReplacedOnlyInRace ==
  [][\A p \in Procs :
       (pc[p] = "mint" /\ pc'[p] = "encrypt" /\ key # NoKey) => raced[p]]_vars

\* As long as one key was made and none was lost, everything on disk can be
\* read: a key is on disk before the first file sealed with it, so no call and
\* no snapshot (loadMSSQLConfigMap, which takes no mutex) fails to decrypt.
Readable ==
  (made <= 1 /\ ~lost) =>
    \A i \in Sealed(List(file)) : List(file)[i].k = key

\* mssqlInventoryMu keeps the server's calls apart and is never leaked: a handler
\* holds it exactly while it is between Lock and its return, on every path.
MutexDiscipline == mutex = Inside \cap Handlers /\ Cardinality(mutex) <= 1

\* README.md:208-210: when the key is lost, "Remove the MSSQL inventory entry and
\* add the SQL credentials again".  With the key lost, a removal fails for no
\* other reason than a write that fails.
RemovableWithoutKey ==
  [][\A p \in Procs :
       ( /\ lost /\ key = NoKey
         /\ op[p] # NoOp /\ op[p].kind = "remove"
         /\ outcome'[p] = "error" ) => faults' > faults]_vars
=============================================================================
