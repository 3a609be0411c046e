------------------------- MODULE MSSQLStore_proofs --------------------------
(***************************************************************************)
(* Proofs about MSSQLStore, for any number of handlers, commands,          *)
(* containers, keys and faults: its type invariant, its invariants, what   *)
(* a caller that overlaps others may write and which key it may replace,   *)
(* and that the inventory file implements InventoryMap.                    *)
(*                                                                         *)
(* The inductive invariant has five layers, each proved with the ones      *)
(* before it: Base (types, and what a caller has at hand at each step),    *)
(* MutexInv (two callers inside at once belong to two processes and both   *)
(* know that they overlap), MintInv (a caller about to make a key overlaps *)
(* another if there is one), ListInv (every list anyone holds, in a file or*)
(* in memory, could be a file) and ViewInv (a caller's list says what it   *)
(* loaded, or that with its edit; if it is alone the file says so too).    *)
(***************************************************************************)
EXTENDS MSSQLStore, TLAPS, SequenceTheorems, FiniteSetTheorems

Distinct(s) == \A i, j \in DOMAIN s : s[i].c = s[j].c => i = j

\* A caller has an operation exactly while it is inside, and makes a key for
\* an entry that needs one.
CallInv == \A p \in Procs :
  /\ op[p] = NoOp <=> pc[p] \in {"idle", "lock"}
  /\ pc[p] = "mint" => Opened(buf[p]) # {}

Base == TypeOK /\ CallInv

\* A caller gets the mutex and says what it asks for.
Enters(p) == \E o \in Ops : Lock(p, o)

\* At most one handler is inside, and it holds the mutex; callers that are inside
\* together are of two processes, and both know.
MutexInv ==
  /\ mutex = Inside \cap Handlers
  /\ \A p, q \in mutex : p = q
  /\ \A p, q \in Inside : p # q => raced[p]

\* A list as the file may hold it when n keys have been made.
Good(s, n) ==
  /\ Distinct(s) /\ Len(s) <= MaxEntries
  /\ \A i \in DOMAIN s : s[i].k <= n

ListInv == Good(List(file), made) /\ \A p \in Procs : Good(buf[p], made)

KeyInv == ~lost => key = made

\* A caller that is about to make a key and overlaps nobody still finds none.
MintInv == \A p \in Procs : pc[p] = "mint" /\ ~raced[p] => key = NoKey

-----------------------------------------------------------------------------
(* Lists of entries *)

\* Every non-empty set of naturals has a least element.
LEMMA LeastNatural ==
  ASSUME NEW T \in SUBSET Nat, T # {}
  PROVE  Least(T) \in T /\ \A j \in T : Least(T) <= j
<1> DEFINE R == {ss \in Nat \X Nat : ss[1] < ss[2]}
<1>1. IsWellFoundedOn(R, Nat)
  BY NatLessThanWellFounded DEF OpToRel
<1>2. \A x, y \in T : <<y, x>> \notin R => x <= y
  OBVIOUS
<1> HIDE DEF R
<1>3. \E x \in T : \A y \in T : <<y, x>> \notin R
  BY <1>1, WFMin
<1>4. \E x \in T : \A y \in T : x <= y
  BY <1>2, <1>3
<1> QED BY <1>4 DEF Least

\* A set of naturals with 0 that is closed under successor, up to a bound.
LEMMA UpTo ==
  ASSUME NEW n \in Nat, NEW P, 0 \in P,
         \A i \in 1..n : i - 1 \in P => i \in P
  PROVE  0..n \subseteq P
<1> SUFFICES ASSUME (0..n) \ P # {}
             PROVE  FALSE
  OBVIOUS
<1> DEFINE x == Least((0..n) \ P)
<1>1. x \in (0..n) \ P /\ \A j \in (0..n) \ P : x <= j
  BY LeastNatural
<1> HIDE DEF x
<1>2. x \in 1..n /\ x - 1 \in P
  BY <1>1
<1> QED BY <1>1, <1>2

NextOf(s, c, f, n) ==
  f = [i \in 0..n |->
         IF i = 0 THEN <<>>
         ELSE IF s[i].c = c THEN f[i - 1] ELSE Append(f[i - 1], s[i])]

\* The recursion of Without is well defined.
LEMMA NextExists ==
  ASSUME NEW s, Len(s) \in Nat, NEW c
  PROVE  \E f : NextOf(s, c, f, Len(s))
<1> DEFINE P == {n \in 0..Len(s) : \E f : NextOf(s, c, f, n)}
<1>1. 0 \in P
  <2> DEFINE f == [i \in 0..0 |-> <<>>]
  <2>1. NextOf(s, c, f, 0)
    BY DEF NextOf
  <2> QED BY <2>1
<1>2. ASSUME NEW i \in 1..Len(s), i - 1 \in P
      PROVE  i \in P
  <2>1. PICK f : NextOf(s, c, f, i - 1)
    BY <1>2
  <2> DEFINE step == IF s[i].c = c THEN f[i - 1] ELSE Append(f[i - 1], s[i])
             g    == [j \in 0..i |-> IF j = i THEN step ELSE f[j]]
  <2>2. \A j \in 0..(i - 1) :
          f[j] = IF j = 0 THEN <<>>
                 ELSE IF s[j].c = c THEN f[j - 1] ELSE Append(f[j - 1], s[j])
    BY <2>1 DEF NextOf
  <2> HIDE DEF step
  <2>3. \A j \in 0..(i - 1) : g[j] = f[j]
    OBVIOUS
  <2>4. g[i] = step
    OBVIOUS
  <2>5. \A j \in 0..i :
          g[j] = IF j = 0 THEN <<>>
                 ELSE IF s[j].c = c THEN g[j - 1] ELSE Append(g[j - 1], s[j])
    <3> SUFFICES ASSUME NEW j \in 0..i
                 PROVE  g[j] = IF j = 0 THEN <<>>
                 ELSE IF s[j].c = c THEN g[j - 1] ELSE Append(g[j - 1], s[j])
      OBVIOUS
    <3>1. CASE j = i
      <4>1. g[j - 1] = f[i - 1] /\ j # 0
        BY <3>1, <2>3
      <4> QED BY <3>1, <4>1, <2>4 DEF step
    <3>2. CASE j # i
      <4>1. j \in 0..(i - 1) /\ (j # 0 => j - 1 \in 0..(i - 1))
        BY <3>2
      <4> QED BY <4>1, <2>2, <2>3
    <3> QED BY <3>1, <3>2
  <2>6. NextOf(s, c, g, i)
    <3> HIDE DEF step
    <3>1. g = [j \in 0..i |-> g[j]]
      OBVIOUS
    <3> HIDE DEF g
    <3> QED BY <2>5, <3>1 DEF NextOf
  <2> QED BY <2>6
<1> HIDE DEF P
<1>3. 0..Len(s) \subseteq P
  BY <1>1, <1>2, UpTo
<1>4. Len(s) \in P
  BY <1>3
<1> QED BY <1>4 DEF P

\* What the loop of RemoveMSSQLInventory keeps: the entries of the other
\* containers, each once, and everything if there is nothing to drop.
LEMMA WithoutList ==
  ASSUME NEW s \in Seq(Entries), NEW c
  PROVE  /\ Without(s, c) \in Seq(Entries)
         /\ Len(Without(s, c)) <= Len(s)
         /\ \A j \in DOMAIN Without(s, c) :
              /\ Without(s, c)[j].c # c
              /\ \E i \in DOMAIN s : s[i] = Without(s, c)[j]
         /\ \A i \in DOMAIN s :
              s[i].c # c => \E j \in DOMAIN Without(s, c) : Without(s, c)[j] = s[i]
         /\ Distinct(s) => Distinct(Without(s, c))
         /\ Without(s, c) = s <=> At(s, c) = {}
<1>1. /\ Len(s) \in Nat /\ DOMAIN s = 1..Len(s)
      /\ \A i \in 1..Len(s) : s[i] \in Entries
  OBVIOUS
<1> DEFINE f == CHOOSE f : NextOf(s, c, f, Len(s))
<1>2. NextOf(s, c, f, Len(s))
  BY <1>1, NextExists
<1>3. Without(s, c) = f[Len(s)]
  BY DEF Without, NextOf
<1> HIDE DEF f
<1>4. \A i \in 0..Len(s) :
        f[i] = IF i = 0 THEN <<>>
               ELSE IF s[i].c = c THEN f[i - 1] ELSE Append(f[i - 1], s[i])
  BY <1>2 DEF NextOf
<1> DEFINE
  Filtered(r, n) ==
    /\ r \in Seq(Entries)
    /\ Len(r) <= n
    /\ \A j \in 1..Len(r) : r[j].c # c /\ \E i \in 1..n : s[i] = r[j]
    /\ \A i \in 1..n : s[i].c # c => \E j \in 1..Len(r) : r[j] = s[i]
    /\ Distinct(s) => Distinct(r)
    /\ (\A i \in 1..n : s[i].c # c) =>
         Len(r) = n /\ \A i \in 1..n : r[i] = s[i]
  P == {n \in 0..Len(s) : Filtered(f[n], n)}
<1>5. 0 \in P
  <2>1. f[0] = <<>>
    BY <1>1, <1>4
  <2>2. Filtered(<<>>, 0)
    BY DEF Distinct
  <2> HIDE DEF Filtered
  <2> QED BY <1>1, <2>1, <2>2
<1>6. ASSUME NEW i \in 1..Len(s), i - 1 \in P
      PROVE  i \in P
  <2> DEFINE r == f[i - 1]
  <2>1. Filtered(r, i - 1)
    BY <1>6
  <2> HIDE DEF r, Filtered
  <2>2. CASE s[i].c = c
    <3>1. f[i] = r
      BY <1>1, <1>4, <2>2 DEF r
    <3>2. Filtered(r, i)
      BY <1>1, <2>1, <2>2 DEF Filtered
    <3> QED BY <1>1, <3>1, <3>2
  <2>3. CASE s[i].c # c
    <3> DEFINE t == Append(r, s[i])
    <3>1. f[i] = t
      <4>1. i # 0 /\ i \in 0..Len(s)
        BY <1>1
      <4> QED BY <1>4, <2>3, <4>1 DEF r
    <3>2. /\ r \in Seq(Entries) /\ s[i] \in Entries
          /\ t \in Seq(Entries) /\ Len(t) = Len(r) + 1 /\ Len(r) \in Nat
          /\ \A j \in 1..Len(r) : t[j] = r[j]
          /\ t[Len(r) + 1] = s[i]
          /\ DOMAIN r = 1..Len(r) /\ DOMAIN t = 1..Len(t)
      BY <1>1, <2>1, AppendProperties, LenProperties DEF Filtered
    <3> HIDE DEF t
    <3>3. \A j \in 1..Len(t) : j \in 1..Len(r) \/ j = Len(r) + 1
      BY <3>2
    <3>4. \A j \in 1..Len(t) : t[j].c # c /\ \E k \in 1..i : s[k] = t[j]
      <4>1. ASSUME NEW j \in 1..Len(r)
            PROVE  t[j].c # c /\ \E k \in 1..i : s[k] = t[j]
        <5>1. t[j] = r[j] /\ r[j].c # c /\ \E k \in 1..(i - 1) : s[k] = r[j]
          BY <2>1, <3>2 DEF Filtered
        <5> QED BY <1>1, <5>1
      <4>2. t[Len(r) + 1].c # c /\ \E k \in 1..i : s[k] = t[Len(r) + 1]
        BY <1>1, <2>3, <3>2
      <4> QED BY <3>3, <4>1, <4>2
    <3>5. \A k \in 1..i : s[k].c # c => \E j \in 1..Len(t) : t[j] = s[k]
      BY <1>1, <2>1, <3>2 DEF Filtered
    <3>6. ASSUME Distinct(s) PROVE Distinct(t)
      <4>1. ASSUME NEW j \in 1..Len(r) PROVE r[j].c # s[i].c
        <5>1. PICK k \in 1..(i - 1) : s[k] = r[j]
          BY <2>1 DEF Filtered
        <5>2. k \in DOMAIN s /\ i \in DOMAIN s /\ k # i
          BY <1>1
        <5> QED BY <3>6, <5>1, <5>2 DEF Distinct
      <4> QED BY <2>1, <3>2, <3>3, <3>6, <4>1 DEF Filtered, Distinct
    <3>7. (\A k \in 1..i : s[k].c # c) =>
            Len(t) = i /\ \A k \in 1..i : t[k] = s[k]
      BY <1>1, <2>1, <3>2, <3>3 DEF Filtered
    <3>8. Filtered(t, i)
      <4>1. Len(t) <= i
        BY <1>1, <2>1, <3>2 DEF Filtered
      <4> QED BY <3>2, <3>4, <3>5, <3>6, <3>7, <4>1 DEF Filtered
    <3> QED BY <1>1, <3>1, <3>8
  <2> QED BY <2>2, <2>3
<1> HIDE DEF Filtered, P
<1>7. 0..Len(s) \subseteq P
  BY <1>1, <1>5, <1>6, UpTo
<1>8. Filtered(Without(s, c), Len(s))
  BY <1>1, <1>3, <1>7 DEF P
<1>9. DOMAIN Without(s, c) = 1..Len(Without(s, c)) /\ Len(Without(s, c)) \in Nat
  BY <1>8, LenProperties DEF Filtered
<1>10. Without(s, c) = s <=> At(s, c) = {}
  <2>1. ASSUME At(s, c) = {} PROVE Without(s, c) = s
    <3>1. \A i \in 1..Len(s) : s[i].c # c
      BY <1>1, <2>1 DEF At
    <3>2. /\ Len(Without(s, c)) = Len(s)
          /\ \A i \in 1..Len(s) : Without(s, c)[i] = s[i]
      BY <1>8, <3>1 DEF Filtered
    <3> QED BY <1>8, <3>2, SeqEqual DEF Filtered
  <2>2. ASSUME Without(s, c) = s PROVE At(s, c) = {}
    <3>1. \A j \in 1..Len(Without(s, c)) : Without(s, c)[j].c # c
      BY <1>8 DEF Filtered
    <3>2. \A j \in DOMAIN s : s[j].c # c
      BY <1>1, <2>2, <3>1
    <3> QED BY <3>2 DEF At
  <2> QED BY <2>1, <2>2
<1> QED BY <1>1, <1>8, <1>9, <1>10 DEF Filtered

\* Opening or sealing an entry changes its key number only.
LEMMA Rekeyed ==
  ASSUME NEW s \in Seq(Entries), NEW i \in DOMAIN s, NEW v \in 0..MaxKeys
  PROVE  /\ [s EXCEPT ![i].k = v] \in Seq(Entries)
         /\ Len([s EXCEPT ![i].k = v]) = Len(s)
         /\ \A j \in DOMAIN s :
              [s EXCEPT ![i].k = v][j] =
                [c |-> s[j].c, pw |-> s[j].pw, k |-> IF j = i THEN v ELSE s[j].k]
<1> DEFINE e == [s[i] EXCEPT !.k = v]
<1>1. /\ i \in 1..Len(s) /\ DOMAIN s = 1..Len(s)
      /\ \A j \in DOMAIN s : s[j] \in Entries
  OBVIOUS
<1>2. e \in Entries /\ e = [c |-> s[i].c, pw |-> s[i].pw, k |-> v]
  BY <1>1 DEF Entries
<1>3. \A j \in DOMAIN s : s[j] = [c |-> s[j].c, pw |-> s[j].pw, k |-> s[j].k]
  BY <1>1 DEF Entries
<1>4. [s EXCEPT ![i].k = v] = [s EXCEPT ![i] = e]
  OBVIOUS
<1> HIDE DEF e
<1>5. /\ [s EXCEPT ![i] = e] \in Seq(Entries)
      /\ Len([s EXCEPT ![i] = e]) = Len(s)
      /\ \A j \in 1..Len(s) : [s EXCEPT ![i] = e][j] = IF j = i THEN e ELSE s[j]
  BY <1>1, <1>2, ExceptSeq
<1> QED BY <1>1, <1>2, <1>3, <1>4, <1>5

\* Least picks an entry of a list.
LEMMA LeastEntry ==
  ASSUME NEW s \in Seq(Entries)
  PROVE  /\ Sealed(s) # {} => Least(Sealed(s)) \in Sealed(s)
         /\ Opened(s) # {} => Least(Opened(s)) \in Opened(s)
         /\ \A c : At(s, c) # {} => Least(At(s, c)) \in At(s, c)
<1>1. \A T \in SUBSET DOMAIN s : T # {} => Least(T) \in T
  <2>1. DOMAIN s \subseteq Nat
    BY LenProperties
  <2> QED BY <2>1, LeastNatural
<1> QED BY <1>1 DEF Sealed, Opened, At

\* What a list says of every container.
View(s) ==
  [c \in Containers |-> IF At(s, c) = {} THEN NoPassword ELSE s[Least(At(s, c))].pw]

LEMMA ViewType ==
  ASSUME NEW s \in Seq(Entries)
  PROVE  View(s) \in [Containers -> Passwords \cup {NoPassword}]
<1>1. \A i \in DOMAIN s : s[i].pw \in Passwords
  <2>1. \A i \in DOMAIN s : s[i] \in Entries
    OBVIOUS
  <2> QED BY <2>1 DEF Entries
<1>2. \A c : At(s, c) # {} => Least(At(s, c)) \in DOMAIN s
  BY LeastEntry DEF At
<1> QED BY <1>1, <1>2 DEF View

LEMMA StoredIsView == Stored = View(List(file)) /\ Stored' = View(List(file'))
  BY DEF Stored, Kept, View, List, At

-----------------------------------------------------------------------------
(* Type correctness *)

LEMMA ReturnBase ==
  ASSUME Base, NEW p \in Procs, NEW res \in Results, Return(p, res)
  PROVE  /\ pc' \in [Procs -> Steps] /\ op' \in [Procs -> Ops \cup {NoOp}]
         /\ buf' \in [Procs -> Seq(Entries)] /\ mutex' \in SUBSET Handlers
         /\ outcome' \in [Procs -> Results] /\ raced' \in [Procs -> BOOLEAN]
         /\ seen' \in [Procs -> Maps]
         /\ CallInv'
<1>1. EmptyMap \in Maps
  BY DEF EmptyMap, Maps
<1> QED BY <1>1 DEF Base, TypeOK, CallInv, Return, Goto, Silence, Results, Steps

\* Every action keeps the types.
LEMMA BaseStep == Base /\ [Next]_vars => Base'
<1> SUFFICES ASSUME Base, [Next]_vars
             PROVE  Base'
  OBVIOUS
<1> USE BoundsAssumption DEF BoundsAssumption
<1>0. Silence \in [Procs -> Results] /\ EmptyMap \in Maps
  BY DEF Silence, Results, EmptyMap, Maps
<1>1. ASSUME NEW p \in Procs, Call(p)
      PROVE  Base'
  BY <1>0, <1>1, NothingAssumption
     DEF Base, TypeOK, CallInv, Call, Goto, disk_vars, Steps, NothingAssumption
<1>2. ASSUME NEW p \in Procs, Enters(p)
      PROVE  Base'
  <2>1. PICK o \in Ops : Lock(p, o)
    BY <1>2 DEF Enters
  <2> QED BY <1>0, <2>1, NothingAssumption
          DEF Base, TypeOK, CallInv, Lock, Goto, disk_vars, Steps, NothingAssumption
<1>3. ASSUME NEW p \in Procs, Load(p)
      PROVE  Base'
  <2>1. List(file) \in Seq(Entries)
    BY EmptySeq DEF Base, TypeOK, List
  <2>2. Stored \in Maps
    BY <2>1, ViewType, StoredIsView DEF Maps
  <2> QED BY <1>0, <1>3, <2>1, <2>2 DEF Base, TypeOK, CallInv, Load, Goto, disk_vars, Steps
<1>4. ASSUME NEW p \in Procs, Decrypt(p)
      PROVE  Base'
  <2> DEFINE i == Least(Sealed(buf[p]))
             t == [buf[p] EXCEPT ![i].k = Plain]
  <2>1. buf[p] \in Seq(Entries) /\ i \in DOMAIN buf[p]
    <3>1. buf[p] \in Seq(Entries) /\ Sealed(buf[p]) # {}
      BY <1>4 DEF Base, TypeOK, Decrypt
    <3> QED BY <3>1, LeastEntry DEF Sealed
  <2>2. t \in Seq(Entries)
    BY <2>1, Rekeyed DEF Plain
  <2>3. buf' = [buf EXCEPT ![p] = t]
    BY <1>4 DEF Decrypt
  <2> QED BY <1>0, <1>4, <2>2, <2>3 DEF Base, TypeOK, CallInv, Decrypt, disk_vars
<1>5. ASSUME NEW p \in Procs, DecryptFails(p)
      PROVE  Base'
  BY <1>5, ReturnBase DEF Base, TypeOK, DecryptFails, disk_vars, Results
<1>6. ASSUME NEW p \in Procs, EditSave(p)
      PROVE  Base'
  <2> DEFINE o == op[p]
  <2>1. o \in Ops /\ o.kind = "save" /\ buf[p] \in Seq(Entries)
    BY <1>6 DEF Base, TypeOK, CallInv, EditSave, AllOpen
  <2>2. Entry(o) \in Entries
    BY <2>1 DEF Ops, Entry, Entries, Plain
  <2> USE <1>6 DEF EditSave, AllOpen
  <2>3. CASE At(buf[p], o.c) # {}
    <3> DEFINE t == [buf[p] EXCEPT ![Least(At(buf[p], o.c))] = Entry(o)]
    <3>1. t \in Seq(Entries)
      <4>1. Least(At(buf[p], o.c)) \in 1..Len(buf[p])
        <5>1. DOMAIN buf[p] = 1..Len(buf[p])
          BY <2>1
        <5>2. Least(At(buf[p], o.c)) \in At(buf[p], o.c)
          BY <2>1, <2>3, LeastEntry
        <5> QED BY <5>1, <5>2 DEF At
      <4> QED BY <2>1, <2>2, <4>1, ExceptSeq
    <3>2. /\ buf' = [buf EXCEPT ![p] = t] /\ Goto(p, "encrypt")
          /\ outcome' = Silence /\ UNCHANGED <<op, mutex, raced, seen, disk_vars, faults>>
      BY <2>3
    <3> QED BY <1>0, <3>1, <3>2 DEF Base, TypeOK, CallInv, Goto, disk_vars, Steps
  <2>4. CASE At(buf[p], o.c) = {} /\ Len(buf[p]) >= MaxEntries
    <3>1. Return(p, "full") /\ UNCHANGED <<disk_vars, faults>>
      BY <2>4
    <3> QED BY <3>1, ReturnBase DEF Base, TypeOK, disk_vars, Results
  <2>5. CASE At(buf[p], o.c) = {} /\ ~(Len(buf[p]) >= MaxEntries)
    <3> DEFINE t == Append(buf[p], Entry(o))
    <3>1. t \in Seq(Entries)
      BY <2>1, <2>2, AppendProperties
    <3>2. /\ buf' = [buf EXCEPT ![p] = t] /\ Goto(p, "encrypt")
          /\ outcome' = Silence /\ UNCHANGED <<op, mutex, raced, seen, disk_vars, faults>>
      BY <2>5
    <3> QED BY <1>0, <3>1, <3>2 DEF Base, TypeOK, CallInv, Goto, disk_vars, Steps
  <2> QED BY <2>3, <2>4, <2>5
<1>7. ASSUME NEW p \in Procs, EditRemove(p)
      PROVE  Base'
  <2> DEFINE rest == Without(buf[p], op[p].c)
  <2>1. rest \in Seq(Entries)
    BY WithoutList DEF Base, TypeOK
  <2>2. CASE rest = buf[p]
    <3>1. Return(p, "notfound") /\ UNCHANGED <<disk_vars, faults>>
      BY <1>7, <2>2 DEF EditRemove
    <3> QED BY <3>1, ReturnBase DEF Base, TypeOK, disk_vars, Results
  <2>3. CASE rest # buf[p]
    <3>1. /\ buf' = [buf EXCEPT ![p] = rest]
          /\ Goto(p, IF rest = <<>> THEN "unlink" ELSE "encrypt")
          /\ outcome' = Silence /\ UNCHANGED <<op, mutex, raced, seen, disk_vars, faults>>
          /\ pc[p] = "decrypt"
      BY <1>7, <2>3 DEF EditRemove, AllOpen
    <3> HIDE DEF rest
    <3> QED BY <1>0, <2>1, <3>1 DEF Base, TypeOK, CallInv, Goto, disk_vars, Steps
  <2> QED BY <2>2, <2>3
<1>8. ASSUME NEW p \in Procs, Encrypt(p)
      PROVE  Base'
  <2> DEFINE i == Least(Opened(buf[p]))
             t == [buf[p] EXCEPT ![i].k = key]
  <2>1. buf[p] \in Seq(Entries) /\ i \in DOMAIN buf[p] /\ key \in 0..MaxKeys
    <3>1. buf[p] \in Seq(Entries) /\ Opened(buf[p]) # {}
      BY <1>8 DEF Base, TypeOK, Encrypt
    <3>2. i \in DOMAIN buf[p]
      BY <3>1, LeastEntry DEF Opened
    <3> QED BY <3>1, <3>2 DEF Base, TypeOK
  <2>2. t \in Seq(Entries)
    BY <2>1, Rekeyed
  <2>3. CASE key # NoKey
    <3>1. buf' = [buf EXCEPT ![p] = t]
      BY <1>8, <2>3 DEF Encrypt
    <3> QED BY <1>0, <1>8, <2>2, <2>3, <3>1 DEF Base, TypeOK, CallInv, Encrypt, disk_vars
  <2>4. CASE key = NoKey
    BY <1>0, <1>8, <2>4 DEF Base, TypeOK, CallInv, Encrypt, Goto, disk_vars, Steps
  <2> QED BY <2>3, <2>4
<1>9. ASSUME NEW p \in Procs, Mint(p)
      PROVE  Base'
  <2> DEFINE i == Least(Opened(buf[p]))
             t == [buf[p] EXCEPT ![i].k = made + 1]
  <2>1. /\ buf[p] \in Seq(Entries) /\ i \in DOMAIN buf[p]
        /\ made + 1 \in 0..MaxKeys /\ made \in Nat
    <3>1. buf[p] \in Seq(Entries) /\ Opened(buf[p]) # {}
      BY <1>9 DEF Base, TypeOK, CallInv, Mint
    <3>2. i \in DOMAIN buf[p]
      BY <3>1, LeastEntry DEF Opened
    <3> QED BY <1>9, <3>1, <3>2 DEF Base, TypeOK, Mint
  <2>2. t \in Seq(Entries)
    BY <2>1, Rekeyed
  <2>3. buf' = [buf EXCEPT ![p] = t]
    BY <1>9 DEF Mint
  <2> QED BY <1>0, <1>9, <2>1, <2>2, <2>3 DEF Base, TypeOK, CallInv, Mint, Goto, Steps
<1>10. ASSUME NEW p \in Procs, Commit(p)
       PROVE  Base'
  <2>1. buf[p] \in Seq(Entries)
    BY DEF Base, TypeOK
  <2> QED BY <1>10, <2>1, ReturnBase DEF Base, TypeOK, Commit, Results
<1>11. ASSUME NEW p \in Procs, Unlink(p)
       PROVE  Base'
  BY <1>11, ReturnBase DEF Base, TypeOK, Unlink, Results
<1>12. ASSUME NEW p \in Procs, WriteFails(p)
       PROVE  Base'
  BY <1>12, ReturnBase DEF Base, TypeOK, WriteFails, disk_vars, Results
<1>13. CASE LoseKey
  BY <1>0, <1>13 DEF Base, TypeOK, CallInv, LoseKey, NoKey
<1>14. ASSUME NEW P \in SUBSET Procs, End(P), faults' \in 0..MaxFaults
       PROVE  Base'
  BY <1>0, <1>14, EmptySeq DEF Base, TypeOK, CallInv, End, disk_vars, Steps
<1>15. CASE UNCHANGED vars
  BY <1>15 DEF Base, TypeOK, CallInv, vars, disk_vars, call_vars
<1>16. ASSUME NEW p \in Procs, Work(p)
       PROVE  Base'
  BY <1>3, <1>4, <1>5, <1>6, <1>7, <1>8, <1>9, <1>10, <1>11, <1>12, <1>16 DEF Work
<1>17. CASE ServerEnds
  BY <1>14, <1>17 DEF ServerEnds, Procs, Base, TypeOK
<1>18. ASSUME NEW p \in Commands, CommandDies(p)
       PROVE  Base'
  BY <1>14, <1>18 DEF CommandDies, Procs, Base, TypeOK
<1> QED BY <1>1, <1>2, <1>13, <1>15, <1>16, <1>17, <1>18 DEF Next, Enters

LEMMA BaseInit == Init => Base
<1> SUFFICES ASSUME Init PROVE Base
  OBVIOUS
<1>1. Legacy \in Seq(Entries)
  <2>1. [c : Containers, pw : Passwords, k : {Plain}] \subseteq Entries
    BY BoundsAssumption DEF Entries, Plain, BoundsAssumption
  <2> QED BY <2>1, LegacyAssumption, SeqMonotonic DEF LegacyAssumption
<1>2. file \in Seq(Entries) \cup {NoFile}
  BY <1>1 DEF Init
<1>3. <<>> \in Seq(Entries)
  BY EmptySeq
<1>4. key \in 0..made /\ made \in 0..MaxKeys /\ faults \in 0..MaxFaults
  BY BoundsAssumption DEF Init, NoKey, BoundsAssumption
<1>5. lost \in BOOLEAN /\ mutex \in SUBSET Handlers
  BY DEF Init
<1>6. /\ pc \in [Procs -> Steps] /\ op \in [Procs -> Ops \cup {NoOp}]
      /\ buf \in [Procs -> Seq(Entries)] /\ outcome \in [Procs -> Results]
      /\ raced \in [Procs -> BOOLEAN] /\ seen \in [Procs -> Maps]
  BY <1>3 DEF Init, Steps, Results, Silence, EmptyMap, Maps
<1>7. CallInv
  BY DEF Init, CallInv
<1> QED BY <1>2, <1>4, <1>5, <1>6, <1>7 DEF Base, TypeOK

\* The type invariant, for every number of handlers, commands, containers and keys.
THEOREM TypeCorrect == Spec => []TypeOK
<1>1. Base => TypeOK
  BY DEF Base
<1> QED BY BaseInit, BaseStep, <1>1, PTL DEF Spec

-----------------------------------------------------------------------------
(* The mutex *)

\* Callers come in by Lock, and leave, one or all of a process, with their lock.
LEMMA ComeAndGo ==
  ASSUME Base, [Next]_vars
  PROVE  \/ \E p \in Procs : Enters(p) /\ Inside' = Inside \cup {p}
         \/ \E P \in SUBSET Procs :
              /\ Inside' = Inside \ P /\ mutex' = mutex \ P
              /\ \A q \in Procs \ P : raced'[q] = raced[q]
<1> DEFINE Leave(P) == /\ Inside' = Inside \ P /\ mutex' = mutex \ P
                       /\ \A q \in Procs \ P : raced'[q] = raced[q]
<1> USE DEF Inside
<1>1. ASSUME UNCHANGED <<pc, mutex, raced>> PROVE Leave({})
  BY <1>1
<1>2. ASSUME NEW p \in Procs, NEW res, Return(p, res) PROVE Leave({p})
  BY <1>2 DEF Base, TypeOK, Return, Goto
<1>3. ASSUME NEW p \in Procs, NEW step \in Steps \ {"idle", "lock"}, Goto(p, step),
             pc[p] \notin {"idle", "lock"}, UNCHANGED <<mutex, raced>>
      PROVE  Leave({})
  BY <1>3 DEF Base, TypeOK, Goto
<1>4. ASSUME NEW p \in Procs, Call(p) PROVE Leave({})
  BY <1>4 DEF Base, TypeOK, Call, Goto
<1>5. ASSUME NEW p \in Procs, Enters(p) PROVE Inside' = Inside \cup {p}
  BY <1>5 DEF Base, TypeOK, Enters, Lock, Goto
<1>6. ASSUME NEW p \in Procs, Work(p) PROVE Leave({}) \/ Leave({p})
  <2> HIDE DEF Leave
  <2> USE DEF Steps
  <2>1. CASE Load(p)
    BY <1>3, <2>1 DEF Load
  <2>2. CASE Decrypt(p)
    BY <1>1, <2>2 DEF Decrypt
  <2>3. CASE DecryptFails(p)
    BY <1>2, <2>3 DEF DecryptFails
  <2>4. CASE EditSave(p)
    BY <1>2, <1>3, <2>4 DEF EditSave, AllOpen
  <2>5. CASE EditRemove(p)
    <3>1. \/ Return(p, "notfound")
          \/ \E step \in {"unlink", "encrypt"} :
               Goto(p, step) /\ pc[p] = "decrypt" /\ UNCHANGED <<mutex, raced>>
      BY <2>5 DEF EditRemove, AllOpen
    <3> QED BY <1>2, <1>3, <3>1
  <2>6. CASE Encrypt(p)
    BY <1>1, <1>3, <2>6 DEF Encrypt
  <2>7. CASE Mint(p)
    BY <1>3, <2>7 DEF Mint
  <2>8. CASE Commit(p)
    BY <1>2, <2>8 DEF Commit
  <2>9. CASE Unlink(p)
    BY <1>2, <2>9 DEF Unlink
  <2>10. CASE WriteFails(p)
    BY <1>2, <2>10 DEF WriteFails
  <2> QED BY <1>6, <2>1, <2>2, <2>3, <2>4, <2>5, <2>6, <2>7, <2>8, <2>9, <2>10 DEF Work
<1>7. ASSUME NEW P \in SUBSET Procs, End(P) PROVE Leave(P)
  BY <1>7 DEF Base, TypeOK, End
<1>8. ASSUME LoseKey PROVE Leave({})
  BY <1>1, <1>8 DEF LoseKey
<1>9. ASSUME ServerEnds PROVE Leave(Handlers)
  BY <1>7, <1>9 DEF ServerEnds, Procs
<1>10. ASSUME NEW p \in Commands, CommandDies(p) PROVE Leave({p})
  BY <1>7, <1>10 DEF CommandDies, Procs
<1>11. ASSUME UNCHANGED vars PROVE Leave({})
  BY <1>1, <1>11 DEF vars, call_vars
<1> HIDE DEF Leave, Inside
<1> SUFFICES \/ \E p \in Procs : Enters(p) /\ Inside' = Inside \cup {p}
             \/ \E P \in SUBSET Procs : Leave(P)
  BY DEF Leave
<1>12. /\ {} \in SUBSET Procs /\ Handlers \in SUBSET Procs
       /\ \A p \in Procs : {p} \in SUBSET Procs
       /\ Commands \subseteq Procs
  BY DEF Procs
<1>13. CASE \E p \in Procs : Call(p) \/ Enters(p) \/ Work(p)
  BY <1>4, <1>5, <1>6, <1>12, <1>13
<1> QED BY <1>8, <1>9, <1>10, <1>11, <1>12, <1>13 DEF Next, Enters

LEMMA MutexStep == Base /\ MutexInv /\ [Next]_vars => MutexInv'
<1> SUFFICES ASSUME Base, MutexInv, [Next]_vars
             PROVE  MutexInv'
  OBVIOUS
<1>1. CASE \E p \in Procs : Enters(p) /\ Inside' = Inside \cup {p}
  <2>1. PICK p \in Procs : Enters(p) /\ Inside' = Inside \cup {p}
    BY <1>1
  <2>2. p \notin Inside
    BY <2>1 DEF Enters, Lock, Inside
  <2>3. mutex' = IF p \in Handlers THEN {p} ELSE mutex
    BY <2>1 DEF Enters, Lock
  <2>4. ASSUME NEW q \in Inside PROVE ~SameProcess(p, q)
    BY <2>1, <2>2, <2>4 DEF Enters, Lock, SameProcess, MutexInv
  <2>5. \A q \in Procs : raced'[q] = (raced[q] \/ (q \in Inside) \/ (q = p /\ Inside # {}))
    <3>1. {q \in Inside : ~SameProcess(p, q)} = Inside
      BY <2>4
    <3> QED BY <2>1, <3>1 DEF Enters, Lock
  <2>6. mutex' = Inside' \cap Handlers /\ \A x, y \in mutex' : x = y
    BY <2>1, <2>3 DEF MutexInv, Enters, Lock
  <2>7. \A x, y \in Inside' : x # y => raced'[x]
    BY <2>1, <2>5 DEF MutexInv, Inside
  <2> QED BY <2>6, <2>7 DEF MutexInv
<1>2. CASE \E P \in SUBSET Procs :
             /\ Inside' = Inside \ P /\ mutex' = mutex \ P
             /\ \A q \in Procs \ P : raced'[q] = raced[q]
  <2>1. PICK P \in SUBSET Procs :
             /\ Inside' = Inside \ P /\ mutex' = mutex \ P
             /\ \A q \in Procs \ P : raced'[q] = raced[q]
    BY <1>2
  <2>2. \A x, y \in Inside' : x # y => raced'[x]
    BY <2>1 DEF MutexInv, Inside
  <2> QED BY <2>1, <2>2 DEF MutexInv
<1> QED BY <1>1, <1>2, ComeAndGo

\* mssqlInventoryMu is held exactly from Lock to return, by one handler at most,
\* whatever ends the call.
THEOREM MutexNeverLeaks == Spec => []MutexDiscipline
<1>1. Init => MutexInv
  BY DEF Init, MutexInv, Inside
<1>2. MutexInv => MutexDiscipline
  <2> SUFFICES ASSUME MutexInv PROVE Cardinality(mutex) <= 1
    BY DEF MutexInv, MutexDiscipline
  <2>1. CASE mutex = {}
    BY <2>1, FS_EmptySet
  <2>2. CASE \E p : mutex = {p}
    BY <2>2, FS_Singleton
  <2> QED BY <2>1, <2>2 DEF MutexInv
<1> QED BY BaseInit, BaseStep, MutexStep, <1>1, <1>2, PTL DEF Spec

-----------------------------------------------------------------------------
(* The key *)

\* A caller comes to make a key only when it finds none.
LEMMA GoesToMint ==
  ASSUME Base, [Next]_vars, NEW q \in Procs, pc'[q] = "mint", pc[q] # "mint"
  PROVE  key' = NoKey
<1>1. ASSUME NEW p \in Procs, NEW step, Goto(p, step), step # "mint" PROVE FALSE
  BY <1>1 DEF Goto, Base, TypeOK
<1>2. ASSUME UNCHANGED pc PROVE FALSE
  BY <1>2
<1>3. ASSUME NEW p \in Procs, Work(p) PROVE key' = NoKey
  <2>1. CASE Encrypt(p)
    <3>1. key = NoKey
      BY <1>2, <2>1 DEF Encrypt
    <3> QED BY <2>1, <3>1 DEF Encrypt, disk_vars
  <2>2. CASE EditRemove(p)
    <3>1. PICK step \in {"idle", "unlink", "encrypt"} : Goto(p, step)
      BY <2>2 DEF EditRemove, Return
    <3> QED BY <1>1, <3>1
  <2>3. CASE Load(p) \/ Decrypt(p) \/ DecryptFails(p) \/ EditSave(p)
    BY <1>1, <1>2, <2>3 DEF Load, Decrypt, DecryptFails, EditSave, Return
  <2>4. CASE Mint(p) \/ Commit(p) \/ Unlink(p) \/ WriteFails(p)
    BY <1>1, <2>4 DEF Mint, Commit, Unlink, WriteFails, Return
  <2> QED BY <1>3, <2>1, <2>2, <2>3, <2>4 DEF Work
<1>4. ASSUME NEW P, End(P) PROVE FALSE
  BY <1>4 DEF End
<1>5. ASSUME NEW p \in Procs, Call(p) \/ Enters(p) PROVE FALSE
  BY <1>1, <1>5 DEF Call, Enters, Lock
<1> QED BY <1>2, <1>3, <1>4, <1>5 DEF Next, Enters, LoseKey, ServerEnds, CommandDies, vars, call_vars

LEMMA MintStep == Base /\ MutexInv /\ MintInv /\ [Next]_vars => MintInv'
<1> SUFFICES ASSUME Base, MutexInv, MintInv, [Next]_vars,
                    NEW q \in Procs, pc'[q] = "mint", ~raced'[q]
             PROVE  key' = NoKey
  BY DEF MintInv
<1>1. CASE pc[q] # "mint"
  BY <1>1, GoesToMint
<1>2. CASE pc[q] = "mint"
  <2>1. q \in Inside /\ q \in Inside'
    BY <1>2 DEF Inside
  <2>2. ~raced[q]
    <3>1. ASSUME NEW p \in Procs, Enters(p), raced[q] PROVE raced'[q]
      BY <3>1 DEF Enters, Lock
    <3>2. ASSUME NEW P \in SUBSET Procs, Inside' = Inside \ P,
                 \A r \in Procs \ P : raced'[r] = raced[r]
          PROVE  raced'[q] = raced[q]
      BY <2>1, <3>2
    <3> QED BY <3>1, <3>2, ComeAndGo
  <2>3. key = NoKey
    BY <1>2, <2>2 DEF MintInv
  <2>4. ASSUME NEW p \in Procs, Mint(p) PROVE FALSE
    <3>1. pc'[p] = "encrypt" /\ p \in Inside
      BY <2>4 DEF Mint, Goto, Base, TypeOK, Inside
    <3> QED BY <2>1, <2>2, <3>1 DEF MutexInv
  <2>5. key' = key \/ LoseKey \/ \E p \in Procs : Mint(p)
    BY DEF Next, Call, Enters, Lock, Work, Load, Decrypt, DecryptFails, EditSave, EditRemove,
           Encrypt, Commit, Unlink, WriteFails, ServerEnds, CommandDies, End, vars,
           disk_vars
  <2> QED BY <2>3, <2>4, <2>5 DEF LoseKey
<1> QED BY <1>1, <1>2

\* A second key is put in place of one that is there only by a call that
\* overlapped another process's, whatever was lost or failed.
THEOREM KeysReplacedOnlyInRaces == Spec => KeyReplacedOnlyInRace
<1>1. Init => MintInv /\ MutexInv
  BY DEF Init, MintInv, MutexInv, Inside
<1>2. MintInv => \A p \in Procs : (pc[p] = "mint" /\ pc'[p] = "encrypt" /\ key # NoKey) => raced[p]
  BY DEF MintInv
<1> QED BY BaseInit, BaseStep, MutexStep, MintStep, <1>1, <1>2, PTL DEF Spec, KeyReplacedOnlyInRace

-----------------------------------------------------------------------------
(* The lists *)

LEMMA KeyType ==
  ASSUME NEW s \in Seq(Entries), NEW i \in DOMAIN s
  PROVE  s[i].k \in Nat
<1>1. s[i] \in Entries
  OBVIOUS
<1> QED BY <1>1, BoundsAssumption DEF Entries, BoundsAssumption

LEMMA GoodLater ==
  ASSUME NEW s \in Seq(Entries), NEW n \in Nat, NEW m \in Nat, n <= m, Good(s, n)
  PROVE  Good(s, m)
  BY KeyType DEF Good

LEMMA GoodEmpty == \A n : Good(<<>>, n)
  BY EntriesAssumption, EmptySeq DEF Good, Distinct, EntriesAssumption

LEMMA GoodRekeyed ==
  ASSUME NEW s \in Seq(Entries), NEW i \in DOMAIN s, NEW v \in 0..MaxKeys,
         NEW n \in Nat, v <= n, Good(s, n)
  PROVE  Good([s EXCEPT ![i].k = v], n)
<1> DEFINE t == [s EXCEPT ![i].k = v]
<1>1. /\ t \in Seq(Entries) /\ Len(t) = Len(s)
      /\ \A j \in DOMAIN s :
           t[j] = [c |-> s[j].c, pw |-> s[j].pw, k |-> IF j = i THEN v ELSE s[j].k]
  BY Rekeyed
<1>2. DOMAIN t = DOMAIN s
  OBVIOUS
<1> HIDE DEF t
<1>3. /\ \A j \in DOMAIN t : t[j].c = s[j].c
      /\ \A j \in DOMAIN t : t[j].k = IF j = i THEN v ELSE s[j].k
  BY <1>1, <1>2
<1>4. Distinct(t)
  BY <1>2, <1>3 DEF Good, Distinct
<1>5. \A j \in DOMAIN t : t[j].k <= n
  BY <1>2, <1>3 DEF Good
<1>6. Good(t, n)
  BY <1>1, <1>4, <1>5 DEF Good
<1> QED BY <1>6 DEF t

\* Nothing but what a caller prepared and found good gets into the file.
LEMMA ListStep == Base /\ ListInv /\ [Next]_vars => ListInv'
<1> SUFFICES ASSUME Base, ListInv, [Next]_vars
             PROVE  ListInv'
  OBVIOUS
<1>1. /\ made \in Nat /\ made <= MaxKeys /\ key \in 0..MaxKeys /\ key <= made
      /\ List(file) \in Seq(Entries) /\ Good(List(file), made)
      /\ \A p \in Procs : buf[p] \in Seq(Entries) /\ Good(buf[p], made)
  BY BoundsAssumption, EmptySeq DEF Base, TypeOK, ListInv, List, BoundsAssumption
\* The file and the number of keys stay, and one caller's list changes.
<1>2. ASSUME NEW p \in Procs, NEW t, Good(t, made),
             buf' = [buf EXCEPT ![p] = t], UNCHANGED <<file, made>>
      PROVE  ListInv'
  BY <1>1, <1>2 DEF ListInv, List, Base, TypeOK
<1>3. ASSUME UNCHANGED <<file, made, buf>> PROVE ListInv'
  BY <1>1, <1>3 DEF ListInv, List
<1>4. ASSUME NEW p \in Procs, NEW res, Return(p, res), UNCHANGED made,
             Good(List(file'), made)
      PROVE  ListInv'
  BY <1>1, <1>4, GoodEmpty DEF ListInv, List, Return, Base, TypeOK
<1>5. ASSUME NEW p \in Procs, Call(p) PROVE ListInv'
  BY <1>3, <1>5 DEF Call, disk_vars
<1>6. ASSUME NEW p \in Procs, Enters(p) PROVE ListInv'
  BY <1>3, <1>6 DEF Enters, Lock, disk_vars
<1>7. ASSUME NEW p \in Procs, Load(p) PROVE ListInv'
  BY <1>1, <1>2, <1>7 DEF Load, disk_vars
<1>8. ASSUME NEW p \in Procs, Decrypt(p) PROVE ListInv'
  <2> DEFINE i == Least(Sealed(buf[p]))
  <2>1. i \in DOMAIN buf[p]
    BY <1>1, <1>8, LeastEntry DEF Decrypt, Sealed
  <2>2. Good([buf[p] EXCEPT ![i].k = Plain], made)
    BY <1>1, <2>1, GoodRekeyed, BoundsAssumption DEF Plain, BoundsAssumption
  <2>3. buf' = [buf EXCEPT ![p] = [buf[p] EXCEPT ![i].k = Plain]]
    BY <1>8 DEF Decrypt
  <2> QED BY <1>2, <1>8, <2>2, <2>3 DEF Decrypt, disk_vars
<1>9. ASSUME NEW p \in Procs, DecryptFails(p) PROVE ListInv'
  BY <1>1, <1>4, <1>9 DEF DecryptFails, disk_vars
<1>10. ASSUME NEW p \in Procs, EditSave(p) PROVE ListInv'
  <2> DEFINE o == op[p]
             s == buf[p]
             e == Entry(o)
  <2>0. /\ pc[p] = "decrypt" /\ o.kind = "save" /\ UNCHANGED <<file, made>>
    BY <1>10 DEF EditSave, AllOpen, disk_vars
  <2>1. /\ o \in Ops /\ o.kind = "save" /\ s \in Seq(Entries) /\ Good(s, made)
        /\ DOMAIN s = 1..Len(s) /\ Len(s) \in Nat /\ UNCHANGED <<file, made>>
    <3>1. o \in Ops
      BY <2>0 DEF Base, TypeOK, CallInv
    <3>2. s \in Seq(Entries) /\ Good(s, made)
      BY <1>1
    <3> QED BY <2>0, <3>1, <3>2
  <2>2. e \in Entries /\ e.c = o.c /\ e.k <= made
    BY <1>1, <2>1, BoundsAssumption DEF Ops, Entry, Entries, Plain, BoundsAssumption
  <2> USE <1>10 DEF EditSave
  <2>3. CASE At(s, o.c) # {}
    <3> DEFINE i == Least(At(s, o.c))
               t == [s EXCEPT ![i] = e]
    <3>1. i \in DOMAIN s /\ s[i].c = o.c
      BY <2>1, <2>3, LeastEntry DEF At
    <3>2. buf' = [buf EXCEPT ![p] = t]
      BY <2>3
    <3> HIDE DEF i, e, s
    <3>3. /\ DOMAIN t = DOMAIN s /\ Len(t) = Len(s)
          /\ \A j \in DOMAIN s : t[j] = IF j = i THEN e ELSE s[j]
      BY <2>1, <2>2, <3>1, ExceptSeq
    <3> HIDE DEF t
    <3>4. Good(t, made)
      <4>1. Distinct(t)
        BY <2>1, <2>2, <3>1, <3>3 DEF Good, Distinct
      <4>2. Len(t) <= MaxEntries /\ \A j \in DOMAIN t : t[j].k <= made
        BY <2>1, <2>2, <3>3 DEF Good
      <4> QED BY <4>1, <4>2 DEF Good
    <3> QED BY <1>2, <2>1, <3>2, <3>4
  <2>4. CASE At(s, o.c) = {} /\ Len(s) >= MaxEntries
    <3>1. Return(p, "full")
      BY <2>4
    <3> QED BY <1>1, <1>4, <2>1, <3>1
  <2>5. CASE At(s, o.c) = {} /\ ~(Len(s) >= MaxEntries)
    <3> DEFINE t == Append(s, e)
    <3>1. buf' = [buf EXCEPT ![p] = t]
      BY <2>5
    <3>2. \A j \in DOMAIN s : s[j].c # o.c
      BY <2>5 DEF At
    <3> HIDE DEF e, s
    <3>3. /\ DOMAIN t = 1..(Len(s) + 1) /\ Len(t) = Len(s) + 1
          /\ \A j \in 1..Len(s) : t[j] = s[j]
          /\ t[Len(s) + 1] = e
      BY <2>1, <2>2, AppendProperties, LenProperties
    <3> HIDE DEF t
    <3>4. Good(t, made)
      <4>1. \A j \in DOMAIN t : j \in DOMAIN s \/ j = Len(s) + 1
        BY <2>1, <3>3
      <4>2. Distinct(t)
        BY <2>1, <2>2, <3>2, <3>3, <4>1 DEF Good, Distinct
      <4>3. Len(t) <= MaxEntries
        BY <2>1, <2>5, <3>3, EntriesAssumption DEF EntriesAssumption, s
      <4>4. \A j \in DOMAIN t : t[j].k <= made
        BY <2>1, <2>2, <3>3, <4>1 DEF Good
      <4> QED BY <4>2, <4>3, <4>4 DEF Good
    <3> QED BY <1>2, <2>1, <3>1, <3>4
  <2> QED BY <2>3, <2>4, <2>5
<1>11. ASSUME NEW p \in Procs, EditRemove(p) PROVE ListInv'
  <2> DEFINE rest == Without(buf[p], op[p].c)
  <2>1. UNCHANGED <<file, made>>
    BY <1>11 DEF EditRemove, disk_vars
  <2>2. /\ rest \in Seq(Entries) /\ Len(rest) <= Len(buf[p])
        /\ \A j \in DOMAIN rest : \E i \in DOMAIN buf[p] : buf[p][i] = rest[j]
        /\ Distinct(buf[p]) => Distinct(rest)
    BY <1>1, WithoutList
  <2> HIDE DEF rest
  <2>3. Good(rest, made)
    <3>1. Len(rest) <= MaxEntries
      BY <1>1, <2>2, LenProperties, EntriesAssumption DEF Good, EntriesAssumption
    <3> QED BY <1>1, <2>2, <3>1 DEF Good
  <2>4. Return(p, "notfound") \/ buf' = [buf EXCEPT ![p] = rest]
    BY <1>11 DEF EditRemove, rest
  <2> QED BY <1>1, <1>2, <1>4, <2>1, <2>3, <2>4
<1>12. ASSUME NEW p \in Procs, Encrypt(p) PROVE ListInv'
  <2> DEFINE i == Least(Opened(buf[p]))
  <2>1. i \in DOMAIN buf[p]
    BY <1>1, <1>12, LeastEntry DEF Encrypt, Opened
  <2>2. Good([buf[p] EXCEPT ![i].k = key], made)
    BY <1>1, <2>1, GoodRekeyed
  <2>3. \/ buf' = [buf EXCEPT ![p] = [buf[p] EXCEPT ![i].k = key]]
        \/ UNCHANGED buf
    BY <1>12 DEF Encrypt
  <2> QED BY <1>2, <1>3, <1>12, <2>2, <2>3 DEF Encrypt, disk_vars
<1>13. ASSUME NEW p \in Procs, Mint(p) PROVE ListInv'
  <2> DEFINE i == Least(Opened(buf[p]))
             t == [buf[p] EXCEPT ![i].k = made + 1]
  <2>1. /\ made < MaxKeys /\ made' = made + 1 /\ file' = file
        /\ buf' = [buf EXCEPT ![p] = t]
    BY <1>13 DEF Mint
  <2>2. i \in DOMAIN buf[p]
    BY <1>1, <1>13, LeastEntry DEF Mint, Base, CallInv, Opened
  <2>3. made + 1 \in 0..MaxKeys /\ made + 1 \in Nat /\ made <= made + 1
    BY <1>1, <2>1, BoundsAssumption DEF BoundsAssumption
  <2>4. /\ Good(List(file), made + 1)
        /\ \A q \in Procs : Good(buf[q], made + 1)
    BY <1>1, <2>3, GoodLater
  <2>5. Good(t, made + 1)
    BY <1>1, <2>2, <2>3, <2>4, GoodRekeyed
  <2> HIDE DEF t
  <2> QED BY <2>1, <2>4, <2>5 DEF ListInv, List, Base, TypeOK
<1>14. ASSUME NEW p \in Procs, Commit(p) PROVE ListInv'
  <2>1. List(file') = buf[p] \/ List(file') = <<>>
    BY <1>14 DEF Commit, List
  <2> QED BY <1>1, <1>4, <1>14, <2>1, GoodEmpty DEF Commit
<1>15. ASSUME NEW p \in Procs, Unlink(p) PROVE ListInv'
  <2>1. List(file') = <<>>
    BY <1>15 DEF Unlink, List
  <2> QED BY <1>4, <1>15, <2>1, GoodEmpty DEF Unlink
<1>16. ASSUME NEW p \in Procs, WriteFails(p) PROVE ListInv'
  BY <1>1, <1>4, <1>16 DEF WriteFails, disk_vars
<1>17. CASE LoseKey
  BY <1>3, <1>17 DEF LoseKey
<1>18. ASSUME NEW P \in SUBSET Procs, End(P) PROVE ListInv'
  BY <1>1, <1>18, GoodEmpty DEF ListInv, List, End, disk_vars
<1>19. CASE UNCHANGED vars
  BY <1>3, <1>19 DEF vars, disk_vars, call_vars
<1>20. ASSUME NEW p \in Procs, Work(p) PROVE ListInv'
  BY <1>7, <1>8, <1>9, <1>10, <1>11, <1>12, <1>13, <1>14, <1>15, <1>16, <1>20 DEF Work
<1>21. CASE ServerEnds
  BY <1>18, <1>21 DEF ServerEnds, Procs
<1>22. ASSUME NEW p \in Commands, CommandDies(p) PROVE ListInv'
  BY <1>18, <1>22 DEF CommandDies, Procs
<1> QED BY <1>5, <1>6, <1>17, <1>19, <1>20, <1>21, <1>22 DEF Next, Enters

LEMMA ListInit == Init => ListInv
<1> SUFFICES ASSUME Init PROVE ListInv
  OBVIOUS
<1>1. Good(Legacy, 0)
  <2>1. \A i \in DOMAIN Legacy : Legacy[i].k <= 0
    <3> DEFINE Old == [c : Containers, pw : Passwords, k : {Plain}]
    <3>0. Legacy \in Seq(Old)
      BY LegacyAssumption DEF LegacyAssumption
    <3>2. \A e \in Old : e.k = Plain
      OBVIOUS
    <3> HIDE DEF Old
    <3>1. \A i \in DOMAIN Legacy : Legacy[i] \in Old
      BY <3>0, LenProperties, ElementOfSeq
    <3> QED BY <3>1, <3>2 DEF Plain
  <2> QED BY <2>1, LegacyAssumption DEF LegacyAssumption, Good, Distinct
<1>2. made = 0 /\ (List(file) = Legacy \/ List(file) = <<>>)
  BY DEF Init, List
<1> QED BY <1>1, <1>2, GoodEmpty DEF Init, ListInv

\* One entry for each container, never more than the maximum, also when two
\* processes overwrite each other's list.
THEOREM NoDuplicates == Spec => []OneEntryEach
<1>1. Base /\ ListInv => OneEntryEach
  <2> SUFFICES ASSUME Base, ListInv, NEW c \in Containers
               PROVE  Cardinality(At(List(file), c)) <= 1
    BY DEF OneEntryEach, ListInv, Good
  <2>1. CASE At(List(file), c) = {}
    BY <2>1, FS_EmptySet
  <2>2. CASE \E i : At(List(file), c) = {i}
    BY <2>2, FS_Singleton
  <2> QED BY <2>1, <2>2 DEF ListInv, Good, Distinct, At
<1> QED BY BaseInit, BaseStep, ListInit, ListStep, <1>1, PTL DEF Spec

\* With one key ever made and none lost, the key file opens every entry of the
\* inventory, at every moment of every call.
THEOREM AlwaysReadable == Spec => []Readable
<1>1. Init => KeyInv
  BY DEF Init, KeyInv, NoKey
<1>2. Base /\ KeyInv /\ [Next]_vars => KeyInv'
  <2> SUFFICES ASSUME KeyInv, [Next]_vars PROVE KeyInv'
    OBVIOUS
  <2>1. ASSUME NEW p \in Procs, Mint(p) PROVE KeyInv'
    BY <2>1 DEF Mint, KeyInv
  <2>2. CASE LoseKey
    BY <2>2 DEF LoseKey, KeyInv
  <2>3. UNCHANGED <<key, made, lost>> => KeyInv'
    BY DEF KeyInv
  <2>4. UNCHANGED <<key, made, lost>> \/ LoseKey \/ \E p \in Procs : Mint(p)
    BY DEF Next, Call, Enters, Lock, Work, Load, Decrypt, DecryptFails, EditSave, EditRemove,
           Encrypt, Commit, Unlink, WriteFails, ServerEnds, CommandDies, End, vars,
           disk_vars
  <2> QED BY <2>1, <2>2, <2>3, <2>4
<1>3. Base /\ ListInv /\ KeyInv => Readable
  <2> SUFFICES ASSUME Base, ListInv, KeyInv, made <= 1, ~lost,
                      NEW i \in Sealed(List(file))
               PROVE  List(file)[i].k = key
    BY DEF Readable
  <2>1. List(file) \in Seq(Entries) /\ i \in DOMAIN List(file)
    BY EmptySeq DEF Base, TypeOK, List, Sealed
  <2>2. List(file)[i].k \in Nat
    BY <2>1, KeyType
  <2>3. List(file)[i].k # 0 /\ List(file)[i].k <= made
    BY <2>1 DEF ListInv, Good, Sealed, Plain
  <2>4. key = made /\ made \in Nat /\ made <= 1
    BY BoundsAssumption DEF KeyInv, Base, TypeOK, BoundsAssumption
  <2> QED BY <2>2, <2>3, <2>4
<1> QED BY BaseInit, BaseStep, ListInit, ListStep, <1>1, <1>2, <1>3, PTL DEF Spec

-----------------------------------------------------------------------------
(* The inventory is an atomic map *)

\* A list the abstract map allows o on.
Allowed(o, s) ==
  View(s)[o.c] # NoPassword \/ (o.kind = "save" /\ Len(s) < MaxEntries)

\* Before the edit a caller's list says what it loaded, after it that with the
\* edit; and what a call loaded that overlaps no other process is still there.
ViewInv == \A p \in Procs :
  /\ pc[p] = "unlink" => buf[p] = <<>>
  /\ pc[p] = "decrypt" => View(buf[p]) = seen[p]
  /\ pc[p] \in {"encrypt", "mint", "unlink"} => View(buf[p]) = Edited(seen[p], op[p])
  /\ ~raced[p] =>
       /\ pc[p] = "decrypt" =>
            seen[p] = View(List(file)) /\ Len(buf[p]) = Len(List(file))
       /\ pc[p] \in {"encrypt", "mint", "unlink"} =>
            seen[p] = View(List(file)) /\ Allowed(op[p], List(file))

LEMMA ViewOf ==
  ASSUME NEW s \in Seq(Entries), Distinct(s)
  PROVE  /\ \A i \in DOMAIN s : View(s)[s[i].c] = s[i].pw
         /\ \A c \in Containers : View(s)[c] # NoPassword <=> At(s, c) # {}
<1>1. \A i \in DOMAIN s : s[i] \in Entries /\ s[i].c \in Containers /\ s[i].pw \in Passwords
  <2>1. \A i \in DOMAIN s : s[i] \in Entries
    OBVIOUS
  <2> QED BY <2>1 DEF Entries
<1>2. ASSUME NEW i \in DOMAIN s PROVE View(s)[s[i].c] = s[i].pw
  <2>1. i \in At(s, s[i].c)
    BY DEF At
  <2>2. Least(At(s, s[i].c)) \in At(s, s[i].c)
    BY <2>1, LeastEntry
  <2>3. Least(At(s, s[i].c)) = i
    BY <2>2 DEF At, Distinct
  <2> QED BY <1>1, <2>1, <2>3 DEF View
<1>3. ASSUME NEW c \in Containers PROVE View(s)[c] # NoPassword <=> At(s, c) # {}
  <2>1. CASE At(s, c) = {}
    BY <2>1 DEF View
  <2>2. CASE At(s, c) # {}
    <3>1. PICK i \in DOMAIN s : s[i].c = c
      BY <2>2 DEF At
    <3> QED BY <1>1, <1>2, <2>2, <3>1, NothingAssumption DEF NothingAssumption
  <2> QED BY <2>1, <2>2
<1> QED BY <1>2, <1>3

\* Keys do not matter.
LEMMA ViewRekeyed ==
  ASSUME NEW s \in Seq(Entries), NEW i \in DOMAIN s, NEW v \in 0..MaxKeys
  PROVE  View([s EXCEPT ![i].k = v]) = View(s)
<1> DEFINE t == [s EXCEPT ![i].k = v]
<1>1. DOMAIN t = DOMAIN s
  OBVIOUS
<1>2. \A j \in DOMAIN s :
        t[j] = [c |-> s[j].c, pw |-> s[j].pw, k |-> IF j = i THEN v ELSE s[j].k]
  BY Rekeyed
<1> HIDE DEF t
<1>3. \A j \in DOMAIN s : t[j].c = s[j].c /\ t[j].pw = s[j].pw
  <2> SUFFICES ASSUME NEW j \in DOMAIN s PROVE t[j].c = s[j].c /\ t[j].pw = s[j].pw
    OBVIOUS
  <2>1. t[j] = [c |-> s[j].c, pw |-> s[j].pw, k |-> IF j = i THEN v ELSE s[j].k]
    BY <1>2
  <2> QED BY <2>1
<1>4. \A c : At(t, c) = At(s, c) /\ At(s, c) \subseteq DOMAIN s
  BY <1>1, <1>3 DEF At
<1>5. \A c : At(s, c) # {} => t[Least(At(s, c))].pw = s[Least(At(s, c))].pw
  BY <1>3, <1>4, LeastEntry
<1>6. View(t) = View(s)
  BY <1>4, <1>5 DEF View
<1> QED BY <1>6 DEF t

\* Two lists without duplicates that agree but for the container of o.
LEMMA ViewEdited ==
  ASSUME NEW s \in Seq(Entries), Distinct(s), NEW t \in Seq(Entries), Distinct(t),
         NEW d \in Containers, NEW pw,
         \A i \in DOMAIN s : s[i].c # d => \E j \in DOMAIN t : t[j].c = s[i].c /\ t[j].pw = s[i].pw,
         \A j \in DOMAIN t : t[j].c # d => \E i \in DOMAIN s : s[i].c = t[j].c,
         View(t)[d] = pw
  PROVE  View(t) = [View(s) EXCEPT ![d] = pw]
<1>1. ASSUME NEW c \in Containers, c # d PROVE View(t)[c] = View(s)[c]
  <2>1. CASE At(s, c) # {}
    <3>1. PICK i \in DOMAIN s : s[i].c = c
      BY <2>1 DEF At
    <3>2. PICK j \in DOMAIN t : t[j].c = s[i].c /\ t[j].pw = s[i].pw
      BY <1>1, <3>1
    <3> QED BY <3>1, <3>2, ViewOf
  <2>2. CASE At(s, c) = {}
    <3>1. At(t, c) = {}
      BY <1>1, <2>2 DEF At
    <3> QED BY <2>2, <3>1 DEF View
  <2> QED BY <2>1, <2>2
<1>2. DOMAIN View(t) = Containers /\ DOMAIN View(s) = Containers
  BY DEF View
<1>3. View(t) = [c \in Containers |-> View(t)[c]]
  BY DEF View
<1>4. [View(s) EXCEPT ![d] = pw] = [c \in Containers |-> IF c = d THEN pw ELSE View(s)[c]]
  BY <1>2
<1> QED BY <1>1, <1>3, <1>4

\* Without duplicates there are as many containers as entries.
LEMMA StoredIsLen ==
  ASSUME NEW s \in Seq(Entries), Distinct(s)
  PROVE  Cardinality({c \in Containers : View(s)[c] # NoPassword}) = Len(s)
<1> DEFINE S == {c \in Containers : View(s)[c] # NoPassword}
           f == [i \in 1..Len(s) |-> s[i].c]
<1>1. Len(s) \in Nat /\ DOMAIN s = 1..Len(s) /\ \A i \in 1..Len(s) : s[i] \in Entries
  OBVIOUS
<1>2. \A i \in 1..Len(s) : s[i].c \in Containers
  BY <1>1 DEF Entries
<1>3. S = {c \in Containers : At(s, c) # {}}
  BY ViewOf
<1>4. \A c : At(s, c) # {} <=> \E i \in 1..Len(s) : s[i].c = c
  BY <1>1 DEF At
<1> HIDE DEF S
<1>5. f \in Injection(1..Len(s), S)
  <2>1. f \in [1..Len(s) -> S]
    BY <1>2, <1>3, <1>4
  <2>2. \A i, j \in 1..Len(s) : f[i] = f[j] => i = j
    BY <1>1 DEF Distinct
  <2> QED BY <2>1, <2>2 DEF Injection, IsInjective
<1>6. f \in Surjection(1..Len(s), S)
  <2>1. \A c \in S : \E i \in 1..Len(s) : f[i] = c
    BY <1>3, <1>4
  <2> QED BY <1>5, <2>1 DEF Surjection, Injection
<1>7. ExistsBijection(1..Len(s), S)
  BY <1>5, <1>6 DEF ExistsBijection, Bijection
<1>8. Cardinality(S) = Len(s)
  BY <1>1, <1>7, FS_CountingElements
<1> QED BY <1>8 DEF S

\* The edit of SaveMSSQLInventory, and that of RemoveMSSQLInventory.
LEMMA ViewReplaced ==
  ASSUME NEW s \in Seq(Entries), Distinct(s), NEW i \in DOMAIN s,
         NEW e \in Entries, s[i].c = e.c
  PROVE  View([s EXCEPT ![i] = e]) = [View(s) EXCEPT ![e.c] = e.pw]
<1> DEFINE t == [s EXCEPT ![i] = e]
<1>1. /\ t \in Seq(Entries) /\ DOMAIN t = DOMAIN s
      /\ \A j \in DOMAIN s : t[j] = IF j = i THEN e ELSE s[j]
  <2>1. i \in 1..Len(s) /\ DOMAIN s = 1..Len(s)
    OBVIOUS
  <2> QED BY <2>1, ExceptSeq
<1> HIDE DEF t
<1>2. Distinct(t)
  BY <1>1 DEF Distinct
<1>3. e.c \in Containers
  BY DEF Entries
<1>4. View(t)[e.c] = e.pw
  BY <1>1, <1>2, ViewOf
<1>5. \A j \in DOMAIN s : s[j].c # e.c => t[j].c = s[j].c /\ t[j].pw = s[j].pw
  BY <1>1
<1>6. \A j \in DOMAIN t : t[j].c # e.c => t[j].c = s[j].c
  BY <1>1
<1>7. View(t) = [View(s) EXCEPT ![e.c] = e.pw]
  BY <1>1, <1>2, <1>3, <1>4, <1>5, <1>6, ViewEdited
<1> QED BY <1>7 DEF t

LEMMA ViewAppended ==
  ASSUME NEW s \in Seq(Entries), Distinct(s), NEW e \in Entries, At(s, e.c) = {}
  PROVE  View(Append(s, e)) = [View(s) EXCEPT ![e.c] = e.pw]
<1> DEFINE t == Append(s, e)
<1>1. /\ t \in Seq(Entries) /\ DOMAIN s = 1..Len(s) /\ Len(s) \in Nat
      /\ DOMAIN t = 1..(Len(s) + 1)
      /\ \A j \in 1..Len(s) : t[j] = s[j]
      /\ t[Len(s) + 1] = e
  BY AppendProperties, LenProperties
<1> HIDE DEF t
<1>2. \A j \in DOMAIN t : j \in DOMAIN s \/ j = Len(s) + 1
  BY <1>1
<1>3. \A j \in DOMAIN s : j \in DOMAIN t /\ s[j].c # e.c
  BY <1>1 DEF At
<1>4. Distinct(t)
  BY <1>1, <1>2, <1>3 DEF Distinct
<1>5. e.c \in Containers /\ Len(s) + 1 \in DOMAIN t
  BY <1>1 DEF Entries
<1>6. View(t)[e.c] = e.pw
  BY <1>1, <1>4, <1>5, ViewOf
<1>7. \A j \in DOMAIN t : t[j].c # e.c => \E i \in DOMAIN s : s[i].c = t[j].c
  BY <1>1, <1>2
<1>8. \A i \in DOMAIN s :
        s[i].c # e.c => \E j \in DOMAIN t : t[j].c = s[i].c /\ t[j].pw = s[i].pw
  BY <1>1, <1>3
<1>9. t \in Seq(Entries) /\ e.c \in Containers
  BY <1>1, <1>5
<1>10. View(t) = [View(s) EXCEPT ![e.c] = e.pw]
  BY <1>4, <1>6, <1>7, <1>8, <1>9, ViewEdited
<1> QED BY <1>10 DEF t

LEMMA ViewWithout ==
  ASSUME NEW s \in Seq(Entries), Distinct(s), NEW c \in Containers
  PROVE  View(Without(s, c)) = [View(s) EXCEPT ![c] = NoPassword]
<1> DEFINE t == Without(s, c)
<1>1. /\ t \in Seq(Entries) /\ Distinct(t)
      /\ \A j \in DOMAIN t : t[j].c # c /\ \E i \in DOMAIN s : s[i] = t[j]
      /\ \A i \in DOMAIN s : s[i].c # c => \E j \in DOMAIN t : t[j] = s[i]
  BY WithoutList
<1> HIDE DEF t
<1>2. At(t, c) = {}
  BY <1>1 DEF At
<1>3. View(t)[c] = NoPassword
  BY <1>2 DEF View
<1>4. \A i \in DOMAIN s :
        s[i].c # c => \E j \in DOMAIN t : t[j].c = s[i].c /\ t[j].pw = s[i].pw
  BY <1>1
<1>5. \A j \in DOMAIN t : t[j].c # c => \E i \in DOMAIN s : s[i].c = t[j].c
  BY <1>1
<1>6. View(t) = [View(s) EXCEPT ![c] = NoPassword]
  BY <1>1, <1>3, <1>4, <1>5, ViewEdited
<1> QED BY <1>6 DEF t

\* The list of a call that is alone follows the file.
LEMMA ViewStep == Base /\ MutexInv /\ ListInv /\ ViewInv /\ [Next]_vars => ViewInv'
<1> SUFFICES ASSUME Base, MutexInv, ListInv, ViewInv, [Next]_vars
             PROVE  ViewInv'
  OBVIOUS
<1> DEFINE
  File == List(file)
  Claim(p) ==
    /\ pc[p] = "unlink" => buf[p] = <<>>
    /\ pc[p] = "decrypt" => View(buf[p]) = seen[p]
    /\ pc[p] \in {"encrypt", "mint", "unlink"} => View(buf[p]) = Edited(seen[p], op[p])
    /\ ~raced[p] =>
         /\ pc[p] = "decrypt" => seen[p] = View(File) /\ Len(buf[p]) = Len(File)
         /\ pc[p] \in {"encrypt", "mint", "unlink"} =>
              seen[p] = View(File) /\ Allowed(op[p], File)
<1>1. /\ key \in 0..MaxKeys /\ File \in Seq(Entries) /\ Distinct(File)
      /\ \A p \in Procs : buf[p] \in Seq(Entries) /\ Distinct(buf[p])
      /\ \A p \in Procs : raced[p] \in BOOLEAN
  BY BoundsAssumption, EmptySeq DEF Base, TypeOK, ListInv, List, Good, BoundsAssumption
<1>2. \A p \in Procs : Claim(p)
  BY DEF ViewInv
<1>3. ASSUME \A p \in Procs : Claim(p)' PROVE ViewInv'
  BY <1>3 DEF ViewInv
\* A caller whose own state and whose file stay has nothing to show.
<1>4. ASSUME NEW p \in Procs, file' = file, pc'[p] = pc[p], op'[p] = op[p],
             buf'[p] = buf[p], seen'[p] = seen[p], raced[p] => raced'[p]
      PROVE  Claim(p)'
  <2>1. File' = File
    BY <1>4 DEF List
  <2> QED BY <1>2, <1>4, <2>1
<1>5. ASSUME NEW p \in Procs, pc'[p] \in {"idle", "lock", "load"} PROVE Claim(p)'
  BY <1>5
<1>6. ASSUME NEW p \in Procs, NEW res, Return(p, res), NEW q \in Procs,
             file' = file \/ p \in Inside
      PROVE  Claim(q)'
  <2>1. CASE q = p
    <3>1. pc'[p] = "idle"
      BY <1>6 DEF Return, Goto, Base, TypeOK
    <3> QED BY <1>5, <2>1, <3>1
  <2>2. CASE q # p /\ q \notin Inside
    <3>1. pc'[q] = pc[q]
      BY <1>6, <2>2 DEF Return, Goto, Base, TypeOK
    <3> QED BY <1>5, <2>2, <3>1 DEF Inside
  <2>3. CASE q # p /\ q \in Inside
    <3>1. /\ pc'[q] = pc[q] /\ op'[q] = op[q] /\ buf'[q] = buf[q]
          /\ raced'[q] = raced[q] /\ seen'[q] = seen[q]
      BY <1>6, <2>3 DEF Return, Goto, Base, TypeOK
    <3>2. CASE file' = file
      BY <1>4, <3>1, <3>2
    <3>3. CASE p \in Inside
      <4>1. raced'[q]
        BY <2>3, <3>1, <3>3 DEF MutexInv
      <4>2. /\ pc[q] = "unlink" => buf[q] = <<>>
            /\ pc[q] = "decrypt" => View(buf[q]) = seen[q]
            /\ pc[q] \in {"encrypt", "mint", "unlink"} =>
                 View(buf[q]) = Edited(seen[q], op[q])
        BY <1>2
      <4> QED BY <3>1, <4>1, <4>2
    <3> QED BY <1>6, <3>2, <3>3
  <2> QED BY <2>1, <2>2, <2>3
\* The list changes to t, and another caller sees nothing of it.
<1>7. ASSUME NEW p \in Procs, NEW t, NEW step \in Steps, file' = file,
             buf' = [buf EXCEPT ![p] = t], Goto(p, step), UNCHANGED <<op, raced>>,
             \A r \in Procs : r # p => seen'[r] = seen[r],
             step = "unlink" => t = <<>>,
             step = "decrypt" => View(t) = seen'[p],
             step \in {"encrypt", "mint", "unlink"} => View(t) = Edited(seen'[p], op[p]),
             ~raced[p] =>
               /\ step = "decrypt" => seen'[p] = View(File) /\ Len(t) = Len(File)
               /\ step \in {"encrypt", "mint", "unlink"} =>
                    seen'[p] = View(File) /\ Allowed(op[p], File),
             NEW q \in Procs
      PROVE  Claim(q)'
  <2>1. CASE q # p
    <3>1. pc'[q] = pc[q] /\ buf'[q] = buf[q]
      BY <1>7, <2>1 DEF Goto, Base, TypeOK
    <3> QED BY <1>4, <1>7, <2>1, <3>1
  <2>2. CASE q = p
    <3>1. pc'[p] = step /\ buf'[p] = t
      BY <1>7 DEF Goto, Base, TypeOK
    <3>2. File' = File
      BY <1>7 DEF List
    <3> QED BY <1>7, <2>2, <3>1, <3>2
  <2> QED BY <2>1, <2>2
<1> HIDE DEF Claim, File
<1>8. ASSUME NEW p \in Procs, Call(p), NEW q \in Procs
      PROVE  Claim(q)'
  <2>1. CASE q = p
    <3>1. pc'[p] = "lock"
      BY <1>8 DEF Call, Goto, Base, TypeOK
    <3> QED BY <1>5, <2>1, <3>1
  <2>2. CASE q # p
    BY <1>4, <1>8, <2>2 DEF Call, Goto, disk_vars, Base, TypeOK
  <2> QED BY <2>1, <2>2
<1>9. ASSUME NEW p \in Procs, Enters(p), NEW q \in Procs PROVE Claim(q)'
  <2>1. CASE q = p
    <3>1. pc'[p] = "load"
      BY <1>9 DEF Enters, Lock, Goto, Base, TypeOK
    <3> QED BY <1>5, <2>1, <3>1
  <2>2. CASE q # p
    BY <1>4, <1>9, <2>2 DEF Enters, Lock, Goto, disk_vars, Base, TypeOK
  <2> QED BY <2>1, <2>2
<1>10. ASSUME NEW p \in Procs, Load(p), NEW q \in Procs PROVE Claim(q)'
  <2>1. /\ file' = file /\ buf' = [buf EXCEPT ![p] = File] /\ Goto(p, "decrypt")
        /\ UNCHANGED <<op, raced>> /\ seen' = [seen EXCEPT ![p] = View(File)]
    BY <1>10, StoredIsView DEF Load, disk_vars, File
  <2>2. seen'[p] = View(File) /\ \A r \in Procs : r # p => seen'[r] = seen[r]
    BY <2>1 DEF Base, TypeOK
  <2> QED BY <1>7, <2>1, <2>2 DEF Steps
<1>11. ASSUME NEW p \in Procs, Decrypt(p), NEW q \in Procs PROVE Claim(q)'
  <2> DEFINE i == Least(Sealed(buf[p]))
             t == [buf[p] EXCEPT ![i].k = Plain]
  <2>1. i \in DOMAIN buf[p] /\ pc[p] = "decrypt"
    BY <1>1, <1>11, LeastEntry DEF Decrypt, Sealed
  <2>2. View(t) = View(buf[p]) /\ Len(t) = Len(buf[p])
    <3>1. Plain \in 0..MaxKeys
      BY BoundsAssumption DEF Plain, BoundsAssumption
    <3>2. buf[p] \in Seq(Entries)
      BY <1>1
    <3>3. View(t) = View(buf[p])
      BY <2>1, <3>1, <3>2, ViewRekeyed
    <3>4. Len(t) = Len(buf[p])
      BY <2>1, <3>1, <3>2, Rekeyed
    <3> QED BY <3>3, <3>4
  <2>3. buf' = [buf EXCEPT ![p] = t] /\ file' = file /\ UNCHANGED <<op, raced, seen>>
    BY <1>11 DEF Decrypt, disk_vars
  <2>4. Goto(p, "decrypt")
    BY <1>11, <2>1 DEF Decrypt, Goto, Base, TypeOK
  <2>5. /\ View(t) = seen[p]
        /\ ~raced[p] => seen[p] = View(File) /\ Len(t) = Len(File)
    BY <1>2, <2>1, <2>2 DEF Claim
  <2> HIDE DEF t
  <2> QED BY <1>7, <2>3, <2>4, <2>5 DEF Steps
<1>12. ASSUME NEW p \in Procs, DecryptFails(p), NEW q \in Procs PROVE Claim(q)'
  BY <1>6, <1>12 DEF DecryptFails, disk_vars
<1>13. ASSUME NEW p \in Procs, EditSave(p), NEW q \in Procs PROVE Claim(q)'
  <2> DEFINE o == op[p]
             s == buf[p]
             e == Entry(o)
  <2>1. /\ o \in Ops /\ o.kind = "save" /\ s \in Seq(Entries) /\ Distinct(s)
        /\ pc[p] = "decrypt" /\ file' = file
    BY <1>1, <1>13 DEF Base, TypeOK, CallInv, EditSave, AllOpen, disk_vars
  <2>2. /\ e \in Entries /\ e.c = o.c /\ e.pw = o.pw /\ o.c \in Containers
    BY <2>1, BoundsAssumption DEF Ops, Entry, Entries, Plain, BoundsAssumption
  <2>3. /\ View(s) = seen[p]
        /\ ~raced[p] => seen[p] = View(File) /\ Len(s) = Len(File)
    BY <1>2, <2>1 DEF Claim
  <2> USE <1>13 DEF EditSave
  <2>4. CASE At(s, o.c) # {}
    <3> DEFINE i == Least(At(s, o.c))
               t == [s EXCEPT ![i] = e]
    <3>1. i \in DOMAIN s /\ s[i].c = o.c
      BY <2>1, <2>4, LeastEntry DEF At
    <3>2. buf' = [buf EXCEPT ![p] = t] /\ Goto(p, "encrypt") /\ UNCHANGED <<op, raced, seen>>
      BY <2>4
    <3>3. View(s)[o.c] # NoPassword
      BY <2>1, <2>2, <2>4, ViewOf
    <3> HIDE DEF i, e, s, o
    <3>4. View(t) = [View(s) EXCEPT ![o.c] = o.pw]
      BY <2>1, <2>2, <3>1, ViewReplaced
    <3> HIDE DEF t
    <3>5. /\ View(t) = Edited(seen[p], o)
          /\ ~raced[p] => seen[p] = View(File) /\ Allowed(o, File)
      BY <2>3, <3>3, <3>4 DEF Allowed, Edited
    <3> QED BY <1>7, <2>1, <3>2, <3>5 DEF Steps, o
  <2>5. CASE At(s, o.c) = {} /\ Len(s) >= MaxEntries
    <3>1. Return(p, "full")
      BY <2>5
    <3> QED BY <1>6, <2>1, <3>1
  <2>6. CASE At(s, o.c) = {} /\ ~(Len(s) >= MaxEntries)
    <3> DEFINE t == Append(s, e)
    <3>1. buf' = [buf EXCEPT ![p] = t] /\ Goto(p, "encrypt") /\ UNCHANGED <<op, raced, seen>>
      BY <2>6
    <3>2. Len(s) < MaxEntries
      BY <2>1, <2>6, EntriesAssumption DEF EntriesAssumption
    <3> HIDE DEF e, s, o
    <3>3. View(t) = [View(s) EXCEPT ![o.c] = o.pw]
      BY <2>1, <2>2, <2>6, ViewAppended
    <3> HIDE DEF t
    <3>4. /\ View(t) = Edited(seen[p], o)
          /\ ~raced[p] => seen[p] = View(File) /\ Allowed(o, File)
      BY <2>1, <2>3, <3>2, <3>3 DEF Allowed, Edited
    <3> QED BY <1>7, <2>1, <3>1, <3>4 DEF Steps, o
  <2> QED BY <2>4, <2>5, <2>6
<1>14. ASSUME NEW p \in Procs, EditRemove(p), NEW q \in Procs PROVE Claim(q)'
  <2> DEFINE o == op[p]
             s == buf[p]
             t == Without(s, o.c)
  <2>1. /\ o \in Ops /\ o.kind = "remove" /\ s \in Seq(Entries) /\ Distinct(s)
        /\ pc[p] = "decrypt" /\ file' = file
    BY <1>1, <1>14 DEF Base, TypeOK, CallInv, EditRemove, AllOpen, disk_vars
  <2>2. o.c \in Containers /\ o.pw = NoPassword
    BY <2>1 DEF Ops
  <2>3. /\ View(s) = seen[p]
        /\ ~raced[p] => seen[p] = View(File) /\ Len(s) = Len(File)
    BY <1>2, <2>1 DEF Claim
  <2>4. CASE t = s
    <3>1. Return(p, "notfound")
      BY <1>14, <2>4 DEF EditRemove
    <3> QED BY <1>6, <2>1, <3>1
  <2>5. CASE t # s
    <3>1. /\ buf' = [buf EXCEPT ![p] = t] /\ UNCHANGED <<op, raced, seen>>
          /\ Goto(p, IF t = <<>> THEN "unlink" ELSE "encrypt")
      BY <1>14, <2>5 DEF EditRemove
    <3> HIDE DEF s, o
    <3>2. At(s, o.c) # {}
      BY <2>1, <2>5, WithoutList
    <3>3. View(s)[o.c] # NoPassword
      BY <2>1, <2>2, <3>2, ViewOf
    <3>4. View(t) = [View(s) EXCEPT ![o.c] = o.pw]
      BY <2>1, <2>2, ViewWithout
    <3> HIDE DEF t
    <3>5. /\ View(t) = Edited(seen[p], o)
          /\ ~raced[p] => seen[p] = View(File) /\ Allowed(o, File)
      BY <2>3, <3>3, <3>4 DEF Allowed, Edited
    <3>6. CASE t = <<>>
      <4>1. Goto(p, "unlink")
        BY <3>1, <3>6
      <4> QED BY <1>7, <2>1, <3>1, <3>5, <3>6, <4>1 DEF Steps, o
    <3>7. CASE t # <<>>
      <4>1. Goto(p, "encrypt")
        BY <3>1, <3>7
      <4> QED BY <1>7, <2>1, <3>1, <3>5, <4>1 DEF Steps, o
    <3> QED BY <3>6, <3>7
  <2> QED BY <2>4, <2>5
<1>15. ASSUME NEW p \in Procs, Encrypt(p), NEW q \in Procs PROVE Claim(q)'
  <2> DEFINE i == Least(Opened(buf[p]))
             t == [buf[p] EXCEPT ![i].k = key]
  <2>1. i \in DOMAIN buf[p] /\ pc[p] = "encrypt"
    BY <1>1, <1>15, LeastEntry DEF Encrypt, Opened
  <2>2. View(t) = View(buf[p])
    BY <1>1, <2>1, ViewRekeyed
  <2>3. file' = file /\ UNCHANGED <<op, raced, seen>>
    BY <1>15 DEF Encrypt, disk_vars
  <2>4. /\ View(buf[p]) = Edited(seen[p], op[p])
        /\ ~raced[p] => seen[p] = View(File) /\ Allowed(op[p], File)
    BY <1>2, <2>1 DEF Claim
  <2>5. CASE key # NoKey
    <3>1. buf' = [buf EXCEPT ![p] = t] /\ Goto(p, "encrypt")
      BY <1>15, <2>1, <2>5 DEF Encrypt, Goto, Base, TypeOK
    <3> HIDE DEF t
    <3> QED BY <1>7, <2>2, <2>3, <2>4, <3>1 DEF Steps
  <2>6. CASE key = NoKey
    <3>1. buf' = [buf EXCEPT ![p] = buf[p]] /\ Goto(p, "mint")
      BY <1>15, <2>6 DEF Encrypt, Base, TypeOK
    <3> QED BY <1>7, <2>3, <2>4, <3>1 DEF Steps
  <2> QED BY <2>5, <2>6
<1>16. ASSUME NEW p \in Procs, Mint(p), NEW q \in Procs PROVE Claim(q)'
  <2> DEFINE i == Least(Opened(buf[p]))
             t == [buf[p] EXCEPT ![i].k = made + 1]
  <2>1. i \in DOMAIN buf[p] /\ pc[p] = "mint"
    BY <1>1, <1>16, LeastEntry DEF Mint, Base, CallInv, Opened
  <2>2. View(t) = View(buf[p])
    <3>1. made + 1 \in 0..MaxKeys
      BY <1>16, BoundsAssumption DEF Mint, Base, TypeOK, BoundsAssumption
    <3> QED BY <1>1, <2>1, <3>1, ViewRekeyed
  <2>3. /\ file' = file /\ UNCHANGED <<op, raced, seen>>
        /\ buf' = [buf EXCEPT ![p] = t] /\ Goto(p, "encrypt")
    BY <1>16 DEF Mint
  <2>4. /\ View(buf[p]) = Edited(seen[p], op[p])
        /\ ~raced[p] => seen[p] = View(File) /\ Allowed(op[p], File)
    BY <1>2, <2>1 DEF Claim
  <2> HIDE DEF t
  <2> QED BY <1>7, <2>2, <2>3, <2>4 DEF Steps
<1>17. ASSUME NEW p \in Procs, Commit(p), NEW q \in Procs PROVE Claim(q)'
  BY <1>6, <1>17 DEF Commit, AllSealed, Inside
<1>18. ASSUME NEW p \in Procs, Unlink(p), NEW q \in Procs PROVE Claim(q)'
  BY <1>6, <1>18 DEF Unlink, Inside
<1>19. ASSUME NEW p \in Procs, WriteFails(p), NEW q \in Procs PROVE Claim(q)'
  BY <1>6, <1>19 DEF WriteFails, disk_vars
<1>20. ASSUME LoseKey, NEW q \in Procs PROVE Claim(q)'
  BY <1>4, <1>20 DEF LoseKey
<1>21. ASSUME NEW P \in SUBSET Procs, End(P), NEW q \in Procs PROVE Claim(q)'
  <2>1. CASE q \in P
    BY <1>5, <1>21, <2>1 DEF End
  <2>2. CASE q \notin P
    BY <1>4, <1>21, <2>2 DEF End, disk_vars
  <2> QED BY <2>1, <2>2
<1>22. ASSUME UNCHANGED vars, NEW q \in Procs PROVE Claim(q)'
  BY <1>4, <1>22 DEF vars, disk_vars, call_vars
<1>23. ASSUME NEW p \in Procs, Work(p), NEW q \in Procs PROVE Claim(q)'
  BY <1>10, <1>11, <1>12, <1>13, <1>14, <1>15, <1>16, <1>17, <1>18, <1>19, <1>23 DEF Work
<1>24. ASSUME ServerEnds, NEW q \in Procs PROVE Claim(q)'
  BY <1>21, <1>24 DEF ServerEnds, Procs
<1>25. ASSUME NEW p \in Commands, CommandDies(p), NEW q \in Procs PROVE Claim(q)'
  BY <1>21, <1>25 DEF CommandDies, Procs
<1> QED BY <1>3, <1>8, <1>9, <1>20, <1>22, <1>23, <1>24, <1>25 DEF Next, Enters

LEMMA SameCardinality == \A S : Map!Cardinality(S) = Cardinality(S)
  BY DEF Map!Cardinality, Cardinality

\* Every step is a step of the abstract map or one it does not see.
LEMMA MapStep ==
  ASSUME Base, MutexInv, ListInv, ViewInv, [Next]_vars
  PROVE  [Map!Next]_(Map!vars)
<1> DEFINE File == List(file)
           Tock == outcome' = Silence /\ UNCHANGED <<file, op>>
           Ends(p, res) ==
             /\ op' = [op EXCEPT ![p] = NoOp]
             /\ outcome' = [Silence EXCEPT ![p] = res]
<1>1. Stored = View(File) /\ Stored' = View(List(file'))
  BY StoredIsView
<1>2. /\ File \in Seq(Entries) /\ Distinct(File) /\ Len(File) \in Nat
      /\ \A p \in Procs : buf[p] \in Seq(Entries) /\ Distinct(buf[p])
  <2>1. File \in Seq(Entries)
    BY EmptySeq DEF Base, TypeOK, List
  <2> QED BY <2>1, LenProperties DEF Base, TypeOK, ListInv, Good
<1>3. Map!Stored = {c \in Containers : View(File)[c] # NoPassword}
  BY <1>1 DEF Map!Stored
<1>4. Map!Cardinality(Map!Stored) = Len(File)
  BY <1>2, <1>3, StoredIsLen, SameCardinality
<1>5. View(List(file')) \in [Containers -> Passwords \cup {NoPassword}]
  BY ViewType, BaseStep, EmptySeq DEF Base, TypeOK, List
<1>6. ASSUME Tock PROVE Map!Tick
  BY <1>1, <1>6 DEF Map!Tick, Map!Silence, Silence, List
<1>7. ASSUME NEW p \in Procs, NEW res, Ends(p, res), pc[p] \notin {"idle", "lock"}
      PROVE  Map!Return(p, res)
  BY <1>7 DEF Map!Return, Map!Silence, Silence, Base, CallInv
<1>8. ASSUME NEW p \in Procs, NEW res, Return(p, res), pc[p] \notin {"idle", "lock"}
      PROVE  Map!Return(p, res)
  BY <1>7, <1>8 DEF Return
<1>9. ASSUME NEW p \in Procs, NEW res \in {"ok", "full", "notfound"},
             Map!Return(p, res), raced[p]
      PROVE  Map!Race(p)
  BY <1>1, <1>5, <1>9 DEF Map!Race
<1>10. ASSUME NEW p \in Procs, Return(p, "error"), pc[p] \notin {"idle", "lock"}, file' = file
       PROVE  Map!Fail(p)
  BY <1>1, <1>8, <1>10 DEF Map!Fail, List
\* A write by a caller that is alone.
<1>11. ASSUME NEW p \in Procs, Return(p, "ok"), List(file') = buf[p],
              pc[p] \in {"encrypt", "unlink"}
       PROVE  Map!Save(p) \/ Map!Remove(p) \/ Map!Race(p)
  <2>1. Map!Return(p, "ok") /\ op[p] \in Ops
    BY <1>8, <1>11 DEF Base, TypeOK, CallInv
  <2>2. CASE raced[p]
    BY <1>9, <2>1, <2>2
  <2>3. CASE ~raced[p]
    <3>1. /\ View(List(file')) = [View(File) EXCEPT ![op[p].c] = op[p].pw]
          /\ Allowed(op[p], File)
      BY <1>11, <2>3 DEF ViewInv, Edited
    <3>2. op[p].c \in Containers
      BY <2>1 DEF Ops
    <3>3. op[p].c \in Map!Stored \/ (op[p].kind = "save" /\ Map!Cardinality(Map!Stored) < MaxEntries)
      BY <1>3, <1>4, <3>1, <3>2 DEF Allowed
    <3>4. CASE op[p].kind = "save"
      BY <1>1, <2>1, <3>1, <3>3, <3>4 DEF Map!Save
    <3>5. CASE op[p].kind = "remove"
      <4>1. op[p].pw = NoPassword
        BY <2>1, <3>5 DEF Ops
      <4> QED BY <1>1, <2>1, <3>1, <3>3, <3>5, <4>1 DEF Map!Remove
    <3> QED BY <2>1, <3>4, <3>5 DEF Ops
  <2> QED BY <2>2, <2>3
<1>12. ASSUME NEW p \in Procs, EditSave(p)
       PROVE  Map!Tick \/ Map!Full(p) \/ Map!Race(p)
  <2> DEFINE o == op[p]
             s == buf[p]
  <2>1. /\ pc[p] = "decrypt" /\ o.kind = "save" /\ UNCHANGED file /\ o \in Ops
    BY <1>12 DEF EditSave, AllOpen, disk_vars, Base, TypeOK, CallInv
  <2>2. \/ outcome' = Silence /\ UNCHANGED op
        \/ Return(p, "full") /\ At(s, o.c) = {} /\ Len(s) >= MaxEntries
    BY <1>12 DEF EditSave
  <2>3. CASE outcome' = Silence /\ UNCHANGED op
    BY <1>6, <2>1, <2>3
  <2>4. CASE Return(p, "full") /\ raced[p]
    BY <1>8, <1>9, <2>1, <2>4
  <2>5. CASE Return(p, "full") /\ At(s, o.c) = {} /\ Len(s) >= MaxEntries /\ ~raced[p]
    <3>1. View(s) = View(File) /\ Len(s) = Len(File)
      BY <2>1, <2>5 DEF ViewInv
    <3>2. o.c \in Containers
      BY <2>1 DEF Ops
    <3>3. View(s)[o.c] = NoPassword
      BY <2>5, <3>2 DEF View
    <3>4. o.c \notin Map!Stored /\ Map!Cardinality(Map!Stored) >= MaxEntries
      BY <1>3, <1>4, <2>5, <3>1, <3>3
    <3>5. Map!Return(p, "full")
      BY <1>8, <2>1, <2>5
    <3>6. UNCHANGED Stored
      BY <1>1, <2>1
    <3> QED BY <2>1, <3>4, <3>5, <3>6 DEF Map!Full
  <2> QED BY <2>2, <2>3, <2>4, <2>5
<1>13. ASSUME NEW p \in Procs, EditRemove(p)
       PROVE  Map!Tick \/ Map!NotFound(p) \/ Map!Race(p)
  <2> DEFINE o == op[p]
             s == buf[p]
  <2>1. /\ pc[p] = "decrypt" /\ o.kind = "remove" /\ UNCHANGED file /\ o \in Ops
    BY <1>13 DEF EditRemove, AllOpen, disk_vars, Base, TypeOK, CallInv
  <2>2. \/ outcome' = Silence /\ UNCHANGED op
        \/ Return(p, "notfound") /\ Without(s, o.c) = s
    BY <1>13 DEF EditRemove
  <2>3. CASE outcome' = Silence /\ UNCHANGED op
    BY <1>6, <2>1, <2>3
  <2>4. CASE Return(p, "notfound") /\ raced[p]
    BY <1>8, <1>9, <2>1, <2>4
  <2>5. CASE Return(p, "notfound") /\ Without(s, o.c) = s /\ ~raced[p]
    <3>1. View(s) = View(File)
      BY <2>1, <2>5 DEF ViewInv
    <3>2. o.c \in Containers
      BY <2>1 DEF Ops
    <3>3. At(s, o.c) = {}
      BY <1>2, <2>5, WithoutList
    <3>4. View(s)[o.c] = NoPassword
      BY <3>2, <3>3 DEF View
    <3>5. o.c \notin Map!Stored
      BY <1>3, <3>1, <3>4
    <3>6. Map!Return(p, "notfound")
      BY <1>8, <2>1, <2>5
    <3>7. UNCHANGED Stored
      BY <1>1, <2>1
    <3> QED BY <2>1, <3>5, <3>6, <3>7 DEF Map!NotFound
  <2> QED BY <2>2, <2>3, <2>4, <2>5
<1>14. ASSUME NEW p \in Procs, NEW o \in Ops, Lock(p, o) PROVE Map!Call(p, o)
  <2>1. op[p] = NoOp
    BY <1>14 DEF Lock, Base, CallInv
  <2>2. UNCHANGED Stored
    BY <1>1, <1>14 DEF Lock, disk_vars
  <2> QED BY <1>14, <2>1, <2>2 DEF Lock, Map!Call, Map!Silence, Silence
<1>15. ASSUME NEW P \in SUBSET Procs, End(P) PROVE Map!Die(P)
  <2>1. UNCHANGED Stored
    BY <1>1, <1>15 DEF End, disk_vars
  <2> QED BY <1>15, <2>1 DEF End, Map!Die, Map!Silence, Silence
<1>16. ASSUME UNCHANGED vars PROVE UNCHANGED Map!vars
  <2>1. UNCHANGED Stored
    BY <1>1, <1>16 DEF vars, disk_vars
  <2> QED BY <1>16, <2>1 DEF Map!vars, vars, call_vars
<1> DEFINE Shown(p) == \/ Map!Tick \/ Map!Save(p) \/ Map!Remove(p) \/ Map!Full(p)
                      \/ Map!NotFound(p) \/ Map!Fail(p) \/ Map!Race(p)
<1>17. ASSUME NEW p \in Procs, Call(p) PROVE Shown(p)
  BY <1>6, <1>17 DEF Call, disk_vars
<1>18. ASSUME NEW p \in Procs, Work(p) PROVE Shown(p)
  <2>1. CASE Load(p) \/ Decrypt(p) \/ Encrypt(p) \/ Mint(p)
    BY <1>6, <2>1 DEF Load, Decrypt, Encrypt, Mint, disk_vars
  <2>2. CASE DecryptFails(p)
    BY <1>10, <2>2 DEF DecryptFails, disk_vars
  <2>3. CASE WriteFails(p)
    BY <1>10, <2>3 DEF WriteFails, AllSealed, disk_vars
  <2>4. CASE Commit(p)
    <3>1. List(file') = buf[p]
      <4>1. buf[p] # NoFile
        BY <1>2, NothingAssumption DEF NothingAssumption
      <4> QED BY <2>4, <4>1 DEF Commit, List
    <3> QED BY <1>11, <2>4, <3>1 DEF Commit, AllSealed
  <2>5. CASE Unlink(p)
    <3>1. List(file') = buf[p]
      BY <2>5 DEF Unlink, List, ViewInv
    <3> QED BY <1>11, <2>5, <3>1 DEF Unlink
  <2> QED BY <1>12, <1>13, <1>18, <2>1, <2>2, <2>3, <2>4, <2>5 DEF Work
<1>19. ASSUME LoseKey PROVE Map!Tick
  BY <1>6, <1>19 DEF LoseKey
<1> HIDE DEF Shown, Tock, Ends, File
<1>20. ASSUME NEW p \in Procs, Shown(p) PROVE Map!Next
  BY <1>20 DEF Shown, Map!Next
<1>21. ASSUME NEW p \in Procs, NEW o \in Ops, Lock(p, o) PROVE Map!Next
  <2>1. o \in Map!Ops
    BY DEF Ops, Map!Ops
  <2> QED BY <1>14, <1>21, <2>1 DEF Map!Next
<1>22. ASSUME NEW P \in SUBSET Procs, End(P) PROVE Map!Next
  BY <1>15, <1>22 DEF Map!Next
<1>23. CASE ServerEnds
  BY <1>22, <1>23 DEF ServerEnds, Procs
<1>24. CASE \E p \in Commands : CommandDies(p)
  BY <1>22, <1>24 DEF CommandDies, Procs
<1>25. CASE LoseKey
  BY <1>19, <1>25 DEF Map!Next
<1> QED BY <1>16, <1>17, <1>18, <1>20, <1>21, <1>23, <1>24, <1>25 DEF Next

\* The inventory file is a bounded map with atomic Save and Remove for every call
\* that overlaps no other process: crashes, stops, failed writes and lost keys
\* leave it as it was or as the call wanted it.
THEOREM IsAtomicMap == Spec => AtomicMap
<1>1. Init => MutexInv
  BY DEF Init, MutexInv, Inside
<1>2. Init => ViewInv
  BY DEF Init, ViewInv
<1>3. Base /\ Init => Map!Init
  <2> SUFFICES ASSUME Base, Init PROVE Map!Init
    OBVIOUS
  <2>1. Stored = View(List(file))
    BY StoredIsView
  <2>2. View(List(file)) \in [Containers -> Passwords \cup {NoPassword}]
    BY ViewType, EmptySeq DEF Base, TypeOK, List
  <2> QED BY <2>1, <2>2 DEF Init, Map!Init, Map!Silence, Silence
<1>4. Base /\ MutexInv /\ ListInv /\ ViewInv /\ [Next]_vars => [Map!Next]_(Map!vars)
  BY MapStep
<1> QED BY BaseInit, BaseStep, MutexStep, ListInit, ListStep, ViewStep,
           <1>1, <1>2, <1>3, <1>4, PTL DEF Spec, AtomicMap, Map!Spec

\* A call that succeeds leaves what it loaded with its own edit applied, for any
\* number of callers of any processes.
THEOREM WritesOnlyItsEdit == Spec => WritesItsOwnEdit
<1>1. Init => MutexInv /\ ViewInv
  BY DEF Init, MutexInv, Inside, ViewInv
<1>2. ASSUME Base, ViewInv, Next, NEW p \in Procs, op[p] # NoOp, outcome'[p] = "ok"
      PROVE  Stored' = Edited(seen[p], op[p])
  <2>1. ASSUME NEW q \in Procs, NEW res, Return(q, res) PROVE q = p /\ res = "ok"
    BY <1>2, <2>1 DEF Return, Silence
  <2>2. outcome' # Silence
    BY <1>2 DEF Silence
  <2>3. PICK q \in Procs : Work(q)
    BY <1>2, <2>2 DEF Next, Call, Enters, Lock, LoseKey, ServerEnds, CommandDies, End
  <2>4. Commit(p) \/ Unlink(p)
    BY <2>1, <2>2, <2>3 DEF Work, Load, Decrypt, DecryptFails, EditSave, EditRemove,
         Encrypt, Mint, Commit, Unlink, WriteFails
  <2>5. List(file') = buf[p] /\ pc[p] \in {"encrypt", "unlink"}
    <3>1. buf[p] # NoFile
      BY <1>2, NothingAssumption DEF Base, TypeOK, NothingAssumption
    <3>2. pc[p] = "unlink" => buf[p] = <<>>
      BY <1>2 DEF ViewInv
    <3> QED BY <2>4, <3>1, <3>2 DEF Commit, AllSealed, Unlink, List
  <2>6. View(buf[p]) = Edited(seen[p], op[p])
    BY <1>2, <2>5 DEF ViewInv
  <2> QED BY <2>5, <2>6, StoredIsView
<1>3. Base /\ ViewInv /\ [Next]_vars =>
        [\A p \in Procs : (op[p] # NoOp /\ outcome'[p] = "ok") => Stored' = Edited(seen[p], op[p])]_vars
  BY <1>2
<1> QED BY BaseInit, BaseStep, MutexStep, ListInit, ListStep, ViewStep, <1>1, <1>3,
           PTL DEF Spec, WritesItsOwnEdit

=============================================================================
