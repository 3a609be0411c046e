-------------------------- MODULE StateFile_proofs --------------------------
(***************************************************************************)
(* WriteFilePreserveOwner for any writers, inodes, payloads and number of  *)
(* faults.  QuietInv follows a call that no other overlaps: path.tmp is    *)
(* the file it opened and holds what it wrote, whatever was there before;  *)
(* OwnerInv adds that it will own the file as the one it replaces.         *)
(* SoloInv says who that is as long as no two calls have overlapped.  The  *)
(* steps of such calls are those of AtomicFile.                            *)
(***************************************************************************)
EXTENDS StateFile, SequenceTheorems, TLAPS

\* The call of w has path.tmp open or has written it.
Holds(w) == pc[w] \in {"write", "chown", "chmod", "rename"}

QuietInv == \A w \in Writers : pc[w] # "idle" /\ ~overlap[w] =>
  /\ \A v \in Writers \ {w} : pc[v] = "idle"
  /\ Holds(w) => tmp # NoInode /\ MayOpen(Uid(w), tmp)
  /\ pc[w] = "write" => fd[w] = tmp /\ data[tmp] = <<>>
  /\ pc[w] \in {"chown", "chmod", "rename"} => data[tmp] = Content(arg[w])

\* The owner that a call has to keep.
Kept == IF path = NoInode THEN DirOwner ELSE owner[path]

OwnerInv == \A w \in Writers : pc[w] # "idle" /\ ~overlap[w] =>
  /\ pc[w] # "stat" => want[w] = Kept
  /\ pc[w] \in {"chmod", "rename"} => owner[tmp] = Kept

SoloInv == ~clash =>
  /\ \A w \in Writers : ~overlap[w] /\ (faults = 0 => pc[w] # "remove")
  /\ path # NoInode => owner[path] = "service"
  /\ \A w \in Writers :
       /\ pc[w] \notin {"idle", "stat"} => want[w] = "service"
       /\ pc[w] \in {"chmod", "rename"} => owner[tmp] = "service"

CleanInv ==
  /\ \A w \in Writers : pc[w] # "idle" => outcome[w] = "none"
  /\ faults = 0 /\ ~clash =>
       /\ \A w \in Writers : outcome[w] # "error"
       /\ tmp # NoInode => \E w \in Writers : Holds(w)

IInv ==
  /\ TypeOK
  /\ tmp # NoInode => tmp # path
  /\ \A w \in Writers : pc[w] = "write" => fd[w] \in Inodes
  /\ QuietInv /\ OwnerInv /\ SoloInv /\ CleanInv

-----------------------------------------------------------------------------
(* Contents *)

LEMMA ContentType ==
  ASSUME NEW d \in Payloads
  PROVE  Content(d) \in Seq(Payloads) /\ Len(Content(d)) = d /\ d \in Nat
<1>1. MaxPayload \in Nat /\ d \in Nat
  BY PayloadAssumption DEF PayloadAssumption, Payloads
<1>2. Content(d) \in [1..d -> Payloads]
  BY DEF Content
<1> QED BY <1>1, <1>2

\* What is written over an empty file is the file.
LEMMA OverlayEmpty ==
  ASSUME NEW S, NEW new \in Seq(S)
  PROVE  Overlay(<<>>, new) = new
<1>1. SubSeq(<<>>, Len(new) + 1, Len(<<>>)) = <<>>
  OBVIOUS
<1>2. new \o <<>> = new
  BY ConcatEmptySeq
<1> QED BY <1>1, <1>2 DEF Overlay

LEMMA OverlayType ==
  ASSUME NEW S, NEW old \in Seq(S), NEW new \in Seq(S)
  PROVE  Overlay(old, new) \in Seq(S)
<1>1. SubSeq(old, Len(new) + 1, Len(old)) \in Seq(S)
  BY SubSeqProperties, LenProperties
<1> QED BY <1>1, ConcatProperties DEF Overlay

LEMMA PrefixType ==
  ASSUME NEW d \in Payloads, NEW n \in 0..(d - 1)
  PROVE  SubSeq(Content(d), 1, n) \in Seq(Payloads)
<1>1. n \in Nat /\ n <= d /\ Content(d) \in Seq(Payloads) /\ Len(Content(d)) = d
  BY ContentType
<1> QED BY <1>1, SubSeqProperties

-----------------------------------------------------------------------------

LEMMA InitIInv == Init => IInv
<1> SUFFICES ASSUME Init PROVE IInv
  OBVIOUS
<1>1. TypeOK
  <2>1. 1 \in Payloads /\ faults \in 0..MaxFaults /\ <<>> \in Seq(Payloads)
    BY PayloadAssumption, FaultsAssumption DEF Init, Payloads, PayloadAssumption, FaultsAssumption
  <2>2. arg \in [Writers -> Payloads] /\ data \in [Inodes -> Seq(Payloads)]
    BY <2>1 DEF Init
  <2>3. /\ path \in Inodes \cup {NoInode} /\ tmp \in Inodes \cup {NoInode}
        /\ owner \in [Inodes -> Owners] /\ pc \in [Writers -> Steps]
        /\ want \in [Writers -> Owners] /\ fd \in [Writers -> Inodes \cup {NoInode}]
        /\ outcome \in [Writers -> {"none", "ok", "error"}]
        /\ overlap \in [Writers -> BOOLEAN] /\ clash \in BOOLEAN
    BY DEF Init, Owners, DirOwner, Steps
  <2> QED BY <2>1, <2>2, <2>3 DEF TypeOK
<1>2. QuietInv /\ OwnerInv /\ SoloInv /\ CleanInv
  BY DEF Init, QuietInv, OwnerInv, SoloInv, CleanInv, Holds
<1>3. (tmp # NoInode => tmp # path) /\ \A w \in Writers : pc[w] = "write" => fd[w] \in Inodes
  BY DEF Init
<1> QED BY <1>1, <1>2, <1>3 DEF IInv

LEMMA TypeStep == IInv /\ [Next]_vars => TypeOK'
<1> SUFFICES ASSUME IInv, [Next]_vars PROVE TypeOK'
  OBVIOUS
<1> USE DEF fs_vars, writer_vars, past_vars, Goto
<1>0. TypeOK /\ (\A w \in Writers : pc[w] = "write" => fd[w] \in Inodes) /\ 1 \in Payloads /\ MaxFaults \in Nat
  BY PayloadAssumption, FaultsAssumption DEF IInv, PayloadAssumption, FaultsAssumption, Payloads
<1>1. ASSUME NEW w \in Writers, NEW o \in {"none", "ok", "error"}, Return(w, o)
      PROVE  /\ pc' \in [Writers -> Steps] /\ arg' \in [Writers -> Payloads]
             /\ want' \in [Writers -> Owners] /\ fd' \in [Writers -> Inodes \cup {NoInode}]
             /\ outcome' \in [Writers -> {"none", "ok", "error"}] /\ overlap' \in [Writers -> BOOLEAN]
  BY <1>0, <1>1 DEF Return, TypeOK, Steps, Owners, DirOwner
<1>2. ASSUME NEW w \in Writers, NEW d \in Payloads, Begin(w, d) PROVE TypeOK'
  BY <1>0, <1>2 DEF Begin, TypeOK, Steps
<1>3. ASSUME NEW w \in Writers, Stat(w) PROVE TypeOK'
  BY <1>0, <1>3 DEF Stat, TypeOK, Steps, Owners, DirOwner
<1>4. ASSUME NEW w \in Writers, OpenNew(w) PROVE TypeOK'
  <2>1. tmp' \in Inodes /\ Uid(w) \in Owners /\ <<>> \in Seq(Payloads)
    BY <1>4 DEF OpenNew, Uid, Owners
  <2> QED BY <1>0, <1>4, <2>1 DEF OpenNew, TypeOK, Steps
<1>5. ASSUME NEW w \in Writers, OpenExisting(w) PROVE TypeOK'
  <2>1. <<>> \in Seq(Payloads)
    OBVIOUS
  <2> QED BY <1>0, <1>5, <2>1 DEF OpenExisting, TypeOK, Steps
<1>6. ASSUME NEW w \in Writers, OpenDenied(w) PROVE TypeOK'
  BY <1>0, <1>1, <1>6 DEF OpenDenied, TypeOK
<1>7. ASSUME NEW w \in Writers, Write(w) PROVE TypeOK'
  <2>1. Overlay(data[fd[w]], Content(arg[w])) \in Seq(Payloads)
    BY <1>0, <1>7, OverlayType, ContentType DEF Write, TypeOK
  <2> QED BY <1>0, <1>7, <2>1 DEF Write, TypeOK, Steps
<1>8. ASSUME NEW w \in Writers, WriteFails(w) PROVE TypeOK'
  <2>1. PICK n \in 0..(arg[w] - 1) :
          data' = [data EXCEPT ![fd[w]] = Overlay(@, SubSeq(Content(arg[w]), 1, n))]
    BY <1>8 DEF WriteFails
  <2>2. SubSeq(Content(arg[w]), 1, n) \in Seq(Payloads)
    BY <1>0, PrefixType DEF TypeOK
  <2>3. Overlay(data[fd[w]], SubSeq(Content(arg[w]), 1, n)) \in Seq(Payloads)
    BY <1>0, <1>8, <2>2, OverlayType DEF WriteFails, TypeOK
  <2>4. data' \in [Inodes -> Seq(Payloads)]
    BY <1>0, <2>1, <2>3 DEF TypeOK
  <2>5. faults' \in 0..MaxFaults
    BY <1>0, <1>8 DEF WriteFails, TypeOK
  <2> QED BY <1>0, <1>1, <1>8, <2>4, <2>5 DEF WriteFails, TypeOK
<1>9. ASSUME NEW w \in Writers, Chown(w) PROVE TypeOK'
  BY <1>0, <1>9 DEF Chown, TypeOK, Steps
<1>10. ASSUME NEW w \in Writers, Chmod(w) PROVE TypeOK'
  BY <1>0, <1>10 DEF Chmod, TypeOK, Steps
<1>11. ASSUME NEW w \in Writers, Remove(w) PROVE TypeOK'
  BY <1>0, <1>1, <1>11 DEF Remove, TypeOK
<1>12. ASSUME NEW w \in Writers, Rename(w) PROVE TypeOK'
  BY <1>0, <1>1, <1>12 DEF Rename, TypeOK
<1>13. ASSUME NEW w \in Writers, Crash(w) PROVE TypeOK'
  BY <1>0, <1>1, <1>13 DEF Crash, TypeOK
<1>15. ASSUME NEW w \in Writers, OpenFails(w) \/ RenameFails(w) PROVE TypeOK'
  <2>1. faults' \in 0..MaxFaults
    BY <1>0, <1>15 DEF OpenFails, RenameFails, TypeOK
  <2> QED BY <1>0, <1>1, <1>15, <2>1 DEF OpenFails, RenameFails, TypeOK
<1>16. ASSUME NEW w \in Writers, AttributeFails(w) PROVE TypeOK'
  <2>1. faults' \in 0..MaxFaults
    BY <1>0, <1>16 DEF AttributeFails, TypeOK
  <2> QED BY <1>0, <1>16, <2>1 DEF AttributeFails, TypeOK, Steps
<1>14. CASE UNCHANGED vars
  BY <1>0, <1>14 DEF TypeOK, vars
<1> QED BY <1>2, <1>3, <1>4, <1>5, <1>6, <1>7, <1>8, <1>9, <1>10, <1>11, <1>12, <1>13, <1>14,
          <1>15, <1>16 DEF Next, Step, Fault

\* path.tmp is never the file itself, and a writer has its file open.
LEMMA InodeStep ==
  ASSUME IInv, [Next]_vars
  PROVE  /\ (tmp # NoInode => tmp # path)'
         /\ (\A w \in Writers : pc[w] = "write" => fd[w] \in Inodes)'
<1> USE DEF fs_vars, writer_vars, past_vars, Goto
<1>0. TypeOK /\ (tmp # NoInode => tmp # path) /\ (\A w \in Writers : pc[w] = "write" => fd[w] \in Inodes)
  BY DEF IInv
<1>1. ASSUME NEW w \in Writers, NEW o, Return(w, o)
      PROVE  \A v \in Writers : pc'[v] = "write" => fd'[v] \in Inodes
  BY <1>0, <1>1 DEF Return, TypeOK
<1>2. ASSUME NEW w \in Writers, (\E d \in Payloads : Begin(w, d)) \/ Stat(w) \/ Chown(w) \/ Chmod(w) \/ AttributeFails(w)
      PROVE  /\ (tmp # NoInode => tmp # path)'
             /\ \A v \in Writers : pc'[v] = "write" => fd'[v] \in Inodes
  BY <1>0, <1>2 DEF Begin, Stat, Chown, Chmod, AttributeFails, TypeOK
<1>3. ASSUME NEW w \in Writers, OpenNew(w)
      PROVE  /\ (tmp # NoInode => tmp # path)'
             /\ \A v \in Writers : pc'[v] = "write" => fd'[v] \in Inodes
  <2>1. tmp' \in Inodes /\ tmp' # path
    BY <1>3 DEF OpenNew, InUse
  <2> QED BY <1>0, <1>3, <2>1 DEF OpenNew, TypeOK
<1>4. ASSUME NEW w \in Writers, OpenExisting(w) \/ Write(w)
      PROVE  /\ (tmp # NoInode => tmp # path)'
             /\ \A v \in Writers : pc'[v] = "write" => fd'[v] \in Inodes
  BY <1>0, <1>4 DEF OpenExisting, Write, TypeOK
<1>5. ASSUME NEW w \in Writers, OpenDenied(w) \/ OpenFails(w) \/ WriteFails(w) \/ Remove(w) \/ Rename(w)
                              \/ RenameFails(w) \/ Crash(w)
      PROVE  (tmp # NoInode => tmp # path)' /\ \E o : Return(w, o)
  BY <1>0, <1>5 DEF OpenDenied, OpenFails, WriteFails, Remove, Rename, RenameFails, Crash
<1>6. CASE UNCHANGED vars
  BY <1>0, <1>6 DEF vars
<1> QED BY <1>1, <1>2, <1>3, <1>4, <1>5, <1>6 DEF Next, Step, Fault

\* A step of one writer leaves the others where they are, and keeps what it is
\* about, unless the call ends.
LEMMA Frame ==
  ASSUME TypeOK, NEW v \in Writers, Step(v) \/ Fault(v)
  PROVE  /\ pc[v] # "idle" /\ UNCHANGED clash
         /\ \A u \in Writers \ {v} :
              pc'[u] = pc[u] /\ overlap'[u] = overlap[u] /\ arg'[u] = arg[u]
              /\ want'[u] = want[u] /\ outcome'[u] = outcome[u]
         /\ \/ pc'[v] = "idle" /\ ~overlap'[v]
            \/ overlap'[v] = overlap[v] /\ arg'[v] = arg[v] /\ outcome'[v] = outcome[v]
               /\ pc'[v] \in Steps \ {"idle", "stat"}
<1> USE DEF fs_vars, writer_vars, past_vars, Goto
<1>1. CASE Stat(v) \/ OpenNew(v) \/ OpenExisting(v) \/ Write(v) \/ Chown(v) \/ Chmod(v)
          \/ AttributeFails(v)
  BY <1>1 DEF Stat, OpenNew, OpenExisting, Write, Chown, Chmod, AttributeFails, TypeOK, Steps
<1>2. CASE OpenDenied(v) \/ Remove(v) \/ Rename(v) \/ OpenFails(v) \/ WriteFails(v) \/ RenameFails(v)
          \/ Crash(v)
  BY <1>2 DEF OpenDenied, Remove, Rename, OpenFails, WriteFails, RenameFails, Crash, Return, TypeOK
<1> QED BY <1>1, <1>2 DEF Step, Fault

LEMMA QuietStep ==
  ASSUME IInv, [Next]_vars
  PROVE  QuietInv'
<1> USE DEF fs_vars, writer_vars, past_vars, Goto
<1>0. /\ TypeOK /\ QuietInv /\ (tmp # NoInode => tmp # path)
      /\ NoInode \notin Inodes /\ RootWriters \subseteq Writers
  BY RootAssumption, InodeAssumption DEF IInv, RootAssumption, InodeAssumption
<1>1. CASE UNCHANGED vars
  BY <1>0, <1>1 DEF QuietInv, Holds, MayOpen, Uid, Content, vars
<1>2. ASSUME NEW v \in Writers, NEW d \in Payloads, Begin(v, d)
      PROVE  QuietInv'
  <2> SUFFICES ASSUME NEW w \in Writers, pc'[w] # "idle", ~overlap'[w]
               PROVE  pc'[w] = "stat" /\ \A u \in Writers \ {w} : pc'[u] = "idle"
    BY DEF QuietInv, Holds
  <2>1. pc[v] = "idle" /\ pc' = [pc EXCEPT ![v] = "stat"]
        /\ overlap' = [u \in Writers |-> overlap[u] \/ (Active # {} /\ u \in Active \cup {v})]
    BY <1>2 DEF Begin
  <2>2. Active = {}
    <3>1. w \in Active \cup {v}
      BY <1>0, <2>1 DEF Active, TypeOK
    <3> QED BY <2>1, <3>1
  <2>3. \A u \in Writers : pc[u] = "idle"
    BY <2>2 DEF Active
  <2> QED BY <1>0, <2>1, <2>3 DEF TypeOK
<1>3. ASSUME NEW v \in Writers, Step(v) \/ Fault(v)
      PROVE  QuietInv'
  <2> SUFFICES ASSUME NEW w \in Writers, pc'[w] # "idle", ~overlap'[w]
               PROVE  /\ \A u \in Writers \ {w} : pc'[u] = "idle"
                      /\ Holds(w)' => tmp' # NoInode /\ MayOpen(Uid(w), tmp)'
                      /\ pc'[w] = "write" => fd'[w] = tmp' /\ data'[tmp'] = <<>>
                      /\ pc'[w] \in {"chown", "chmod", "rename"} => data'[tmp'] = Content(arg'[w])
    BY DEF QuietInv, Content
  <2>1. w = v
    BY <1>0, <1>3, Frame DEF QuietInv
  <2>2. /\ pc[w] # "idle" /\ ~overlap[w] /\ overlap' = overlap /\ arg' = arg
        /\ \A u \in Writers \ {w} : pc[u] = "idle" /\ pc'[u] = "idle"
        /\ pc'[w] \in Steps \ {"idle", "stat"}
    <3>1. overlap'[w] = overlap[w] /\ pc'[w] # "idle" /\ pc[w] # "idle" /\ pc'[w] \in Steps \ {"idle", "stat"}
          /\ \A u \in Writers \ {w} : pc[u] = "idle" /\ pc'[u] = "idle"
      BY <1>0, <1>3, <2>1, Frame DEF QuietInv
    <3>2. overlap' = overlap /\ arg' = arg
      BY <1>0, <1>3, <2>1, <3>1 DEF Step, Fault, Stat, OpenNew, OpenExisting, OpenDenied, Write, Chown, Chmod,
                        Remove, Rename, OpenFails, WriteFails, AttributeFails, RenameFails, Crash, Return, TypeOK
    <3> QED BY <3>1, <3>2
  <2>3. /\ Holds(w) => tmp # NoInode /\ MayOpen(Uid(w), tmp)
        /\ pc[w] = "write" => fd[w] = tmp /\ data[tmp] = <<>>
        /\ pc[w] \in {"chown", "chmod", "rename"} => data[tmp] = Content(arg[w])
    BY <1>0, <2>2 DEF QuietInv
  <2>4. CASE Stat(v)
    BY <1>0, <2>1, <2>2, <2>4 DEF Stat, TypeOK, Holds
  <2>5. CASE OpenNew(v)
    <3>1. tmp' \in Inodes /\ data'[tmp'] = <<>> /\ owner'[tmp'] = Uid(w) /\ fd'[w] = tmp' /\ pc'[w] = "write"
      BY <1>0, <2>1, <2>5 DEF OpenNew, TypeOK
    <3> QED BY <1>0, <2>2, <3>1 DEF MayOpen, Uid
  <2>6. CASE OpenExisting(v)
    BY <1>0, <2>1, <2>2, <2>6 DEF OpenExisting, TypeOK, Holds, MayOpen, Uid
  <2>7. CASE Write(v)
    <3>1. pc[w] = "write" /\ fd[w] = tmp /\ tmp \in Inodes /\ data[tmp] = <<>> /\ MayOpen(Uid(w), tmp)
      BY <1>0, <2>1, <2>3, <2>7 DEF Write, Holds, TypeOK
    <3>2. data' = [data EXCEPT ![tmp] = Overlay(data[tmp], Content(arg[w]))]
          /\ pc'[w] = "chown" /\ UNCHANGED <<tmp, owner>>
      BY <1>0, <2>1, <2>7, <3>1 DEF Write, TypeOK
    <3>3. Overlay(data[tmp], Content(arg[w])) = Content(arg[w])
      BY <1>0, <3>1, OverlayEmpty, ContentType DEF TypeOK
    <3>4. data'[tmp] = Content(arg[w])
      BY <1>0, <3>1, <3>2, <3>3 DEF TypeOK
    <3> QED BY <1>0, <2>2, <3>1, <3>2, <3>4 DEF MayOpen, Uid
  <2>8. CASE Chown(v)
    <3>1. pc[w] = "chown" /\ tmp \in Inodes /\ MayOpen(Uid(w), tmp) /\ data[tmp] = Content(arg[w])
          /\ UNCHANGED <<tmp, data>>
      BY <1>0, <2>1, <2>3, <2>8 DEF Chown, Holds, TypeOK
    <3>2. CASE MayChown(Uid(w), tmp, want[w])
      <4>1. owner' = [owner EXCEPT ![tmp] = want[w]] /\ pc'[w] = "chmod"
        BY <1>0, <2>1, <2>8, <3>1, <3>2 DEF Chown, TypeOK
      <4>2. MayOpen(Uid(w), tmp)'
        BY <1>0, <3>1, <3>2, <4>1 DEF MayOpen, MayChown, Uid, TypeOK
      <4> QED BY <1>0, <2>2, <3>1, <4>1, <4>2
    <3>3. CASE ~MayChown(Uid(w), tmp, want[w])
      <4>1. pc'[w] = "remove"
        BY <1>0, <2>1, <2>8, <3>1, <3>3 DEF Chown, TypeOK
      <4> QED BY <2>2, <4>1 DEF Holds
    <3> QED BY <3>2, <3>3
  <2>9. CASE Chmod(v)
    <3>1. pc[w] = "chmod" /\ tmp \in Inodes /\ MayOpen(Uid(w), tmp) /\ data[tmp] = Content(arg[w])
          /\ UNCHANGED <<tmp, data, owner>>
      BY <1>0, <2>1, <2>3, <2>9 DEF Chmod, Holds, TypeOK
    <3>2. pc'[w] = "rename"
      BY <1>0, <2>1, <2>9, <3>1 DEF Chmod, TypeOK
    <3> QED BY <1>0, <2>2, <3>1, <3>2 DEF MayOpen, Uid
  <2>10. ASSUME NEW o, Return(v, o) PROVE FALSE
    BY <1>0, <2>1, <2>10 DEF Return, TypeOK
  <2>11. CASE AttributeFails(v)
    BY <1>0, <2>1, <2>2, <2>11 DEF AttributeFails, TypeOK, Holds
  <2> QED BY <1>3, <2>4, <2>5, <2>6, <2>7, <2>8, <2>9, <2>10, <2>11
          DEF Step, Fault, OpenDenied, Remove, Rename, OpenFails, WriteFails, RenameFails, Crash
<1> QED BY <1>1, <1>2, <1>3 DEF Next

LEMMA OwnerStep ==
  ASSUME IInv, [Next]_vars
  PROVE  OwnerInv'
<1> USE DEF fs_vars, writer_vars, past_vars, Goto
<1>0. TypeOK /\ QuietInv /\ OwnerInv /\ (tmp # NoInode => tmp # path)
  BY DEF IInv
<1>1. CASE UNCHANGED vars
  BY <1>0, <1>1 DEF OwnerInv, Kept, vars
<1>2. ASSUME NEW v \in Writers, NEW d \in Payloads, Begin(v, d)
      PROVE  OwnerInv'
  BY <1>0, <1>2 DEF Begin, Active, OwnerInv, Kept, TypeOK
<1>3. ASSUME NEW v \in Writers, Step(v) \/ Fault(v)
      PROVE  OwnerInv'
  <2> SUFFICES ASSUME NEW w \in Writers, pc'[w] # "idle", ~overlap'[w]
               PROVE  /\ pc'[w] # "stat" => want'[w] = Kept'
                      /\ pc'[w] \in {"chmod", "rename"} => owner'[tmp'] = Kept'
    BY DEF OwnerInv
  <2>1. w = v
    BY <1>0, <1>3, Frame DEF QuietInv
  <2>2. /\ pc[w] # "idle" /\ ~overlap[w]
        /\ pc[w] # "stat" => want[w] = Kept
        /\ pc[w] \in {"chmod", "rename"} => owner[tmp] = Kept
        /\ Holds(w) => tmp \in Inodes /\ tmp # path
    BY <1>0, <1>3, <2>1, Frame DEF OwnerInv, QuietInv, TypeOK
  <2>3. CASE Stat(v)
    BY <1>0, <2>1, <2>2, <2>3 DEF Stat, Kept, TypeOK
  <2>4. CASE OpenNew(v)
    <3>1. tmp' \in Inodes /\ tmp' # path
      BY <2>4 DEF OpenNew, InUse
    <3> QED BY <1>0, <2>1, <2>2, <2>4, <3>1 DEF OpenNew, Kept, TypeOK
  <2>5. CASE OpenExisting(v) \/ Write(v) \/ AttributeFails(v)
    BY <1>0, <2>1, <2>2, <2>5 DEF OpenExisting, Write, AttributeFails, Kept, TypeOK
  <2>6. CASE Chown(v)
    <3>1. pc[w] = "chown" /\ tmp \in Inodes /\ tmp # path /\ UNCHANGED <<path, tmp, want>>
      BY <2>1, <2>2, <2>6 DEF Chown, Holds
    <3>2. Kept' = Kept
      BY <1>0, <2>6, <3>1 DEF Chown, Kept, TypeOK
    <3>3. owner'[tmp] = want[w] \/ pc'[w] = "remove"
      BY <1>0, <2>1, <2>6, <3>1 DEF Chown, TypeOK
    <3> QED BY <2>2, <3>1, <3>2, <3>3
  <2>7. CASE Chmod(v)
    <3>1. pc[w] = "chmod" /\ UNCHANGED <<fs_vars, want>>
      BY <2>1, <2>7 DEF Chmod
    <3> QED BY <2>2, <3>1 DEF Kept
  <2>8. ASSUME NEW o, Return(v, o) PROVE FALSE
    BY <1>0, <2>1, <2>8 DEF Return, TypeOK
  <2> QED BY <1>3, <2>3, <2>4, <2>5, <2>6, <2>7, <2>8
          DEF Step, Fault, OpenDenied, Remove, Rename, OpenFails, WriteFails, RenameFails, Crash
<1> QED BY <1>1, <1>2, <1>3 DEF Next

\* As long as no calls overlapped, a call that has begun is quiet.
LEMMA Solo ==
  ASSUME IInv, ~clash, NEW w \in Writers, pc[w] # "idle"
  PROVE  /\ \A v \in Writers \ {w} : pc[v] = "idle"
         /\ Holds(w) => tmp \in Inodes /\ tmp # path /\ MayOpen(Uid(w), tmp)
         /\ pc[w] = "write" => fd[w] = tmp /\ data[tmp] = <<>>
         /\ pc[w] \in {"chown", "chmod", "rename"} => data[tmp] = Content(arg[w])
         /\ faults = 0 => pc[w] # "remove"
         /\ pc[w] \notin {"idle", "stat"} => want[w] = "service"
         /\ pc[w] \in {"chmod", "rename"} => owner[tmp] = "service"
         /\ path # NoInode => owner[path] = "service"
<1>1. ~overlap[w]
  BY DEF IInv, SoloInv
<1>2. /\ \A v \in Writers \ {w} : pc[v] = "idle"
      /\ Holds(w) => tmp # NoInode /\ MayOpen(Uid(w), tmp)
      /\ pc[w] = "write" => fd[w] = tmp /\ data[tmp] = <<>>
      /\ pc[w] \in {"chown", "chmod", "rename"} => data[tmp] = Content(arg[w])
  BY <1>1 DEF IInv, QuietInv
<1> QED BY <1>1, <1>2 DEF IInv, SoloInv, TypeOK

\* Chown and chmod do not fail in a call that runs alone.
LEMMA SoloSucceeds ==
  ASSUME IInv, ~clash, NEW w \in Writers
  PROVE  /\ pc[w] = "chown" => MayChown(Uid(w), tmp, want[w])
         /\ pc[w] \in {"chown", "chmod", "rename"} => tmp # NoInode /\ MayOpen(Uid(w), tmp)
<1>1. pc[w] \in {"chown", "chmod", "rename"} =>
        tmp # NoInode /\ MayOpen(Uid(w), tmp) /\ want[w] = "service"
  BY Solo, InodeAssumption DEF Holds, InodeAssumption
<1> QED BY <1>1 DEF MayOpen, MayChown, Uid

LEMMA SoloStep ==
  ASSUME IInv, [Next]_vars
  PROVE  SoloInv'
<1> USE DEF fs_vars, writer_vars, past_vars, Goto
<1>0. TypeOK /\ SoloInv /\ NoInode \notin Inodes
  BY InodeAssumption DEF IInv, InodeAssumption
<1>1. CASE UNCHANGED vars
  BY <1>0, <1>1 DEF SoloInv, vars
<1>2. ASSUME NEW v \in Writers, NEW d \in Payloads, Begin(v, d) PROVE SoloInv'
  <2> SUFFICES ASSUME ~clash' PROVE SoloInv'
    BY DEF SoloInv
  <2>1. ~clash /\ Active = {}
    BY <1>0, <1>2 DEF Begin, TypeOK
  <2>2. overlap' = [u \in Writers |-> overlap[u]] /\ pc' = [pc EXCEPT ![v] = "stat"]
        /\ UNCHANGED <<path, tmp, owner, want, faults>>
    BY <1>0, <1>2, <2>1 DEF Begin, TypeOK
  <2> QED BY <1>0, <2>1, <2>2 DEF SoloInv, TypeOK
<1>3. ASSUME NEW v \in Writers, Step(v) \/ Fault(v) PROVE SoloInv'
  <2> SUFFICES ASSUME ~clash PROVE SoloInv'
    BY <1>3, Frame, <1>0 DEF SoloInv
  <2>1. /\ pc[v] # "idle" /\ \A u \in Writers \ {v} : pc[u] = "idle" /\ pc'[u] = "idle"
        /\ \A u \in Writers : ~overlap'[u]
    BY <1>0, <1>3, Frame, Solo DEF SoloInv
  <2>2. SUFFICES /\ faults' = 0 => pc'[v] # "remove"
                 /\ path' # NoInode => owner'[path'] = "service"
                 /\ pc'[v] \notin {"idle", "stat"} => want'[v] = "service"
                 /\ pc'[v] \in {"chmod", "rename"} => owner'[tmp'] = "service"
    BY <2>1 DEF SoloInv
  <2>3. /\ Holds(v) => tmp \in Inodes /\ tmp # path /\ MayOpen(Uid(v), tmp)
        /\ faults \in Nat /\ (faults = 0 => pc[v] # "remove")
        /\ pc[v] \notin {"idle", "stat"} => want[v] = "service"
        /\ pc[v] \in {"chmod", "rename"} => owner[tmp] = "service"
        /\ path # NoInode => owner[path] = "service"
    BY <1>0, <2>1, Solo DEF TypeOK
  <2>4. CASE Stat(v)
    BY <1>0, <2>3, <2>4 DEF Stat, TypeOK, DirOwner
  <2>5. CASE OpenNew(v)
    <3>1. tmp' \in Inodes /\ tmp' # path
      BY <2>5 DEF OpenNew, InUse
    <3> QED BY <1>0, <2>3, <2>5, <3>1 DEF OpenNew, TypeOK
  <2>6. CASE OpenExisting(v) \/ Write(v)
    BY <1>0, <2>3, <2>6 DEF OpenExisting, Write, TypeOK
  <2>7. CASE Chown(v)
    <3>1. pc[v] = "chown" /\ tmp \in Inodes /\ tmp # path /\ MayChown(Uid(v), tmp, want[v]) /\ want[v] = "service"
      BY <2>3, <2>7, SoloSucceeds DEF Chown, Holds
    <3>2. /\ owner' = [owner EXCEPT ![tmp] = "service"] /\ pc' = [pc EXCEPT ![v] = "chmod"]
          /\ UNCHANGED <<path, tmp, want>>
      BY <1>0, <2>7, <3>1 DEF Chown
    <3> QED BY <1>0, <2>3, <3>1, <3>2 DEF TypeOK
  <2>8. CASE Chmod(v)
    <3>1. pc[v] = "chmod" /\ tmp # NoInode /\ MayOpen(Uid(v), tmp)
      BY <2>8, SoloSucceeds DEF Chmod
    <3> QED BY <1>0, <2>3, <2>8, <3>1 DEF Chmod, TypeOK
  <2>9. CASE Rename(v)
    BY <1>0, <2>3, <2>9 DEF Rename, Return, TypeOK
  <2>10. CASE OpenDenied(v) \/ Remove(v) \/ Crash(v)
    BY <1>0, <2>3, <2>10 DEF OpenDenied, Remove, Crash, Return, TypeOK
  <2>11. CASE OpenFails(v) \/ WriteFails(v) \/ AttributeFails(v) \/ RenameFails(v)
    <3>1. faults' # 0
      BY <2>3, <2>11 DEF OpenFails, WriteFails, AttributeFails, RenameFails
    <3> QED BY <1>0, <2>3, <2>11, <3>1 DEF OpenFails, WriteFails, AttributeFails, RenameFails, Return, TypeOK
  <2> QED BY <1>3, <2>4, <2>5, <2>6, <2>7, <2>8, <2>9, <2>10, <2>11 DEF Step, Fault
<1> QED BY <1>1, <1>2, <1>3 DEF Next

LEMMA CleanStep ==
  ASSUME IInv, [Next]_vars
  PROVE  CleanInv'
<1> USE DEF fs_vars, writer_vars, past_vars, Goto
<1>0. TypeOK /\ CleanInv /\ NoInode \notin Inodes /\ faults \in Nat
  BY InodeAssumption DEF IInv, InodeAssumption, TypeOK
<1>1. CASE UNCHANGED vars
  BY <1>0, <1>1 DEF CleanInv, Holds, vars
<1>2. ASSUME NEW v \in Writers, NEW d \in Payloads, Begin(v, d) PROVE CleanInv'
  <2>1. /\ pc[v] = "idle" /\ pc' = [pc EXCEPT ![v] = "stat"] /\ outcome' = [outcome EXCEPT ![v] = "none"]
        /\ UNCHANGED <<tmp, faults>> /\ (~clash' => ~clash)
    BY <1>0, <1>2 DEF Begin, TypeOK
  <2>2. \A w \in Writers : Holds(w) => Holds(w)'
    BY <1>0, <2>1 DEF Holds, TypeOK
  <2> QED BY <1>0, <2>1, <2>2 DEF CleanInv, TypeOK
<1>3. ASSUME NEW v \in Writers, Step(v) \/ Fault(v) PROVE CleanInv'
  <2>1. \A w \in Writers : pc'[w] # "idle" => outcome'[w] = "none"
    BY <1>0, <1>3, Frame DEF CleanInv
  <2> SUFFICES ASSUME faults' = 0, ~clash'
               PROVE  /\ \A w \in Writers : outcome'[w] # "error"
                      /\ tmp' # NoInode => \E w \in Writers : Holds(w)'
    BY <2>1 DEF CleanInv
  <2>2. /\ faults = 0 /\ ~clash /\ UNCHANGED faults /\ ~Fault(v) /\ pc[v] # "idle"
        /\ \A w \in Writers : outcome[w] # "error"
        /\ tmp # NoInode => \E w \in Writers : Holds(w)
    <3>1. ~Fault(v)
      BY <1>0 DEF Fault, OpenFails, WriteFails, AttributeFails, RenameFails, Crash
    <3>2. UNCHANGED <<faults, clash>>
      BY <1>3, <3>1 DEF Step, Stat, OpenNew, OpenExisting, OpenDenied, Write, Chown, Chmod, Remove, Rename
    <3> QED BY <1>0, <1>3, <3>1, <3>2, Frame DEF CleanInv
  <2>3. tmp # NoInode => Holds(v)
    BY <2>2, Solo DEF Holds
  <2>4. SUFFICES outcome'[v] # "error" /\ (tmp' # NoInode => Holds(v)')
    BY <1>0, <1>3, <2>2, Frame
  <2>5. CASE Stat(v) \/ OpenNew(v) \/ OpenExisting(v) \/ Write(v)
    BY <1>0, <2>2, <2>3, <2>5 DEF Stat, OpenNew, OpenExisting, Write, Holds, TypeOK
  <2>6. CASE OpenDenied(v)
    BY <2>3, <2>6 DEF OpenDenied, Holds
  <2>7. CASE Chown(v)
    <3>1. pc[v] = "chown" /\ tmp # NoInode /\ MayChown(Uid(v), tmp, want[v])
      BY <2>2, <2>7, SoloSucceeds DEF Chown
    <3> QED BY <1>0, <2>2, <2>7, <3>1 DEF Chown, Holds, TypeOK
  <2>8. CASE Chmod(v)
    <3>1. pc[v] = "chmod" /\ tmp # NoInode /\ MayOpen(Uid(v), tmp)
      BY <2>2, <2>8, SoloSucceeds DEF Chmod
    <3> QED BY <1>0, <2>2, <2>8, <3>1 DEF Chmod, Holds, TypeOK
  <2>9. CASE Remove(v)
    BY <2>2, <2>9, Solo DEF Remove
  <2>10. CASE Rename(v)
    <3>1. pc[v] = "rename" /\ tmp # NoInode
      BY <2>2, <2>10, SoloSucceeds DEF Rename
    <3> QED BY <1>0, <2>10, <3>1 DEF Rename, Return, TypeOK
  <2> QED BY <1>3, <2>2, <2>5, <2>6, <2>7, <2>8, <2>9, <2>10 DEF Step
<1> QED BY <1>1, <1>2, <1>3 DEF Next

LEMMA Invariance == Spec => []IInv
<1>1. IInv /\ [Next]_vars => IInv'
  <2> SUFFICES ASSUME IInv, [Next]_vars PROVE IInv'
    OBVIOUS
  <2> QED BY TypeStep, InodeStep, QuietStep, OwnerStep, SoloStep, CleanStep DEF IInv
<1> QED BY InitIInv, <1>1, PTL DEF Spec

-----------------------------------------------------------------------------
(* The register.  A call begins, commits in Rename and aborts where it fails *)
(* or crashes; every other step leaves what AtomicFile sees alone.           *)

Pending == [w \in Writers |-> IF pc[w] = "idle" THEN {} ELSE {Content(arg[w])}]

\* Only what path names, and whether it can be read, is seen.
LEMMA SameView ==
  ASSUME UNCHANGED path,
         path # NoInode => data'[path] = data[path] /\ owner'[path] = owner[path]
  PROVE  View' = View
  BY DEF View, MayOpen

LEMMA SamePending ==
  ASSUME NEW w \in Writers, pc[w] # "idle", pc'[w] # "idle", arg'[w] = arg[w],
         \A u \in Writers \ {w} : pc'[u] = pc[u] /\ arg'[u] = arg[u]
  PROVE  Pending' = Pending
  BY DEF Pending, Content

LEMMA EndsPending ==
  ASSUME NEW w \in Writers, pc[w] # "idle", pc'[w] = "idle",
         \A u \in Writers \ {w} : pc'[u] = pc[u] /\ arg'[u] = arg[u]
  PROVE  Pending' = [Pending EXCEPT ![w] = {}] /\ Pending[w] = {Content(arg[w])}
  BY DEF Pending, Content

LEMMA RegisterStep ==
  ASSUME IInv, [Next]_vars, ~clash'
  PROVE  [Register!Next]_(Register!vars)
<1> USE DEF fs_vars, writer_vars, past_vars, Goto
<1>0. /\ TypeOK /\ NoInode \notin Inodes
      /\ tmp # NoInode => tmp # path
      /\ \A w \in Writers : pc[w] = "write" => fd[w] \in Inodes
  BY InodeAssumption DEF IInv, InodeAssumption
<1>1. /\ Register!vars = <<View, Pending, outcome>>
      /\ Register!Next <=> \E w \in Writers :
           \/ \E v \in {Content(d) : d \in Payloads} :
                Pending[w] = {} /\ Pending' = [Pending EXCEPT ![w] = {v}]
                /\ outcome' = [outcome EXCEPT ![w] = "none"] /\ View' = View
           \/ Pending[w] # {} /\ View' \in Pending[w] /\ Pending' = [Pending EXCEPT ![w] = {}]
              /\ outcome' = [outcome EXCEPT ![w] = "ok"]
           \/ Pending[w] # {} /\ Pending' = [Pending EXCEPT ![w] = {}]
              /\ (\E o \in {"none", "error"} : outcome' = [outcome EXCEPT ![w] = o]) /\ View' = View
  BY DEF Register!vars, Register!Next, Register!Begin, Register!Commit, Register!Abort, Pending
<1>2. ASSUME View' = View, Pending' = Pending, outcome' = outcome
      PROVE  UNCHANGED Register!vars
  BY <1>1, <1>2 DEF Register!vars, Pending
<1>3. CASE UNCHANGED vars
  <2>1. View' = View /\ Pending' = Pending /\ outcome' = outcome
    BY <1>3 DEF vars, View, MayOpen, Pending, Content
  <2> QED BY <1>2, <2>1
<1>4. ASSUME NEW w \in Writers, NEW d \in Payloads, Begin(w, d) PROVE Register!Next
  <2>1. View' = View
    BY <1>4, SameView DEF Begin
  <2>2. /\ pc[w] = "idle" /\ pc' = [pc EXCEPT ![w] = "stat"] /\ arg' = [arg EXCEPT ![w] = d]
        /\ outcome' = [outcome EXCEPT ![w] = "none"]
    BY <1>4 DEF Begin
  <2>3. Pending[w] = {} /\ Pending' = [Pending EXCEPT ![w] = {Content(d)}]
    BY <1>0, <2>2 DEF Pending, TypeOK, Content
  <2> QED BY <1>1, <2>1, <2>2, <2>3
<1>5. ASSUME NEW w \in Writers, Step(w) \/ Fault(w) PROVE Register!Next \/ UNCHANGED Register!vars
  <2>0. /\ pc[w] # "idle" /\ ~clash
        /\ \A u \in Writers \ {w} : pc'[u] = pc[u] /\ arg'[u] = arg[u]
    BY <1>0, <1>5, Frame
  <2>1. ASSUME pc'[w] # "idle", UNCHANGED <<path, arg, outcome>>,
               path # NoInode => data'[path] = data[path] /\ owner'[path] = owner[path]
        PROVE  UNCHANGED Register!vars
    <3>1. View' = View
      BY <2>1, SameView
    <3>2. Pending' = Pending
      BY <2>0, <2>1, SamePending
    <3> QED BY <1>2, <2>1, <3>1, <3>2
  <2>2. ASSUME NEW o \in {"none", "error"}, Return(w, o), UNCHANGED path,
               path # NoInode => data'[path] = data[path] /\ owner'[path] = owner[path]
        PROVE  Register!Next
    <3>1. View' = View
      BY <2>2, SameView
    <3>2. pc'[w] = "idle" /\ outcome' = [outcome EXCEPT ![w] = o]
      BY <1>0, <2>2 DEF Return, TypeOK
    <3>3. Pending' = [Pending EXCEPT ![w] = {}] /\ Pending[w] # {}
      BY <2>0, <3>2, EndsPending
    <3> QED BY <1>1, <2>2, <3>1, <3>2, <3>3
  <2>3. CASE Stat(w) \/ Chmod(w) \/ AttributeFails(w)
    BY <1>0, <2>1, <2>3 DEF Stat, Chmod, AttributeFails, TypeOK
  <2>4. CASE OpenNew(w)
    <3>1. tmp' \in Inodes /\ tmp' # path
      BY <2>4 DEF OpenNew, InUse
    <3> QED BY <1>0, <2>1, <2>4, <3>1 DEF OpenNew, TypeOK
  <2>5. CASE OpenExisting(w)
    BY <1>0, <2>1, <2>5 DEF OpenExisting, TypeOK
  <2>6. CASE OpenDenied(w)
    BY <2>2, <2>6 DEF OpenDenied
  <2>7. CASE Write(w)
    <3>1. fd[w] # path
      BY <1>0, <2>0, <2>7, Solo DEF Write, Holds
    <3> QED BY <1>0, <2>1, <2>7, <3>1 DEF Write, TypeOK
  <2>8. CASE WriteFails(w)
    <3>1. fd[w] # path
      BY <1>0, <2>0, <2>8, Solo DEF WriteFails, Holds
    <3>2. path # NoInode => data'[path] = data[path] /\ owner'[path] = owner[path]
      BY <1>0, <2>8, <3>1 DEF WriteFails, TypeOK
    <3> QED BY <2>2, <2>8, <3>2 DEF WriteFails
  <2>9. CASE Chown(w)
    <3>1. tmp # path /\ tmp \in Inodes
      BY <2>0, <2>9, Solo DEF Chown, Holds
    <3> QED BY <1>0, <2>1, <2>9, <3>1 DEF Chown, TypeOK
  <2>10. CASE Remove(w)
    BY <2>2, <2>10 DEF Remove
  <2>11. CASE OpenFails(w) \/ RenameFails(w) \/ Crash(w)
    BY <2>2, <2>11 DEF OpenFails, RenameFails, Crash
  <2>12. CASE Rename(w)
    <3>1. /\ pc[w] = "rename" /\ tmp \in Inodes /\ data[tmp] = Content(arg[w]) /\ owner[tmp] = "service"
      BY <2>0, <2>12, Solo DEF Rename, Holds
    <3>2. path' = tmp /\ UNCHANGED <<data, owner>> /\ Return(w, "ok")
      BY <1>0, <2>12, <3>1 DEF Rename
    <3>3. View' = Content(arg[w])
      BY <1>0, <3>1, <3>2 DEF View, MayOpen
    <3>4. pc'[w] = "idle" /\ outcome' = [outcome EXCEPT ![w] = "ok"]
      BY <1>0, <3>2 DEF Return, TypeOK
    <3>5. Pending' = [Pending EXCEPT ![w] = {}] /\ Pending[w] = {Content(arg[w])}
      BY <2>0, <3>4, EndsPending
    <3> QED BY <1>1, <3>3, <3>4, <3>5
  <2> QED BY <1>5, <2>3, <2>4, <2>5, <2>6, <2>7, <2>8, <2>9, <2>10, <2>11, <2>12 DEF Step, Fault
<1> QED BY <1>3, <1>4, <1>5 DEF Next

LEMMA RegisterInit == Init => Register!Init
<1> SUFFICES ASSUME Init PROVE Register!Init
  OBVIOUS
<1>1. View = Missing /\ Pending = [w \in Writers |-> {}] /\ outcome = [w \in Writers |-> "none"]
  BY DEF Init, View, Pending
<1> QED BY <1>1 DEF Register!Init, Pending

-----------------------------------------------------------------------------

\* The type invariant, for any writers, payloads and faults.
THEOREM TypeCorrect == Spec => []TypeOK
<1>1. IInv => TypeOK
  BY DEF IInv
<1> QED BY Invariance, <1>1, PTL

\* Calls that exclude each other implement an atomic register, whatever
\* crashes, full disks and leftovers of earlier calls come in between.
THEOREM IsAtomicRegister == Spec => AtomicReplace
<1>1. IInv /\ [Next]_vars => [~clash' => Register!Next]_(Register!vars)
  BY RegisterStep
<1> QED BY Invariance, RegisterInit, <1>1, PTL DEF Spec, AtomicReplace

\* Calls that exclude each other succeed and clean up when nothing breaks.
THEOREM CleanRuns == Spec => []CleanWithoutFaults
<1>1. IInv => CleanWithoutFaults
  BY DEF IInv, CleanInv, CleanWithoutFaults, Holds
<1> QED BY Invariance, <1>1, PTL

\* A root-run command is locked out by nothing that earlier calls left behind.
THEOREM RootGetsIn == Spec => RootRecovers
<1>1. IInv /\ [Next]_vars =>
        [\A w \in RootWriters :
           (~overlap[w] /\ ~Failing(w) /\ Failing(w)') => faults' > faults]_vars
  <2> SUFFICES ASSUME IInv, Next, NEW w \in RootWriters,
                      ~overlap[w], ~Failing(w), Failing(w)'
               PROVE  faults' > faults
    OBVIOUS
  <2> USE DEF Failing, Goto
  <2>0. TypeOK /\ QuietInv /\ w \in Writers /\ faults \in Nat /\ Uid(w) = "root"
    BY RootAssumption DEF IInv, RootAssumption, TypeOK, Uid
  <2>1. \A v \in Writers, d \in Payloads : ~Begin(v, d)
    BY <2>0 DEF Begin, TypeOK
  <2>2. PICK v \in Writers : Step(v) \/ Fault(v)
    BY <2>1 DEF Next
  <2>3. v = w /\ pc[w] # "idle" /\ pc[w] # "remove"
    BY <2>0, <2>2, Frame
  <2>4. Holds(w) => tmp # NoInode /\ MayOpen(Uid(w), tmp)
    BY <2>0, <2>3 DEF QuietInv
  <2>5. ~(Stat(w) \/ OpenNew(w) \/ OpenExisting(w) \/ Write(w))
    BY <2>0 DEF Stat, OpenNew, OpenExisting, Write, TypeOK
  <2>6. ~OpenDenied(w)
    BY <2>0 DEF OpenDenied, MayOpen
  <2>7. ~Chown(w)
    BY <2>0, <2>4 DEF Chown, Holds, MayChown, TypeOK
  <2>8. ~Chmod(w)
    BY <2>0, <2>4 DEF Chmod, Holds, TypeOK
  <2>9. ~Remove(w) /\ ~Rename(w)
    BY <2>0, <2>3, <2>4 DEF Remove, Rename, Return, Holds, TypeOK
  <2>10. Fault(w)
    BY <2>2, <2>3, <2>5, <2>6, <2>7, <2>8, <2>9 DEF Step
  <2> QED BY <2>0, <2>10 DEF Fault, OpenFails, WriteFails, AttributeFails, RenameFails, Crash
<1> QED BY Invariance, <1>1, PTL DEF Spec, RootRecovers

\* A call that returns nil and that is not overlapped is a Rename.
LEMMA QuietOk ==
  ASSUME IInv, Next, NEW w \in Writers, pc[w] # "idle", outcome'[w] = "ok", ~overlap[w]
  PROVE  Rename(w) /\ tmp # NoInode /\ data[tmp] = Content(arg[w]) /\ owner[tmp] = Kept
<1>0. TypeOK /\ QuietInv /\ OwnerInv /\ outcome[w] = "none"
  BY DEF IInv, CleanInv
<1>1. \A v \in Writers, d \in Payloads : ~Begin(v, d)
  BY <1>0 DEF Begin, TypeOK
<1>2. PICK v \in Writers : Step(v) \/ Fault(v)
  BY <1>1 DEF Next
<1>3. v = w
  BY <1>0, <1>2, Frame
<1>4. Rename(w)
  BY <1>0, <1>2, <1>3 DEF Step, Fault, Stat, OpenNew, OpenExisting, OpenDenied, OpenFails, Write, WriteFails,
                          Chown, Chmod, AttributeFails, Remove, RenameFails, Crash, Return, TypeOK
<1> QED BY <1>0, <1>4 DEF Rename, QuietInv, OwnerInv, Holds

\* Only a call that another one overlapped changes the owner of the file.
THEOREM QuietCallsKeepOwner == Spec => QuietCallKeepsOwner
<1>1. IInv /\ [Next]_vars =>
        [\A w \in Writers : (pc[w] # "idle" /\ outcome'[w] = "ok" /\ ~overlap[w])
           => owner'[path'] = IF path = NoInode THEN DirOwner ELSE owner[path]]_vars
  BY QuietOk DEF Rename, Kept
<1> QED BY Invariance, <1>1, PTL DEF Spec, QuietCallKeepsOwner

\* A call that nothing overlaps installs exactly its payload.
THEOREM QuietCallsInstall == Spec => QuietCallInstalls
<1>1. IInv /\ [Next]_vars =>
        [\A w \in Writers : (pc[w] # "idle" /\ outcome'[w] = "ok" /\ ~overlap[w])
           => data'[path'] = Content(arg[w])]_vars
  BY QuietOk DEF Rename
<1> QED BY Invariance, <1>1, PTL DEF Spec, QuietCallInstalls
=============================================================================
