----------------------------- MODULE StateFile ------------------------------
(***************************************************************************)
(* WriteFilePreserveOwner of internal/fileutil/fileutil.go, system call by *)
(* system call: the agent's state files (token, cert.pem, key.pem,         *)
(* relay.json, mssql-inventory.json and its key) are replaced through a    *)
(* temporary file with a FIXED name, path + ".tmp".  The writers are CLI   *)
(* commands run as root (sudo) and processes of the service user, which    *)
(* owns the directory.  The files are private (0600): only their owner and *)
(* root can open them.                                                     *)
(*                                                                         *)
(* A payload is a number, and payload n is n blocks long: what is written  *)
(* over a longer content leaves its tail.                                  *)
(***************************************************************************)
EXTENDS Naturals, Sequences

CONSTANTS
  Writers,      \* processes that call WriteFilePreserveOwner
  RootWriters,  \* those that run as root
  Inodes,       \* bound: inodes in use at a time
  MaxPayload,   \* bound: length of the longest payload
  MaxFaults,    \* bound: crashes and failed system calls
  NoInode, Missing, Denied

ASSUME RootAssumption    == RootWriters \subseteq Writers
ASSUME PayloadAssumption == MaxPayload \in Nat \ {0}
ASSUME FaultsAssumption  == MaxFaults \in Nat
ASSUME InodeAssumption   == NoInode \notin Inodes

VARIABLES
  path,     \* the inode that the name `path` refers to
  tmp,      \* the inode that path + ".tmp" refers to
  data,     \* data[i]: content of inode i, a sequence of blocks
  owner,    \* owner[i]: who owns inode i
  pc, arg,  \* the writers: where they are, the payload they write
  want,     \* want[w]: the owner that w found and will apply
  fd,       \* fd[w]: the inode that w has open
  outcome,  \* outcome[w]: what the last call of w returned
  overlap,  \* overlap[w]: another call ran during w's (history)
  faults,   \* crashes and failed system calls so far
  clash     \* two calls have overlapped, now or earlier (history)

fs_vars     == <<path, tmp, data, owner>>
writer_vars == <<pc, arg, want, fd, outcome, overlap>>
past_vars   == <<faults, clash>>
vars        == <<fs_vars, writer_vars, past_vars>>

Owners     == {"root", "service"}
DirOwner   == "service"
Payloads   == 1..MaxPayload
Content(d) == [i \in 1..d |-> d]
Steps      == {"idle", "stat", "open", "write", "chown", "chmod", "rename", "remove"}

TypeOK ==
  /\ path \in Inodes \cup {NoInode}
  /\ tmp \in Inodes \cup {NoInode}
  /\ data \in [Inodes -> Seq(Payloads)]
  /\ owner \in [Inodes -> Owners]
  /\ pc \in [Writers -> Steps]
  /\ arg \in [Writers -> Payloads]
  /\ want \in [Writers -> Owners]
  /\ fd \in [Writers -> Inodes \cup {NoInode}]
  /\ outcome \in [Writers -> {"none", "ok", "error"}]
  /\ overlap \in [Writers -> BOOLEAN]
  /\ faults \in 0..MaxFaults
  /\ clash \in BOOLEAN

\* A fresh directory: the file is absent.
Init ==
  /\ data = [i \in Inodes |-> <<>>]
  /\ path = NoInode
  /\ tmp = NoInode
  /\ owner = [i \in Inodes |-> DirOwner]
  /\ pc = [w \in Writers |-> "idle"]
  /\ arg = [w \in Writers |-> 1]
  /\ want = [w \in Writers |-> DirOwner]
  /\ fd = [w \in Writers |-> NoInode]
  /\ outcome = [w \in Writers |-> "none"]
  /\ overlap = [w \in Writers |-> FALSE]
  /\ faults = 0 /\ clash = FALSE

-----------------------------------------------------------------------------
(* One call of WriteFilePreserveOwner. *)

Uid(w) == IF w \in RootWriters THEN "root" ELSE "service"

\* Mode 0600: the kernel lets only the owner and root at the content.
MayOpen(u, i) == u \in {"root", owner[i]}

\* Only root gives a file away; its owner may "change" it to itself.
MayChown(u, i, o) == u = "root" \/ (owner[i] = u /\ o = u)

InUse == {path, tmp} \cup {fd[w] : w \in Writers}

Goto(w, s) == pc' = [pc EXCEPT ![w] = s]

Return(w, o) ==
  /\ Goto(w, "idle")
  /\ fd' = [fd EXCEPT ![w] = NoInode]
  /\ outcome' = [outcome EXCEPT ![w] = o]
  /\ arg' = [arg EXCEPT ![w] = 1]          \* dead between calls
  /\ want' = [want EXCEPT ![w] = DirOwner]  \* dead between calls
  /\ overlap' = [overlap EXCEPT ![w] = FALSE]

Active == {v \in Writers : pc[v] # "idle"}

Begin(w, d) ==
  /\ pc[w] = "idle"
  /\ clash' = (clash \/ Active # {})
  /\ overlap' = [v \in Writers |-> overlap[v] \/ (Active # {} /\ v \in Active \cup {w})]
  /\ Goto(w, "stat")
  /\ arg' = [arg EXCEPT ![w] = d]
  /\ outcome' = [outcome EXCEPT ![w] = "none"]
  /\ UNCHANGED <<fs_vars, want, fd, faults>>

\* Mutant: a new file belongs to the user who runs the command.
Stat_OwnUser(w) ==
  /\ pc[w] = "stat"
  /\ want' = [want EXCEPT ![w] = IF path # NoInode THEN owner[path] ELSE Uid(w)]
  /\ Goto(w, "open")
  /\ UNCHANGED <<fs_vars, arg, fd, outcome, overlap, past_vars>>

\* The owner to keep: that of the file, or of the directory for a new file.
Stat(w) ==
  /\ pc[w] = "stat"
  /\ want' = [want EXCEPT ![w] = IF path # NoInode THEN owner[path] ELSE DirOwner]
  /\ Goto(w, "open")
  /\ UNCHANGED <<fs_vars, arg, fd, outcome, overlap, past_vars>>

\* os.WriteFile opens path.tmp with O_CREATE|O_TRUNC: a new inode ...
OpenNew(w) ==
  /\ pc[w] = "open"
  /\ tmp = NoInode
  /\ Inodes \ InUse # {}
  /\ tmp' = CHOOSE i \in Inodes \ InUse : TRUE
  /\ data' = [data EXCEPT ![tmp'] = <<>>]
  /\ owner' = [owner EXCEPT ![tmp'] = Uid(w)]
  /\ fd' = [fd EXCEPT ![w] = tmp']
  /\ Goto(w, "write")
  /\ UNCHANGED <<path, arg, want, outcome, overlap, past_vars>>

\* Mutant: opened without O_TRUNC.
OpenExisting_NoTrunc(w) ==
  /\ pc[w] = "open"
  /\ tmp # NoInode
  /\ MayOpen(Uid(w), tmp)
  /\ fd' = [fd EXCEPT ![w] = tmp]
  /\ Goto(w, "write")
  /\ UNCHANGED <<fs_vars, arg, want, outcome, overlap, past_vars>>

\* ... or the one that is there, a leftover or another writer's, emptied ...
OpenExisting(w) ==
  /\ pc[w] = "open"
  /\ tmp # NoInode
  /\ MayOpen(Uid(w), tmp)
  /\ data' = [data EXCEPT ![tmp] = <<>>]
  /\ fd' = [fd EXCEPT ![w] = tmp]
  /\ Goto(w, "write")
  /\ UNCHANGED <<path, tmp, owner, arg, want, outcome, overlap, past_vars>>

\* Mutant: opened with O_EXCL.
OpenDenied_Excl(w) ==
  /\ pc[w] = "open"
  /\ tmp # NoInode
  /\ Return(w, "error")
  /\ UNCHANGED <<fs_vars, past_vars>>

\* ... unless it belongs to another user (EACCES): the call fails.
OpenDenied(w) ==
  /\ pc[w] = "open"
  /\ tmp # NoInode
  /\ ~MayOpen(Uid(w), tmp)
  /\ Return(w, "error")
  /\ UNCHANGED <<fs_vars, past_vars>>

\* Writing at offset 0 of a content that another writer may have put there.
Overlay(old, new) == new \o SubSeq(old, Len(new) + 1, Len(old))

Write(w) ==
  /\ pc[w] = "write"
  /\ data' = [data EXCEPT ![fd[w]] = Overlay(@, Content(arg[w]))]
  /\ fd' = [fd EXCEPT ![w] = NoInode]
  /\ Goto(w, "chown")
  /\ UNCHANGED <<path, tmp, owner, arg, want, outcome, overlap, past_vars>>

\* No space left: part of the payload is written, path.tmp stays.
WriteFails(w) ==
  /\ pc[w] = "write"
  /\ faults < MaxFaults
  /\ faults' = faults + 1
  /\ \E n \in 0..(arg[w] - 1) :
       data' = [data EXCEPT ![fd[w]] = Overlay(@, SubSeq(Content(arg[w]), 1, n))]
  /\ Return(w, "error")
  /\ UNCHANGED <<path, tmp, owner, clash>>

\* The open fails, for want of an inode or of a working disk.
OpenFails(w) ==
  /\ pc[w] = "open"
  /\ faults < MaxFaults
  /\ faults' = faults + 1
  /\ Return(w, "error")
  /\ UNCHANGED <<fs_vars, clash>>

\* Mutant: the owner is not applied.
Chown_Skipped(w) ==
  /\ pc[w] = "chown"
  /\ Goto(w, IF tmp # NoInode THEN "chmod" ELSE "remove")
  /\ UNCHANGED <<fs_vars, arg, want, fd, outcome, overlap, past_vars>>

\* os.Chown and os.Chmod act on whatever path.tmp names by now.
Chown(w) ==
  /\ pc[w] = "chown"
  /\ IF tmp # NoInode /\ MayChown(Uid(w), tmp, want[w])
     THEN owner' = [owner EXCEPT ![tmp] = want[w]] /\ Goto(w, "chmod")
     ELSE UNCHANGED owner /\ Goto(w, "remove")
  /\ UNCHANGED <<path, tmp, data, arg, want, fd, outcome, overlap, past_vars>>

\* The mode is the same for every writer of a path: chmod can only fail.
Chmod(w) ==
  /\ pc[w] = "chmod"
  /\ Goto(w, IF tmp # NoInode /\ MayOpen(Uid(w), tmp) THEN "rename" ELSE "remove")
  /\ UNCHANGED <<fs_vars, arg, want, fd, outcome, overlap, past_vars>>

\* Chown or chmod fails although it is allowed.
AttributeFails(w) ==
  /\ pc[w] \in {"chown", "chmod"}
  /\ faults < MaxFaults
  /\ faults' = faults + 1
  /\ Goto(w, "remove")
  /\ UNCHANGED <<fs_vars, arg, want, fd, outcome, overlap, clash>>

\* The error path of chown and chmod removes path.tmp, whoever wrote it.
Remove(w) ==
  /\ pc[w] = "remove"
  /\ tmp' = NoInode
  /\ Return(w, "error")
  /\ UNCHANGED <<path, data, owner, past_vars>>

\* Whatever path.tmp names by now becomes the file; ENOENT if it is gone.
Rename(w) ==
  /\ pc[w] = "rename"
  /\ IF tmp # NoInode
     THEN path' = tmp /\ tmp' = NoInode /\ Return(w, "ok")
     ELSE UNCHANGED <<path, tmp>> /\ Return(w, "error")
  /\ UNCHANGED <<data, owner, past_vars>>

\* The rename fails: path.tmp stays.
RenameFails(w) ==
  /\ pc[w] = "rename"
  /\ faults < MaxFaults
  /\ faults' = faults + 1
  /\ Return(w, "error")
  /\ UNCHANGED <<fs_vars, clash>>

\* The writer's process is killed between two system calls.
Crash(w) ==
  /\ pc[w] # "idle"
  /\ faults < MaxFaults
  /\ faults' = faults + 1
  /\ Return(w, "none")
  /\ UNCHANGED <<fs_vars, clash>>

-----------------------------------------------------------------------------

Step(w) ==
  \/ Stat(w) \/ OpenNew(w) \/ OpenExisting(w) \/ OpenDenied(w)
  \/ Write(w) \/ Chown(w) \/ Chmod(w) \/ Remove(w) \/ Rename(w)

Fault(w) == OpenFails(w) \/ WriteFails(w) \/ AttributeFails(w) \/ RenameFails(w) \/ Crash(w)

Next == \E w \in Writers : (\E d \in Payloads : Begin(w, d)) \/ Step(w) \/ Fault(w)

Spec == Init /\ [][Next]_vars

-----------------------------------------------------------------------------
(* Properties *)

\* What os.ReadFile finds in a process of the service user.
View ==
  IF path = NoInode THEN Missing
  ELSE IF MayOpen("service", path) THEN data[path] ELSE Denied

Register == INSTANCE AtomicFile WITH
  Values  <- {Content(d) : d \in Payloads},
  value   <- View,
  pending <- [w \in Writers |-> IF pc[w] = "idle" THEN {} ELSE {Content(arg[w])}]

\* fileutil.go:10-13, for callers that exclude each other and may crash: the
\* file is replaced atomically, "ok" means the new value is there, an error or
\* a crash means the old one still is, and the service user's readers always
\* get in (a leftover path.tmp of any owner and length notwithstanding).
AtomicReplace == Register!Init /\ [][~clash' => Register!Next]_(Register!vars)

\* fileutil.go:10 "atomically replaces path", as a state predicate: what a
\* reader of path finds is a payload that some call was given, whole.
WholeContent == path # NoInode => data[path] \in {Content(d) : d \in Payloads}

\* Without crashes and failing disks, callers that exclude each other always
\* succeed and leave no temporary file behind, whoever they run as.
CleanWithoutFaults ==
  (faults = 0 /\ ~clash) =>
    /\ \A w \in Writers : outcome[w] # "error"
    /\ (\A w \in Writers : pc[w] = "idle") => tmp = NoInode

\* The call of w has failed, or is on its way to.
Failing(w) == outcome[w] = "error" \/ pc[w] = "remove"

\* A root-run command is never locked out: whatever earlier calls left behind,
\* overlapping ones too, it fails only by a fault or an overlap of its own.
RootRecovers ==
  [][\A w \in RootWriters :
       (~overlap[w] /\ ~Failing(w) /\ Failing(w)') => faults' > faults]_vars

\* fileutil.go:11-13: the owner is kept, that of the directory for a new file.
\* Only a call that another one overlapped can take the file away from the
\* service user, whatever overlaps, crashes and failures came before; and once
\* one has, calls that nothing overlaps keep it with root, as the comment says.
QuietCallKeepsOwner ==
  [][\A w \in Writers :
       (pc[w] # "idle" /\ outcome'[w] = "ok" /\ ~overlap[w])
         => owner'[path'] = IF path = NoInode THEN DirOwner ELSE owner[path]]_vars

\* A call that no other call overlaps and that returns nil has installed its
\* payload whole, whatever overlapping or crashed calls left in path.tmp.
QuietCallInstalls ==
  [][\A w \in Writers :
       (pc[w] # "idle" /\ outcome'[w] = "ok" /\ ~overlap[w])
         => data'[path'] = Content(arg[w])]_vars

=============================================================================
