---------------------------- MODULE SnapshotStore ----------------------------
(***************************************************************************)
(* The durable snapshot store of student_docker/app/services/submissions.py:*)
(* create_snapshot freezes a checkpoint file under a submission id as the   *)
(* pair <id>.pt / <id>.snapshot.json, and get_snapshot reads the pair back. *)
(*                                                                         *)
(* Threads of several API processes create, readers read without a lock,   *)
(* the participant edits the checkpoint while it is being copied, any      *)
(* system call may fail, a process may be killed between any two calls, and *)
(* the machine may lose power.                                             *)
(*                                                                         *)
(* Simplifications:                                                        *)
(*  - a file's bytes are a sequence of blocks, one block per read() of     *)
(*    _copy_and_hash; a SHA-256 is the content it was computed from (no    *)
(*    collisions);                                                         *)
(*  - a path that is missing and one that is no regular file are both      *)
(*    None: the code raises on either, with different exceptions;          *)
(*  - a directory entry that was not fsynced survives a power loss or not, *)
(*    each entry by itself; so does the content of a file not fsynced.     *)
(***************************************************************************)
EXTENDS Integers, Sequences, FiniteSets

CONSTANTS
  Thread,      \* threads that call create_snapshot
  Proc,        \* API worker processes
  Home,        \* the process of each thread
  Reader,      \* callers of get_snapshot
  Id,          \* canonical submission ids
  Inode,       \* files the checkpoint path may name
  Block,       \* what one read() returns
  Initial,     \* the first content of each inode
  MaxBlocks,   \* config.MAX_ARTIFACT_BYTES, in blocks
  MaxLen,      \* bound: longest checkpoint the participant writes
  Budget,      \* bounds: how many edits, faults, crashes, power losses, calls
  CoarseClock, \* may two edits of a file carry the same timestamps?
  None

Content == Seq(Block)
Blob == [data: Content \cup {None}, flushed: BOOLEAN]
Marker == [sum: Content \cup {None}, flushed: BOOLEAN]
Costs == {"edit", "fault", "crash", "power", "call"}

ASSUME HomeAssumption == Home \in [Thread -> Proc]
ASSUME BoundAssumption ==
  /\ MaxBlocks \in Nat
  /\ MaxLen \in Nat
  /\ Budget \in [Costs -> Nat]
  /\ CoarseClock \in BOOLEAN
ASSUME InitialAssumption ==
  /\ DOMAIN Initial = Inode
  /\ \A n \in Inode : Initial[n] \in Content
ASSUME NoneAssumption ==
  /\ None \notin Thread \cup Inode \cup Id
  /\ None \notin Content
  /\ None \notin Blob
  /\ None \notin Marker

VARIABLES
  file,     \* the participant's inodes: content and last-change stamp
  path,     \* the inode the checkpoint path names, or None
  art,      \* <id>.pt of every id, or None
  meta,     \* <id>.snapshot.json of every id, or None: the commit marker
  disk,     \* the two directory entries as the last directory fsync left them
  tmp,      \* temporary names of every id: <<owner, kind>>
  procLock, \* holder of _CREATE_LOCK in every process
  idLock,   \* holder of the flock on .locks/<id>.lock
  pc,       \* where each thread is
  sub,      \* canonical_id of each thread's call, or None
  before,   \* opened_before; its ino is the file the thread has open
  buf,      \* what is in the artifact temporary file
  flushed,  \* that file was fsynced
  same,     \* opened_after equals opened_before
  metaFlushed, \* the metadata temporary file was fsynced
  published, \* artifact_published
  rd,       \* the readers' local variables
  acked,    \* history: what create_snapshot returned, and from which branch
  left      \* what is left of Budget

source == <<file, path>>
dir == <<art, meta, disk, tmp>>
locks == <<procLock, idLock>>
loc == <<sub, before, buf, flushed, same, metaFlushed, published>>
vars == <<source, dir, locks, pc, loc, rd, acked, left>>

-----------------------------------------------------------------------------
(* Types and the initial state *)

Signature == [ino: Inode, len: Nat, ver: Nat]

\* Labels between the mkstemp of the artifact and the end of the try block.
TryLabels ==
  {"stat", "open", "copy", "recheck", "metaTemp", "linkArt", "dropArtTmp",
   "syncArt", "linkMeta", "dropMetaTmp", "syncMeta"}
PrologueLabels == {"check", "sweep", "clearArt", "clearTmp", "mkTemp"}
ExitLabels == {"retNew", "retOld", "cleanup", "cleanSync", "dropTemps", "release"}

\* Labels at which the thread holds both locks.
Holding == TryLabels \cup PrologueLabels \cup ExitLabels
Labels == Holding \cup {"idle", "wantProc", "wantId"}

ReaderLocals ==
  [pc: {"idle", "artifact", "load", "hash"},
   id: Id \cup {None},
   marker: Marker \cup {None},
   out: {"none", "notFound", "conflict", "ok"}]
Reading(label, i, m) == [pc |-> label, id |-> i, marker |-> m, out |-> "none"]
ReadEnd(result) == [pc |-> "idle", id |-> None, marker |-> None, out |-> result]

TypeOK ==
  /\ file \in [Inode -> [data: Content, ver: Nat]]
  /\ path \in Inode \cup {None}
  /\ art \in [Id -> {None} \cup Blob]
  /\ meta \in [Id -> {None} \cup Marker]
  /\ disk \in [art: [Id -> {None} \cup Blob], meta: [Id -> {None} \cup Marker]]
  /\ tmp \in [Id -> SUBSET ((Thread \cup {None}) \X {"pt", "json"})]
  /\ procLock \in [Proc -> Thread \cup {None}]
  /\ idLock \in [Id -> Thread \cup {None}]
  /\ pc \in [Thread -> Labels]
  /\ sub \in [Thread -> Id \cup {None}]
  /\ before \in [Thread -> {None} \cup Signature]
  /\ buf \in [Thread -> Content]
  /\ {flushed, same, metaFlushed, published} \subseteq [Thread -> BOOLEAN]
  /\ \A t \in Thread :
       /\ pc[t] # "idle" => sub[t] \in Id
       /\ pc[t] \in {"open", "copy", "recheck"} => before[t] \in Signature
  /\ \A r \in Reader : rd[r].pc # "idle" => rd[r].id \in Id
  /\ rd \in [Reader -> ReaderLocals]
  /\ acked \subseteq [id: Id, data: Content, by: {"create", "existing"}]
  /\ left \in [Costs -> Nat]

Init ==
  /\ file = [n \in Inode |-> [data |-> Initial[n], ver |-> 0]]
  /\ path \in Inode \cup {None}
  /\ art = [i \in Id |-> None]
  /\ meta = [i \in Id |-> None]
  /\ disk = [art |-> art, meta |-> meta]
  /\ tmp = [i \in Id |-> {}]
  /\ procLock = [p \in Proc |-> None]
  /\ idLock = [i \in Id |-> None]
  /\ pc = [t \in Thread |-> "idle"]
  /\ sub = [t \in Thread |-> None]
  /\ before = sub
  /\ buf = [t \in Thread |-> <<>>]
  /\ flushed = [t \in Thread |-> FALSE]
  /\ same = flushed
  /\ metaFlushed = flushed
  /\ published = flushed
  /\ rd = [r \in Reader |-> ReadEnd("none")]
  /\ acked = {}
  /\ left = Budget

-----------------------------------------------------------------------------
(* Helpers *)

Pay(cost) == left[cost] > 0 /\ left' = [left EXCEPT ![cost] = @ - 1]
Goto(t, label) == pc' = [pc EXCEPT ![t] = label]
Move(t, from, to) == pc[t] = from /\ Goto(t, to)

\* _stat_signature: device and inode, size, mtime and ctime.
Sig(n) == [ino |-> n, len |-> Len(file[n].data), ver |-> file[n].ver]

\* The locals of calls that are over are gone.
Forget(gone) ==
  /\ sub' = [t \in Thread |-> IF t \in gone THEN None ELSE sub[t]]
  /\ before' = [t \in Thread |-> IF t \in gone THEN None ELSE before[t]]
  /\ buf' = [t \in Thread |-> IF t \in gone THEN <<>> ELSE buf[t]]
  /\ flushed' = [t \in Thread |-> t \notin gone /\ flushed[t]]
  /\ same' = [t \in Thread |-> t \notin gone /\ same[t]]
  /\ metaFlushed' = [t \in Thread |-> t \notin gone /\ metaFlushed[t]]
  /\ published' = [t \in Thread |-> t \notin gone /\ published[t]]

\* What _load_metadata, _validate_metadata and the size and hash comparisons of
\* get_snapshot accept: an artifact that is there and has the marker's digest.
Matches(blob, marker) ==
  /\ blob # None
  /\ marker.sum # None
  /\ blob.data = marker.sum

-----------------------------------------------------------------------------
(* The participant edits the checkpoint *)

\* mtime and ctime move with every change, unless the file system's clock has
\* not ticked since the last one.
Stamps(v) == IF CoarseClock THEN {v, v + 1} ELSE {v + 1}

Rewrite(n, d) ==
  /\ \E v \in Stamps(file[n].ver) : file' = [file EXCEPT ![n] = [data |-> d, ver |-> v]]
  /\ UNCHANGED path

OverwriteBlock(n) ==
  \E k \in 1..Len(file[n].data), b \in Block :
    Rewrite(n, [file[n].data EXCEPT ![k] = b])

AppendBlock(n) ==
  /\ Len(file[n].data) < MaxLen
  /\ \E b \in Block : Rewrite(n, Append(file[n].data, b))

Truncate(n) == Rewrite(n, <<>>)

\* rename over the path, or unlink: the links that come and go move the ctime.
Repoint(p) ==
  /\ path # p
  /\ path' = p
  /\ file' = [n \in Inode |-> IF n \in {p, path}
                              THEN [data |-> file[n].data, ver |-> file[n].ver + 1]
                              ELSE file[n]]

Edit ==
  /\ Pay("edit")
  /\ \/ \E n \in Inode : OverwriteBlock(n) \/ AppendBlock(n) \/ Truncate(n)
     \/ \E p \in Inode \cup {None} : Repoint(p)
  /\ UNCHANGED <<dir, locks, pc, loc, rd, acked>>

-----------------------------------------------------------------------------
(* create_snapshot: the two locks *)

Call(t, i) ==
  /\ Move(t, "idle", "wantProc")
  /\ Pay("call")
  /\ sub' = [sub EXCEPT ![t] = i]
  /\ UNCHANGED <<source, dir, locks, before, buf, flushed, same, metaFlushed, published, rd, acked>>

\* _CREATE_LOCK excludes the threads of one process, whatever their ids.
LockProcess(t) ==
  /\ Move(t, "wantProc", "wantId")
  /\ procLock[Home[t]] = None
  /\ procLock' = [procLock EXCEPT ![Home[t]] = t]
  /\ UNCHANGED <<source, dir, idLock, loc, rd, acked, left>>

\* Mutant of IdFree: the flock is not waited for.
IdFreeIgnored(t) == TRUE

IdFree(t) == idLock[sub[t]] = None

\* _process_lock: flock on the id's lock file, across processes.
LockId(t) ==
  /\ Move(t, "wantId", "check")
  /\ IdFree(t)
  /\ idLock' = [idLock EXCEPT ![sub[t]] = t]
  /\ UNCHANGED <<source, dir, procLock, loc, rd, acked, left>>

\* Mutant of Unwind: the call starts over, its locals already gone.
UnwindAndRetry(t) ==
  /\ idLock' = [idLock EXCEPT ![sub[t]] = None]
  /\ Goto(t, "wantId")
  /\ Forget({t})
  /\ UNCHANGED procLock

\* Both context managers unwind; the call returns or raises.
Unwind(t) ==
  /\ idLock' = [idLock EXCEPT ![sub[t]] = None]
  /\ procLock' = [procLock EXCEPT ![Home[t]] = None]
  /\ Goto(t, "idle")
  /\ Forget({t})

-----------------------------------------------------------------------------
(* _create_snapshot, up to the copy *)

\* Mutant of CheckCommitted: the marker is not looked at.
CheckCommittedNever(t) ==
  /\ Move(t, "check", "clearArt")
  /\ UNCHANGED <<source, dir, locks, loc, rd, acked, left>>

\* With a commit marker the call only verifies the pair; a mismatch raises
\* SnapshotConflict.  Nobody else writes this id's names under the id lock, so
\* get_snapshot is one step here.
CheckCommitted(t) ==
  /\ pc[t] = "check"
  /\ Goto(t, IF meta[sub[t]] = None THEN "clearArt"
             ELSE IF Matches(art[sub[t]], meta[sub[t]]) THEN "sweep"
             ELSE "release")
  /\ UNCHANGED <<source, dir, locks, loc, rd, acked, left>>

SweepTemps(t) ==
  /\ pc[t] \in {"sweep", "clearTmp"}
  /\ tmp' = [tmp EXCEPT ![sub[t]] = {}]
  /\ Goto(t, IF pc[t] = "sweep" THEN "retOld" ELSE "mkTemp")
  /\ UNCHANGED <<source, art, meta, disk, locks, loc, rd, acked, left>>

\* _remove_uncommitted_files: no marker, so a lone artifact is a crash remnant.
ClearArtifact(t) ==
  /\ Move(t, "clearArt", "clearTmp")
  /\ art' = [art EXCEPT ![sub[t]] = None]
  /\ UNCHANGED <<source, meta, disk, tmp, locks, loc, rd, acked, left>>

MakeTemp(t) ==
  /\ Move(t, "mkTemp", "stat")
  /\ tmp' = [tmp EXCEPT ![sub[t]] = @ \cup {<<t, "pt">>}]
  /\ UNCHANGED <<source, art, meta, disk, locks, loc, rd, acked, left>>

-----------------------------------------------------------------------------
(* _create_snapshot: the copy *)

\* open_checkpoint_safely: lstat of the path ...
StatSource(t) ==
  /\ pc[t] = "stat"
  /\ IF path = None
     THEN Goto(t, "cleanup") /\ UNCHANGED before
     ELSE Goto(t, "open") /\ before' = [before EXCEPT ![t] = Sig(path)]
  /\ UNCHANGED <<source, dir, locks, sub, buf, flushed, same, metaFlushed, published>>
  /\ UNCHANGED <<rd, acked, left>>

\* ... then open and fstat, whose signature must be the one lstat saw; then the
\* size limit.
OpenSource(t) ==
  /\ pc[t] = "open"
  /\ Goto(t, IF path # None /\ Sig(path) = before[t] /\ before[t].len <= MaxBlocks
             THEN "copy" ELSE "cleanup")
  /\ UNCHANGED <<source, dir, locks, loc, rd, acked, left>>

\* The file the thread has open, whatever the path names by now.
Opened(t) == file[before[t].ino].data

\* One iteration of _copy_and_hash.
CopyBlock(t) ==
  /\ pc[t] = "copy"
  /\ Len(buf[t]) < Len(Opened(t))
  /\ IF Len(buf[t]) + 1 > MaxBlocks
     THEN Goto(t, "cleanup") /\ UNCHANGED buf
     ELSE buf' = [buf EXCEPT ![t] = Append(@, Opened(t)[Len(@) + 1])] /\ UNCHANGED pc
  /\ UNCHANGED <<source, dir, locks, sub, before, flushed, same, metaFlushed, published>>
  /\ UNCHANGED <<rd, acked, left>>

\* End of file: flush, fsync the copy, fstat the open checkpoint again.
FinishCopy(t) ==
  /\ Move(t, "copy", "recheck")
  /\ Len(buf[t]) >= Len(Opened(t))
  /\ flushed' = [flushed EXCEPT ![t] = TRUE]
  /\ same' = [same EXCEPT ![t] = (Sig(before[t].ino) = before[t])]
  /\ UNCHANGED <<source, dir, locks, sub, before, buf, metaFlushed, published>>
  /\ UNCHANGED <<rd, acked, left>>

\* Mutant of SourceStable: only the open file is compared, not the path.
SourceStableOpenOnly(t) == same[t] /\ Len(buf[t]) = before[t].len

\* The test that decides whether the copy is a state the checkpoint was in.
SourceStable(t) ==
  /\ path # None
  /\ same[t]
  /\ Sig(path) = before[t]
  /\ Len(buf[t]) = before[t].len

Recheck(t) ==
  /\ pc[t] = "recheck"
  /\ Goto(t, IF SourceStable(t) THEN "metaTemp" ELSE "cleanup")
  /\ UNCHANGED <<source, dir, locks, loc, rd, acked, left>>

-----------------------------------------------------------------------------
(* _create_snapshot: publication *)

\* Mutant of WriteMetadataTemp: the marker file is not fsynced.
WriteMetadataUnsynced(t) ==
  /\ Move(t, "metaTemp", "linkArt")
  /\ tmp' = [tmp EXCEPT ![sub[t]] = @ \cup {<<t, "json">>}]
  /\ UNCHANGED <<source, art, meta, disk, locks, loc, rd, acked, left>>

WriteMetadataTemp(t) ==
  /\ Move(t, "metaTemp", "linkArt")
  /\ tmp' = [tmp EXCEPT ![sub[t]] = @ \cup {<<t, "json">>}]
  /\ metaFlushed' = [metaFlushed EXCEPT ![t] = TRUE]
  /\ UNCHANGED <<source, art, meta, disk, locks, sub, before, buf, flushed, same, published>>
  /\ UNCHANGED <<rd, acked, left>>

\* _publish_no_replace, first half: link the name unless it exists.
LinkArtifact(t) ==
  /\ pc[t] = "linkArt"
  /\ IF art[sub[t]] # None
     THEN Goto(t, "cleanup") /\ UNCHANGED art
     ELSE /\ art' = [art EXCEPT ![sub[t]] =
                       [data |-> buf[t], flushed |-> flushed[t]]]
          /\ Goto(t, "dropArtTmp")
  /\ UNCHANGED <<source, meta, disk, tmp, locks, loc, rd, acked, left>>

\* Second half: unlink the temporary name.  artifact_published is set only here.
DropArtifactTemp(t) ==
  /\ Move(t, "dropArtTmp", "syncArt")
  /\ tmp' = [tmp EXCEPT ![sub[t]] = @ \ {<<t, "pt">>}]
  /\ published' = [published EXCEPT ![t] = TRUE]
  /\ UNCHANGED <<source, art, meta, disk, locks, sub, before, buf, flushed, same, metaFlushed>>
  /\ UNCHANGED <<rd, acked, left>>

\* _fsync_directory persists every entry of the directory, not only this id's.
SyncDirectory == disk' = [art |-> art, meta |-> meta]

SyncArtifact(t) ==
  /\ Move(t, "syncArt", "linkMeta")
  /\ SyncDirectory
  /\ UNCHANGED <<source, art, meta, tmp, locks, loc, rd, acked, left>>

LinkMetadata(t) ==
  /\ pc[t] = "linkMeta"
  /\ IF meta[sub[t]] # None
     THEN Goto(t, "cleanup") /\ UNCHANGED meta
     ELSE /\ meta' = [meta EXCEPT ![sub[t]] =
                        [sum |-> buf[t], flushed |-> metaFlushed[t]]]
          /\ Goto(t, "dropMetaTmp")
  /\ UNCHANGED <<source, art, disk, tmp, locks, loc, rd, acked, left>>

DropMetadataTemp(t) ==
  /\ Move(t, "dropMetaTmp", "syncMeta")
  /\ tmp' = [tmp EXCEPT ![sub[t]] = @ \ {<<t, "json">>}]
  /\ UNCHANGED <<source, art, meta, disk, locks, loc, rd, acked, left>>

\* Mutant of SyncMetadata: returns without the second directory fsync.
SyncMetadataSkipped(t) ==
  /\ Move(t, "syncMeta", "retNew")
  /\ UNCHANGED <<source, dir, locks, loc, rd, acked, left>>

SyncMetadata(t) ==
  /\ Move(t, "syncMeta", "retNew")
  /\ SyncDirectory
  /\ UNCHANGED <<source, art, meta, tmp, locks, loc, rd, acked, left>>

ReturnCreated(t) ==
  /\ pc[t] = "retNew"
  /\ acked' = acked \cup {[id |-> sub[t], data |-> buf[t], by |-> "create"]}
  /\ Unwind(t)
  /\ UNCHANGED <<source, dir, rd, left>>

\* The metadata that get_snapshot loaded.
Existing(t) == meta[sub[t]].sum

ReturnExisting(t) ==
  /\ pc[t] = "retOld"
  /\ acked' = acked \cup {[id |-> sub[t], data |-> Existing(t), by |-> "existing"]}
  /\ Unwind(t)
  /\ UNCHANGED <<source, dir, rd, left>>

-----------------------------------------------------------------------------
(* _create_snapshot: the except and finally clauses *)

\* A system call raises: inside the try block the clauses below run, before it
\* the exception only unwinds the locks, inside the except clause finally runs.
Fault(t) ==
  /\ Pay("fault")
  /\ \/ pc[t] \in TryLabels /\ Goto(t, "cleanup")
     \/ pc[t] \in PrologueLabels \cup {"dropTemps"} /\ Goto(t, "release")
     \/ pc[t] \in {"cleanup", "cleanSync"} /\ Goto(t, "dropTemps")
  /\ UNCHANGED <<source, dir, locks, loc, rd, acked>>

\* Mutant of MustUnpublish: the marker is not looked at.
MustUnpublishAlways(t) == published[t]

MustUnpublish(t) == published[t] /\ meta[sub[t]] = None

Cleanup(t) ==
  /\ pc[t] = "cleanup"
  /\ IF MustUnpublish(t)
     THEN art' = [art EXCEPT ![sub[t]] = None] /\ Goto(t, "cleanSync")
     ELSE UNCHANGED art /\ Goto(t, "dropTemps")
  /\ UNCHANGED <<source, meta, disk, tmp, locks, loc, rd, acked, left>>

CleanupSync(t) ==
  /\ Move(t, "cleanSync", "dropTemps")
  /\ SyncDirectory
  /\ UNCHANGED <<source, art, meta, tmp, locks, loc, rd, acked, left>>

DropTemps(t) ==
  /\ Move(t, "dropTemps", "release")
  /\ tmp' = [tmp EXCEPT ![sub[t]] = @ \ ({t} \X {"pt", "json"})]
  /\ UNCHANGED <<source, art, meta, disk, locks, loc, rd, acked, left>>

\* Mutant of Raise: a failed call is retried under its locks.
RaiseRetries(t) ==
  /\ Move(t, "release", "check")
  /\ UNCHANGED <<source, dir, locks, loc, rd, acked, left>>

Raise(t) ==
  /\ pc[t] = "release"
  /\ Unwind(t)
  /\ UNCHANGED <<source, dir, rd, acked, left>>

-----------------------------------------------------------------------------
(* get_snapshot, without a lock *)

ReadMarkerStat(r, i) ==
  /\ rd[r].pc = "idle"
  /\ rd' = [rd EXCEPT ![r] = IF meta[i] = None
                             THEN ReadEnd("notFound")
                             ELSE Reading("artifact", i, None)]
  /\ UNCHANGED <<source, dir, locks, pc, loc, acked, left>>

ReadArtifactStat(r) ==
  /\ rd[r].pc = "artifact"
  /\ rd' = [rd EXCEPT ![r] = IF art[rd[r].id] = None
                             THEN ReadEnd("conflict")
                             ELSE Reading("load", rd[r].id, None)]
  /\ UNCHANGED <<source, dir, locks, pc, loc, acked, left>>

ReadMarker(r) ==
  /\ rd[r].pc = "load"
  /\ rd' = [rd EXCEPT ![r] = IF meta[rd[r].id] = None
                             THEN ReadEnd("notFound")
                             ELSE Reading("hash", rd[r].id, meta[rd[r].id])]
  /\ UNCHANGED <<source, dir, locks, pc, loc, acked, left>>

ReadArtifact(r) ==
  /\ rd[r].pc = "hash"
  /\ rd' = [rd EXCEPT ![r] =
              ReadEnd(IF art[rd[r].id] = None THEN "notFound"
                      ELSE IF Matches(art[rd[r].id], rd[r].marker) THEN "ok"
                      ELSE "conflict")]
  /\ UNCHANGED <<source, dir, locks, pc, loc, acked, left>>

-----------------------------------------------------------------------------
(* Crashes *)

\* The threads of the dead processes vanish, the kernel drops their flocks, and
\* their temporary names stay behind with no owner.
Die(dead) ==
  /\ pc' = [t \in Thread |-> IF t \in dead THEN "idle" ELSE pc[t]]
  /\ Forget(dead)
  /\ idLock' = [i \in Id |-> IF idLock[i] \in dead THEN None ELSE idLock[i]]
  /\ procLock' = [p \in Proc |-> IF procLock[p] \in dead THEN None ELSE procLock[p]]

Orphaned(i, dead) ==
  {<<IF e[1] \in dead THEN None ELSE e[1], e[2]>> : e \in tmp[i]}

\* SIGKILL, or supervisord restarting the API: file system state survives.
CrashProcess(p) ==
  LET dead == {t \in Thread : Home[t] = p} IN
  /\ Pay("crash")
  /\ \E t \in dead : pc[t] # "idle"
  /\ Die(dead)
  /\ tmp' = [i \in Id |-> Orphaned(i, dead)]
  /\ UNCHANGED <<source, art, meta, disk, rd, acked>>

\* What a file that was never fsynced holds after the power comes back.
SettledBlob(e) == IF e = None \/ e.flushed THEN e ELSE [data |-> None, flushed |-> TRUE]
SettledMarker(e) == IF e = None \/ e.flushed THEN e ELSE [sum |-> None, flushed |-> TRUE]

PowerLoss ==
  /\ Pay("power")
  /\ Die(Thread)
  /\ \E keepArt, keepMeta \in SUBSET Id :
       /\ art' = [i \in Id |-> SettledBlob(IF i \in keepArt THEN art[i] ELSE disk.art[i])]
       /\ meta' = [i \in Id |-> SettledMarker(IF i \in keepMeta THEN meta[i] ELSE disk.meta[i])]
  /\ disk' = [art |-> art', meta |-> meta']
  /\ \/ tmp' = [i \in Id |-> Orphaned(i, Thread)]
     \/ tmp' = [i \in Id |-> {}]
  /\ rd' = [r \in Reader |-> ReadEnd("none")]
  /\ UNCHANGED <<source, acked>>

-----------------------------------------------------------------------------
(* The specification *)

\* Everything the code of one thread does, once called, when nothing fails.
Step(t) ==
  \/ LockProcess(t) \/ LockId(t) \/ CheckCommitted(t)
  \/ SweepTemps(t) \/ ClearArtifact(t) \/ MakeTemp(t)
  \/ StatSource(t) \/ OpenSource(t) \/ CopyBlock(t) \/ FinishCopy(t) \/ Recheck(t)
  \/ WriteMetadataTemp(t) \/ LinkArtifact(t) \/ DropArtifactTemp(t) \/ SyncArtifact(t)
  \/ LinkMetadata(t) \/ DropMetadataTemp(t) \/ SyncMetadata(t)
  \/ ReturnCreated(t) \/ ReturnExisting(t)
  \/ Cleanup(t) \/ CleanupSync(t) \/ DropTemps(t) \/ Raise(t)

Read(r) ==
  \/ \E i \in Id : ReadMarkerStat(r, i)
  \/ ReadArtifactStat(r) \/ ReadMarker(r) \/ ReadArtifact(r)

\* The bounded run is over; without this step its last state would look like a
\* deadlock, and a real deadlock of waiting threads would not stand out.
Finished ==
  /\ left["call"] = 0
  /\ \A t \in Thread : pc[t] = "idle"
  /\ UNCHANGED vars

Next ==
  \/ Edit
  \/ \E t \in Thread : (\E i \in Id : Call(t, i)) \/ Step(t) \/ Fault(t)
  \/ \E r \in Reader : Read(r)
  \/ \E p \in Proc : CrashProcess(p)
  \/ PowerLoss
  \/ Finished

Spec == Init /\ [][Next]_vars

\* Every thread of a live process is scheduled.  Lock waiters need no more than
\* that, since the calls of a bounded run end.
FairSpec == Spec /\ \A t \in Thread : WF_vars(Step(t))

-----------------------------------------------------------------------------
(* Properties *)

\* The commit marker never stands without its artifact, and names exactly its
\* bytes, whatever crashed, failed or lost power: the state the module
\* docstring calls corruption is never produced by the store itself.
PairSound ==
  \A i \in Id : meta[i] # None => Matches(art[i], meta[i])

\* A creator's temporary files are its own until it publishes them: no other
\* caller's clean-up of the same id takes them away (lines 307-336 against
\* 396-451), so publication never fails on a name that vanished.
LiveTempsIntact ==
  \A t \in Thread :
    /\ pc[t] \in TryLabels \ {"syncArt", "linkMeta", "dropMetaTmp", "syncMeta"}
         => <<t, "pt">> \in tmp[sub[t]]
    /\ pc[t] \in {"linkArt", "dropArtTmp", "syncArt", "linkMeta", "dropMetaTmp"}
         => <<t, "json">> \in tmp[sub[t]]

\* A pair on stable storage is immutable: no retry, clean-up, failure, crash or
\* power loss replaces or removes either file.
StablePairImmutable ==
  [][\A i \in Id : disk.meta[i] # None => meta'[i] = meta[i] /\ art'[i] = art[i]]_vars

\* A call that returns from the creating branch has frozen its id for good.
CreatedIsDurable ==
  \A a \in acked : a.by = "create" =>
    /\ disk.meta[a.id] # None
    /\ meta[a.id].sum = a.data
    /\ Matches(disk.art[a.id], disk.meta[a.id])

\* "Durably freeze": the same for every return, the branch that found an
\* existing marker included (docstring of create_snapshot, line 364).
AckedIsDurable ==
  \A a \in acked : disk.meta[a.id] # None /\ meta[a.id].sum = a.data

\* The copy that passes the re-check is, at that instant, the content of the
\* file the path names: never a mixture of two versions (lines 403-431).
FrozenIsCurrent ==
  [][\A t \in Thread :
       pc[t] = "recheck" /\ pc'[t] = "metaTemp"
         => path # None /\ buf[t] = file[path].data]_vars

\* A reader that takes no lock never reports corruption while creators, their
\* failures and their crashes go on around its four looks at the directory.
ReaderSeesNoCorruption == \A r \in Reader : rd[r].out # "conflict"

\* Every call ends, whatever the others hold: no deadlock between _CREATE_LOCK
\* and the id locks, and no lock outlives its holder.
CallsEnd == \A t \in Thread : pc[t] # "idle" ~> pc[t] = "idle"

\* The contents that a set of markers binds to the ids, and the bindings that
\* the creating branch returned.
Contents(marker) == [i \in Id |-> IF marker[i] = None THEN None ELSE marker[i].sum]
Promises == {<<a.id, a.data>> : a \in {b \in acked : b.by = "create"}}

\* The store implements the write-once durable map.
Map == INSTANCE DurableMap
  WITH value <- Contents(meta), stable <- Contents(disk.meta), promised <- Promises

ImplementsMap == Map!DSpec
==============================================================================
