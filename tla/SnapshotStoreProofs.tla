------------------------- MODULE SnapshotStoreProofs -------------------------
(***************************************************************************)
(* For every set of threads, processes, ids and readers, and for every      *)
(* budget: the store keeps its types, never produces a marker without its   *)
(* artifact, never loses what a creator was told is frozen, and never makes *)
(* an unlocked reader report corruption.                                    *)
(***************************************************************************)
EXTENDS SnapshotStore, TLAPS

\* A thread that holds the locks is the holder of its id's flock.
LockInv == \A t \in Thread : pc[t] \in Holding => idLock[sub[t]] = t

\* The pair of every id, in memory and on disk.  A marker is published only
\* after its artifact is on disk, so a power loss cannot separate them.
PairOK(i) ==
  /\ meta[i] # None =>
       /\ meta[i].flushed = TRUE
       /\ meta[i].sum \in Content
       /\ art[i] = [data |-> meta[i].sum, flushed |-> TRUE]
       /\ disk.art[i] = art[i]
  /\ disk.meta[i] # None => disk.meta[i] = meta[i]

PairInv == \A i \in Id : PairOK(i)

\* Labels between the decision that the id is not committed and the marker.
Uncommitted ==
  {"clearArt", "clearTmp", "mkTemp", "stat", "open", "copy", "recheck",
   "metaTemp", "linkArt", "dropArtTmp", "syncArt", "linkMeta"}

\* What the thread that holds an id's lock knows about the id's files.
ThreadOK(t) ==
  /\ pc[t] \in Uncommitted => meta[sub[t]] = None
  /\ pc[t] \in {"recheck", "metaTemp", "linkArt"} => flushed[t] = TRUE
  /\ pc[t] \in {"linkArt", "dropArtTmp", "syncArt", "linkMeta"} => metaFlushed[t] = TRUE
  /\ pc[t] \in {"dropArtTmp", "syncArt", "linkMeta"}
       => art[sub[t]] = [data |-> buf[t], flushed |-> TRUE]
  /\ pc[t] = "linkMeta" => disk.art[sub[t]] = art[sub[t]]
  /\ pc[t] \in {"dropMetaTmp", "syncMeta", "retNew"}
       => meta[sub[t]] # None /\ meta[sub[t]].sum = buf[t]
  /\ pc[t] \in {"sweep", "retOld"} => meta[sub[t]] # None
  /\ pc[t] = "retNew" => disk.meta[sub[t]] # None

ThreadInv == \A t \in Thread : ThreadOK(t)

AckInv ==
  \A a \in acked : a.by = "create" => disk.meta[a.id] # None /\ disk.meta[a.id].sum = a.data

ReaderInv ==
  \A r \in Reader :
    /\ rd[r].pc # "idle" => meta[rd[r].id] # None
    /\ rd[r].pc = "hash" => rd[r].marker = meta[rd[r].id]
    /\ rd[r].out # "conflict"

IInv == TypeOK /\ LockInv /\ PairInv /\ ThreadInv /\ AckInv /\ ReaderInv

-----------------------------------------------------------------------------
(* Types *)

\* The store starts well typed, whatever the participant's files hold.
LEMMA InitTypes == Init => TypeOK
BY BoundAssumption, InitialAssumption
DEF Init, TypeOK, Labels, Holding, ReaderLocals, ReadEnd, Content, Costs

\* The signature of a file is a signature record.
LEMMA SigType ==
  ASSUME TypeOK, NEW n \in Inode
  PROVE Sig(n) \in Signature
BY DEF TypeOK, Sig, Signature, Content

\* What a step of one thread does to the locals and labels of all.
LEMMA StepTypes ==
  ASSUME TypeOK, PairInv, ThreadInv, NEW t \in Thread, Step(t)
  PROVE TypeOK'
<1> USE HomeAssumption, NoneAssumption
    DEF TypeOK, Move, Goto, source, dir, locks, loc, Labels, Holding, TryLabels, PrologueLabels, ExitLabels
<1>1. CASE LockProcess(t)
  BY <1>1 DEF LockProcess
<1>2. CASE LockId(t)
  BY <1>2 DEF LockId
<1>3. CASE CheckCommitted(t)
  BY <1>3 DEF CheckCommitted
<1>4. CASE SweepTemps(t)
  BY <1>4 DEF SweepTemps
<1>5. CASE ClearArtifact(t)
  BY <1>5 DEF ClearArtifact
<1>6. CASE MakeTemp(t)
  BY <1>6 DEF MakeTemp
<1>7. CASE StatSource(t)
  <2>1. path # None => Sig(path) \in Signature
    BY SigType
  <2>2. before' \in [Thread -> {None} \cup Signature]
    BY <1>7, <2>1 DEF StatSource
  <2>3. pc' \in [Thread -> Labels]
    BY <1>7 DEF StatSource
  <2>4. \A u \in Thread : pc'[u] \in {"open", "copy", "recheck"} => before'[u] \in Signature
    BY <1>7, <2>1 DEF StatSource
  <2> QED BY <1>7, <2>2, <2>3, <2>4 DEF StatSource
<1>8. CASE OpenSource(t)
  BY <1>8 DEF OpenSource
<1>9. CASE CopyBlock(t)
  <2>1. pc[t] = "copy" /\ buf[t] \in Content
    BY <1>9 DEF CopyBlock
  <2>2. Opened(t) \in Content
    BY <2>1 DEF Opened, Signature
  <2>3. Len(buf[t]) < Len(Opened(t)) => Append(buf[t], Opened(t)[Len(buf[t]) + 1]) \in Content
    BY <2>1, <2>2 DEF Content
  <2>4. buf' \in [Thread -> Content]
    BY <1>9, <2>1, <2>3 DEF CopyBlock
  <2> QED BY <1>9, <2>4 DEF CopyBlock
<1>10. CASE FinishCopy(t)
  BY <1>10 DEF FinishCopy
<1>11. CASE Recheck(t)
  BY <1>11 DEF Recheck
<1>12. CASE WriteMetadataTemp(t)
  BY <1>12 DEF WriteMetadataTemp
<1>13. CASE LinkArtifact(t)
  <2>1. [data |-> buf[t], flushed |-> flushed[t]] \in Blob
    BY DEF Blob
  <2> QED BY <1>13, <2>1 DEF LinkArtifact
<1>14. CASE DropArtifactTemp(t)
  BY <1>14 DEF DropArtifactTemp
<1>15. CASE SyncArtifact(t)
  BY <1>15 DEF SyncArtifact, SyncDirectory
<1>16. CASE LinkMetadata(t)
  <2>1. [sum |-> buf[t], flushed |-> metaFlushed[t]] \in Marker
    BY DEF Marker
  <2> QED BY <1>16, <2>1 DEF LinkMetadata
<1>17. CASE DropMetadataTemp(t)
  BY <1>17 DEF DropMetadataTemp
<1>18. CASE SyncMetadata(t)
  BY <1>18 DEF SyncMetadata, SyncDirectory
<1>19. CASE ReturnCreated(t)
  BY <1>19 DEF ReturnCreated, Unwind, Forget, Content
<1>20. CASE ReturnExisting(t)
  <2>1. sub[t] \in Id /\ Existing(t) \in Content
    BY <1>20 DEF ReturnExisting, Existing, PairInv, PairOK, ThreadInv, ThreadOK
  <2>2. acked' \subseteq [id: Id, data: Content, by: {"create", "existing"}]
    BY <1>20, <2>1 DEF ReturnExisting
  <2> QED BY <1>20, <2>2 DEF ReturnExisting, Unwind, Forget, Content
<1>21. CASE Cleanup(t)
  <2>1. art' \in [Id -> {None} \cup Blob]
    BY <1>21 DEF Cleanup
  <2>2. pc' \in [Thread -> Labels]
    BY <1>21 DEF Cleanup
  <2>3. pc[t] = "cleanup" /\ pc'[t] \in {"cleanSync", "dropTemps"} /\ \A u \in Thread \ {t} : pc'[u] = pc[u]
    BY <1>21 DEF Cleanup
  <2>4. UNCHANGED <<source, meta, disk, tmp, locks, loc, rd, acked, left>>
    BY <1>21 DEF Cleanup
  <2> QED BY <2>1, <2>2, <2>3, <2>4
<1>22. CASE CleanupSync(t)
  BY <1>22 DEF CleanupSync, SyncDirectory
<1>23. CASE DropTemps(t)
  BY <1>23 DEF DropTemps
<1>24. CASE Raise(t)
  BY <1>24 DEF Raise, Unwind, Forget, Content
<1> QED
  BY <1>1, <1>2, <1>3, <1>4, <1>5, <1>6, <1>7, <1>8, <1>9, <1>10, <1>11, <1>12, <1>13, <1>14, <1>15, <1>16, <1>17, <1>18, <1>19, <1>20, <1>21, <1>22, <1>23, <1>24 DEF Step

\* Types survive the participant, the calls, the faults, the readers and the crashes.
LEMMA EnvironmentTypes ==
  ASSUME TypeOK, [Next]_vars, ~ \E t \in Thread : Step(t)
  PROVE TypeOK'
<1> USE HomeAssumption, NoneAssumption DEF TypeOK, Goto, source, dir, locks, loc, Labels
<1>1. CASE Edit
  <2>1. left' \in [Costs -> Nat]
    BY <1>1 DEF Edit, Pay, Costs
  <2>2. file' \in [Inode -> [data: Content, ver: Nat]] /\ path' \in Inode \cup {None}
    <3>1. ASSUME NEW n \in Inode, NEW d \in Content, Rewrite(n, d)
          PROVE <2>2
      BY <3>1 DEF Rewrite, Stamps
    <3>2. ASSUME NEW n \in Inode, OverwriteBlock(n)
          PROVE <2>2
      <4>1. PICK k \in 1..Len(file[n].data), b \in Block : Rewrite(n, [file[n].data EXCEPT ![k] = b])
        BY <3>2 DEF OverwriteBlock
      <4>2. [file[n].data EXCEPT ![k] = b] \in Content
        BY <4>1 DEF Content
      <4> QED BY <3>1, <4>1, <4>2
    <3>3. ASSUME NEW n \in Inode, AppendBlock(n)
          PROVE <2>2
      <4>1. PICK b \in Block : Rewrite(n, Append(file[n].data, b))
        BY <3>3 DEF AppendBlock
      <4>2. Append(file[n].data, b) \in Content
        BY <4>1 DEF Content
      <4> QED BY <3>1, <4>1, <4>2
    <3>4. ASSUME NEW n \in Inode, Truncate(n)
          PROVE <2>2
      <4>1. <<>> \in Content
        BY DEF Content
      <4> QED BY <3>1, <3>4, <4>1 DEF Truncate
    <3>5. ASSUME NEW p \in Inode \cup {None}, Repoint(p)
          PROVE <2>2
      BY <3>5 DEF Repoint
    <3> QED BY <1>1, <3>2, <3>3, <3>4, <3>5 DEF Edit
  <2> QED BY <1>1, <2>1, <2>2 DEF Edit
<1>2. CASE \E t \in Thread, i \in Id : Call(t, i)
  BY <1>2 DEF Call, Pay, Move, Costs
<1>3. CASE \E t \in Thread : Fault(t)
  BY <1>3 DEF Fault, Pay, Costs, Holding, TryLabels, PrologueLabels, ExitLabels
<1>4. CASE \E r \in Reader : Read(r)
  <2>1. PICK r \in Reader : Read(r)
    BY <1>4
  <2>2. rd' \in [Reader -> ReaderLocals]
    <3>1. \A i \in Id, m \in {None} \cup Marker, l \in {"artifact", "load", "hash"} :
            Reading(l, i, m) \in ReaderLocals
      BY DEF Reading, ReaderLocals
    <3>2. \A o \in {"none", "notFound", "conflict", "ok"} : ReadEnd(o) \in ReaderLocals
      BY DEF ReadEnd, ReaderLocals
    <3>3. CASE \E i \in Id : ReadMarkerStat(r, i)
      BY <3>1, <3>2, <3>3 DEF ReadMarkerStat
    <3>4. CASE ReadArtifactStat(r)
      BY <3>1, <3>2, <3>4 DEF ReadArtifactStat
    <3>5. CASE ReadMarker(r)
      BY <3>1, <3>2, <3>5 DEF ReadMarker
    <3>6. CASE ReadArtifact(r)
      BY <3>2, <3>6 DEF ReadArtifact
    <3> QED BY <2>1, <3>3, <3>4, <3>5, <3>6 DEF Read
  <2>3. \A q \in Reader : rd'[q].pc # "idle" => rd'[q].id \in Id
    <3>1. \A q \in Reader \ {r} : rd'[q] = rd[q]
      BY <2>1 DEF Read, ReadMarkerStat, ReadArtifactStat, ReadMarker, ReadArtifact
    <3>2. \A o \in {"none", "notFound", "conflict", "ok"} : ReadEnd(o).pc = "idle"
      BY DEF ReadEnd
    <3>3. \A i, m, l : Reading(l, i, m).id = i
      BY DEF Reading
    <3>4. CASE \E i \in Id : ReadMarkerStat(r, i)
      BY <3>1, <3>2, <3>3, <3>4 DEF ReadMarkerStat
    <3>5. CASE ReadArtifactStat(r)
      BY <3>1, <3>2, <3>3, <3>5 DEF ReadArtifactStat
    <3>6. CASE ReadMarker(r)
      BY <3>1, <3>2, <3>3, <3>6 DEF ReadMarker
    <3>7. CASE ReadArtifact(r)
      BY <3>1, <3>2, <3>7 DEF ReadArtifact
    <3> QED BY <2>1, <3>4, <3>5, <3>6, <3>7 DEF Read
  <2> QED BY <2>1, <2>2, <2>3 DEF Read, ReadMarkerStat, ReadArtifactStat, ReadMarker, ReadArtifact
<1>5. ASSUME NEW p \in Proc, CrashProcess(p)
      PROVE TypeOK'
  <2> DEFINE dead == {t \in Thread : Home[t] = p}
  <2>1. Forget(dead) /\ Die(dead) /\ tmp' = [i \in Id |-> Orphaned(i, dead)]
    BY <1>5 DEF CrashProcess, Die
  <2>2. left' \in [Costs -> Nat]
    BY <1>5 DEF CrashProcess, Pay, Costs
  <2>3. tmp' \in [Id -> SUBSET ((Thread \cup {None}) \X {"pt", "json"})]
    BY <2>1 DEF Orphaned
  <2> HIDE DEF dead
  <2> QED BY <1>5, <2>1, <2>2, <2>3 DEF CrashProcess, Die, Forget, Content
<1>6. CASE PowerLoss
  <2>1. \A e \in {None} \cup Blob : SettledBlob(e) \in {None} \cup Blob
    BY DEF SettledBlob, Blob
  <2>2. \A e \in {None} \cup Marker : SettledMarker(e) \in {None} \cup Marker
    BY DEF SettledMarker, Marker
  <2>3. art' \in [Id -> {None} \cup Blob] /\ meta' \in [Id -> {None} \cup Marker]
    BY <1>6, <2>1, <2>2 DEF PowerLoss
  <2>4. left' \in [Costs -> Nat]
    BY <1>6 DEF PowerLoss, Pay, Costs
  <2>5. tmp' \in [Id -> SUBSET ((Thread \cup {None}) \X {"pt", "json"})]
    BY <1>6 DEF PowerLoss, Orphaned
  <2>6. rd' = [r \in Reader |-> ReadEnd("none")] /\ ReadEnd("none") \in ReaderLocals /\ ReadEnd("none").pc = "idle"
    BY <1>6 DEF PowerLoss, ReadEnd, ReaderLocals
  <2>7. disk' \in [art: [Id -> {None} \cup Blob], meta: [Id -> {None} \cup Marker]]
    BY <1>6, <2>3 DEF PowerLoss
  <2> QED BY <1>6, <2>3, <2>4, <2>5, <2>6, <2>7 DEF PowerLoss, Die, Forget, Content
<1>7. CASE Finished \/ UNCHANGED vars
  BY <1>7 DEF Finished, vars
<1> QED BY <1>1, <1>2, <1>3, <1>4, <1>5, <1>6, <1>7 DEF Next

-----------------------------------------------------------------------------
(* The flock of an id *)

\* A step of one thread leaves every id lock with the thread that is past LockId.
LEMMA LockStep ==
  ASSUME TypeOK, LockInv, NEW t \in Thread, Step(t)
  PROVE LockInv'
<1> USE NoneAssumption DEF TypeOK, LockInv, Move, Goto, locks, loc, Holding, TryLabels, PrologueLabels, ExitLabels
<1>1. CASE LockProcess(t)
  BY <1>1 DEF LockProcess
<1>2. CASE LockId(t)
  BY <1>2 DEF LockId, IdFree
<1>3. CASE ReturnCreated(t)
  BY <1>3 DEF ReturnCreated, Unwind, Forget
<1>4. CASE ReturnExisting(t)
  BY <1>4 DEF ReturnExisting, Unwind, Forget
<1>5. CASE Raise(t)
  BY <1>5 DEF Raise, Unwind, Forget
<1>6. CASE CheckCommitted(t)
  BY <1>6 DEF CheckCommitted
<1>7. CASE SweepTemps(t)
  BY <1>7 DEF SweepTemps
<1>8. CASE ClearArtifact(t)
  BY <1>8 DEF ClearArtifact
<1>9. CASE MakeTemp(t)
  BY <1>9 DEF MakeTemp
<1>10. CASE StatSource(t)
  BY <1>10 DEF StatSource
<1>11. CASE OpenSource(t)
  BY <1>11 DEF OpenSource
<1>12. CASE CopyBlock(t)
  BY <1>12 DEF CopyBlock
<1>13. CASE FinishCopy(t)
  BY <1>13 DEF FinishCopy
<1>14. CASE Recheck(t)
  BY <1>14 DEF Recheck
<1>15. CASE WriteMetadataTemp(t)
  BY <1>15 DEF WriteMetadataTemp
<1>16. CASE LinkArtifact(t)
  BY <1>16 DEF LinkArtifact
<1>17. CASE DropArtifactTemp(t)
  BY <1>17 DEF DropArtifactTemp
<1>18. CASE SyncArtifact(t)
  BY <1>18 DEF SyncArtifact
<1>19. CASE LinkMetadata(t)
  BY <1>19 DEF LinkMetadata
<1>20. CASE DropMetadataTemp(t)
  BY <1>20 DEF DropMetadataTemp
<1>21. CASE SyncMetadata(t)
  BY <1>21 DEF SyncMetadata
<1>22. CASE Cleanup(t)
  BY <1>22 DEF Cleanup
<1>23. CASE CleanupSync(t)
  BY <1>23 DEF CleanupSync
<1>24. CASE DropTemps(t)
  BY <1>24 DEF DropTemps
<1> QED
  BY <1>1, <1>2, <1>3, <1>4, <1>5, <1>6, <1>7, <1>8, <1>9, <1>10, <1>11, <1>12, <1>13, <1>14, <1>15, <1>16, <1>17, <1>18, <1>19, <1>20, <1>21, <1>22, <1>23, <1>24 DEF Step

\* No crash leaves an id lock with a dead thread or takes it from a live one.
LEMMA LockEnvironment ==
  ASSUME TypeOK, LockInv, [Next]_vars, ~ \E t \in Thread : Step(t)
  PROVE LockInv'
<1> USE NoneAssumption DEF TypeOK, LockInv, Goto, locks, loc, Holding, TryLabels, PrologueLabels, ExitLabels
<1>1. CASE Edit
  BY <1>1 DEF Edit
<1>2. CASE \E t \in Thread, i \in Id : Call(t, i)
  BY <1>2 DEF Call, Move
<1>3. CASE \E t \in Thread : Fault(t)
  BY <1>3 DEF Fault
<1>4. CASE \E r \in Reader : Read(r)
  BY <1>4 DEF Read, ReadMarkerStat, ReadArtifactStat, ReadMarker, ReadArtifact
<1>5. ASSUME NEW p \in Proc, CrashProcess(p)
      PROVE LockInv'
  BY <1>5 DEF CrashProcess, Die, Forget
<1>6. CASE PowerLoss
  BY <1>6 DEF PowerLoss, Die, Forget
<1>7. CASE Finished \/ UNCHANGED vars
  BY <1>7 DEF Finished, vars
<1> QED BY <1>1, <1>2, <1>3, <1>4, <1>5, <1>6, <1>7 DEF Next

-----------------------------------------------------------------------------
(* The pair of files *)

\* A step of one thread keeps the pairs, what lock holders know, and the promises.
LEMMA FilesStep ==
  ASSUME TypeOK, LockInv, PairInv, ThreadInv, AckInv, NEW t \in Thread, Step(t)
  PROVE PairInv' /\ ThreadInv' /\ AckInv'
<1> USE NoneAssumption DEF TypeOK, Move, Goto, dir, loc, PairInv, PairOK, ThreadInv, ThreadOK, AckInv, Uncommitted
<1>0. \A u \in Thread \ {t} : pc[t] \in Holding /\ pc[u] \in Holding => sub[u] # sub[t]
  BY DEF LockInv
<1> USE DEF Holding, TryLabels, PrologueLabels, ExitLabels
<1>1. CASE LockProcess(t)
  BY <1>0, <1>1 DEF LockProcess
<1>2. CASE LockId(t)
  BY <1>0, <1>2 DEF LockId
<1>3. CASE CheckCommitted(t)
  BY <1>0, <1>3 DEF CheckCommitted
<1>4. CASE SweepTemps(t)
  BY <1>0, <1>4 DEF SweepTemps
<1>5. CASE ClearArtifact(t)
  <2>1. pc[t] = "clearArt" /\ UNCHANGED <<meta, disk, loc, acked>>
    BY <1>5 DEF ClearArtifact
  <2>2. art' = [art EXCEPT ![sub[t]] = None] /\ pc' = [pc EXCEPT ![t] = "clearTmp"]
    BY <1>5 DEF ClearArtifact
  <2>3. sub[t] \in Id /\ meta[sub[t]] = None
    BY <2>1
  <2>4. \A i \in Id \ {sub[t]} : art'[i] = art[i]
    BY <2>2
  <2>5. ASSUME NEW i \in Id PROVE PairOK(i)'
    BY <2>1, <2>3, <2>4
  <2>6. ASSUME NEW u \in Thread PROVE ThreadOK(u)'
    <3>1. CASE u = t
      BY <2>1, <2>2, <2>3, <3>1
    <3>2. CASE u # t
      BY <1>0, <2>1, <2>2, <2>3, <2>4, <3>2
    <3> QED BY <3>1, <3>2
  <2>7. AckInv'
    BY <2>1
  <2> HIDE DEF ThreadOK, PairOK, AckInv
  <2> QED BY <2>5, <2>6, <2>7 DEF ThreadInv, PairInv
<1>6. CASE MakeTemp(t)
  BY <1>0, <1>6 DEF MakeTemp
<1>7. CASE StatSource(t)
  BY <1>0, <1>7 DEF StatSource
<1>8. CASE OpenSource(t)
  BY <1>0, <1>8 DEF OpenSource
<1>9. CASE CopyBlock(t)
  <2>1. pc[t] = "copy" /\ pc'[t] \in {"copy", "cleanup"} /\ \A u \in Thread \ {t} : pc'[u] = pc[u] /\ buf'[u] = buf[u]
    BY <1>9 DEF CopyBlock
  <2>2. PairInv'
    BY <1>0, <1>9, <2>1 DEF CopyBlock
  <2>3. ASSUME NEW u \in Thread PROVE ThreadOK(u)'
    <3>1. CASE u = t
      BY <1>9, <2>1, <3>1 DEF CopyBlock
    <3>2. CASE u # t
      BY <1>9, <2>1, <3>2 DEF CopyBlock
    <3> QED BY <3>1, <3>2
  <2>4. AckInv'
    BY <1>0, <1>9, <2>1 DEF CopyBlock
  <2> HIDE DEF ThreadOK, PairInv, AckInv
  <2> QED BY <2>2, <2>3, <2>4 DEF ThreadInv
<1>10. CASE FinishCopy(t)
  BY <1>0, <1>10 DEF FinishCopy
<1>11. CASE Recheck(t)
  BY <1>0, <1>11 DEF Recheck
<1>12. CASE WriteMetadataTemp(t)
  BY <1>0, <1>12 DEF WriteMetadataTemp
<1>13. CASE LinkArtifact(t)
  <2>1. pc[t] = "linkArt" /\ UNCHANGED <<meta, disk, loc, acked>>
    BY <1>13 DEF LinkArtifact
  <2>2. sub[t] \in Id /\ meta[sub[t]] = None /\ flushed[t] = TRUE
    BY <2>1
  <2>3. \/ art' = art /\ pc' = [pc EXCEPT ![t] = "cleanup"]
        \/ /\ art' = [art EXCEPT ![sub[t]] = [data |-> buf[t], flushed |-> flushed[t]]]
           /\ pc' = [pc EXCEPT ![t] = "dropArtTmp"]
    BY <1>13 DEF LinkArtifact
  <2>4. \A i \in Id \ {sub[t]} : art'[i] = art[i]
    BY <2>3
  <2>5. \A u \in Thread \ {t} : pc'[u] = pc[u]
    BY <2>3
  <2>6. \/ pc'[t] = "cleanup"
        \/ pc'[t] = "dropArtTmp" /\ art'[sub[t]] = [data |-> buf[t], flushed |-> TRUE]
    <3> DEFINE b == [data |-> buf[t], flushed |-> flushed[t]]
    <3>1. b = [data |-> buf[t], flushed |-> TRUE]
      BY <2>2
    <3>2. art' = [art EXCEPT ![sub[t]] = b] => art'[sub[t]] = b
      BY <2>2
    <3>3. pc' = [pc EXCEPT ![t] = "dropArtTmp"] => pc'[t] = "dropArtTmp"
      OBVIOUS
    <3>4. pc' = [pc EXCEPT ![t] = "cleanup"] => pc'[t] = "cleanup"
      OBVIOUS
    <3> HIDE DEF b
    <3> QED BY <2>3, <3>1, <3>2, <3>3, <3>4 DEF b
  <2>7. ASSUME NEW i \in Id PROVE PairOK(i)'
    <3>1. CASE i = sub[t]
      BY <2>1, <2>2, <3>1
    <3>2. CASE i # sub[t]
      BY <2>1, <2>4, <3>2
    <3> QED BY <3>1, <3>2
  <2>8. ASSUME NEW u \in Thread PROVE ThreadOK(u)'
    <3>1. CASE u = t
      BY <2>1, <2>2, <2>6, <3>1
    <3>2. CASE u # t
      BY <1>0, <2>1, <2>4, <2>5, <3>2
    <3> QED BY <3>1, <3>2
  <2>9. AckInv'
    BY <2>1
  <2> HIDE DEF ThreadOK, PairOK, AckInv
  <2> QED BY <2>7, <2>8, <2>9 DEF ThreadInv, PairInv
<1>14. CASE DropArtifactTemp(t)
  BY <1>0, <1>14 DEF DropArtifactTemp
<1>15. CASE SyncArtifact(t)
  BY <1>0, <1>15 DEF SyncArtifact, SyncDirectory
<1>16. CASE LinkMetadata(t)
  <2>1. sub[t] \in Id /\ pc[t] = "linkMeta" /\ meta[sub[t]] = None
    BY <1>16 DEF LinkMetadata
  <2>2. metaFlushed[t] = TRUE /\ art[sub[t]] = [data |-> buf[t], flushed |-> TRUE] /\ disk.art[sub[t]] = art[sub[t]]
    BY <2>1
  <2>3. /\ meta' = [meta EXCEPT ![sub[t]] = [sum |-> buf[t], flushed |-> metaFlushed[t]]]
        /\ pc' = [pc EXCEPT ![t] = "dropMetaTmp"]
    BY <1>16, <2>1 DEF LinkMetadata
  <2>4. UNCHANGED <<art, disk, loc, acked>>
    BY <1>16 DEF LinkMetadata
  <2>5. [sum |-> buf[t], flushed |-> metaFlushed[t]] \in Marker /\ buf[t] \in Content
    BY DEF Marker
  <2>6. meta'[sub[t]].sum = buf[t] /\ meta'[sub[t]].flushed = TRUE /\ meta'[sub[t]] # None
    <3> DEFINE m == [sum |-> buf[t], flushed |-> metaFlushed[t]]
    <3>1. m.sum = buf[t] /\ m.flushed = metaFlushed[t]
      OBVIOUS
    <3>2. m # None
      BY <2>5
    <3>3. meta'[sub[t]] = m
      BY <2>1, <2>3
    <3> HIDE DEF m
    <3> QED BY <2>2, <3>1, <3>2, <3>3
  <2>7. \A i \in Id \ {sub[t]} : meta'[i] = meta[i]
    BY <2>1, <2>3
  <2>8. ASSUME NEW i \in Id PROVE PairOK(i)'
    <3>1. CASE i = sub[t]
      BY <2>1, <2>2, <2>4, <2>5, <2>6, <3>1
    <3>2. CASE i # sub[t]
      BY <2>4, <2>7, <3>2
    <3> QED BY <3>1, <3>2
  <2>9. ASSUME NEW u \in Thread PROVE ThreadOK(u)'
    <3>1. CASE u = t
      BY <2>3, <2>4, <2>6, <3>1
    <3>2. CASE u # t
      BY <1>0, <2>1, <2>3, <2>4, <2>7, <3>2
    <3> QED BY <3>1, <3>2
  <2>10. AckInv'
    BY <2>4
  <2> HIDE DEF ThreadOK, PairOK, AckInv
  <2> QED BY <2>8, <2>9, <2>10 DEF ThreadInv, PairInv
<1>17. CASE DropMetadataTemp(t)
  BY <1>0, <1>17 DEF DropMetadataTemp
<1>18. CASE SyncMetadata(t)
  BY <1>0, <1>18 DEF SyncMetadata, SyncDirectory
<1>19. CASE ReturnCreated(t)
  <2>1. sub[t] \in Id /\ disk.meta[sub[t]] # None /\ disk.meta[sub[t]].sum = buf[t]
    BY <1>19 DEF ReturnCreated
  <2>2. AckInv'
    BY <1>19, <2>1 DEF ReturnCreated
  <2> QED BY <1>0, <1>19, <2>2 DEF ReturnCreated, Unwind, Forget
<1>20. CASE ReturnExisting(t)
  BY <1>0, <1>20 DEF ReturnExisting, Unwind, Forget, Content, Existing
<1>21. CASE Cleanup(t)
  <2>1. sub[t] \in Id /\ \A i \in Id \ {sub[t]} : art'[i] = art[i]
    BY <1>21 DEF Cleanup
  <2>2. meta[sub[t]] # None => art' = art
    BY <1>21 DEF Cleanup, MustUnpublish
  <2>3. pc'[t] \in {"cleanSync", "dropTemps"} /\ \A u \in Thread \ {t} : pc'[u] = pc[u]
    BY <1>21 DEF Cleanup
  <2>4. ASSUME NEW i \in Id PROVE PairOK(i)'
    BY <1>21, <2>1, <2>2 DEF Cleanup
  <2>5. ASSUME NEW u \in Thread PROVE ThreadOK(u)'
    <3>1. CASE u = t
      BY <1>21, <2>3, <3>1 DEF Cleanup
    <3>2. CASE u # t
      BY <1>0, <1>21, <2>1, <2>3, <3>2 DEF Cleanup
    <3> QED BY <3>1, <3>2
  <2>6. AckInv'
    BY <1>0, <1>21, <2>1, <2>2, <2>3 DEF Cleanup
  <2> HIDE DEF ThreadOK, PairOK, AckInv
  <2> QED BY <2>4, <2>5, <2>6 DEF ThreadInv, PairInv
<1>22. CASE CleanupSync(t)
  BY <1>0, <1>22 DEF CleanupSync, SyncDirectory
<1>23. CASE DropTemps(t)
  BY <1>0, <1>23 DEF DropTemps
<1>24. CASE Raise(t)
  BY <1>0, <1>24 DEF Raise, Unwind, Forget, Content
<1> QED
  BY <1>1, <1>2, <1>3, <1>4, <1>5, <1>6, <1>7, <1>8, <1>9, <1>10, <1>11, <1>12, <1>13, <1>14, <1>15, <1>16, <1>17, <1>18, <1>19, <1>20, <1>21, <1>22, <1>23, <1>24 DEF Step

\* Steps that touch neither the directory nor a thread keep all three.
LEMMA FilesFrame ==
  ASSUME PairInv, ThreadInv, AckInv, UNCHANGED <<dir, pc, loc, acked>>
  PROVE PairInv' /\ ThreadInv' /\ AckInv'
<1>1. UNCHANGED <<art, meta, disk, pc, sub, buf, flushed, metaFlushed, acked>>
  BY DEF dir, loc
<1>2. PairInv'
  BY <1>1 DEF PairInv, PairOK
<1>3. ThreadInv'
  BY <1>1 DEF ThreadInv, ThreadOK, Uncommitted
<1>4. AckInv'
  BY <1>1 DEF AckInv
<1> QED BY <1>2, <1>3, <1>4

\* So do the other steps, a power loss included.
LEMMA FilesEnvironment ==
  ASSUME TypeOK, PairInv, ThreadInv, AckInv, [Next]_vars, ~ \E t \in Thread : Step(t)
  PROVE PairInv' /\ ThreadInv' /\ AckInv'
<1>1. CASE Edit
  BY <1>1, FilesFrame DEF Edit
<1>4. CASE \E r \in Reader : Read(r)
  BY <1>4, FilesFrame DEF Read, ReadMarkerStat, ReadArtifactStat, ReadMarker, ReadArtifact
<1>7. CASE Finished \/ UNCHANGED vars
  BY <1>7, FilesFrame DEF Finished, vars
<1> USE NoneAssumption DEF TypeOK, Goto, dir, loc, PairInv, PairOK, ThreadInv, ThreadOK, AckInv, Uncommitted
<1>2. CASE \E t \in Thread, i \in Id : Call(t, i)
  BY <1>2 DEF Call, Move
<1>3. CASE \E t \in Thread : Fault(t)
  BY <1>3 DEF Fault
<1>5. ASSUME NEW p \in Proc, CrashProcess(p)
      PROVE PairInv' /\ ThreadInv' /\ AckInv'
  BY <1>5 DEF CrashProcess, Die, Forget
<1>6. CASE PowerLoss
  \* No thread is left, and whichever of the two versions of an entry survives,
  \* a surviving marker's artifact was on disk before it.
  <2>1. ThreadInv'
    BY <1>6 DEF PowerLoss, Die
  <2>2. \A i \in Id :
          /\ meta'[i] # None => meta[i] # None /\ meta'[i] = meta[i] /\ art'[i] = art[i]
          /\ disk.meta[i] # None => meta'[i] = disk.meta[i]
          /\ disk'.meta[i] = meta'[i] /\ disk'.art[i] = art'[i]
    <3>1. PICK keepArt \in SUBSET Id, keepMeta \in SUBSET Id :
            /\ art' = [i \in Id |-> SettledBlob(IF i \in keepArt THEN art[i] ELSE disk.art[i])]
            /\ meta' = [i \in Id |-> SettledMarker(IF i \in keepMeta THEN meta[i] ELSE disk.meta[i])]
      BY <1>6 DEF PowerLoss
    <3>2. TAKE i \in Id
    <3>3. meta[i] = None => meta'[i] = None
      BY <3>1 DEF SettledMarker
    <3>4. meta[i] # None => meta'[i] \in {meta[i], disk.meta[i]} /\ art'[i] = art[i]
      <4>1. meta[i] # None => art[i].flushed /\ disk.art[i] = art[i]
        OBVIOUS
      <4> QED BY <3>1, <4>1 DEF SettledMarker, SettledBlob
    <3>5. disk.meta[i] # None => disk.meta[i] = meta[i] /\ meta'[i] = disk.meta[i]
      BY <3>1 DEF SettledMarker
    <3>6. disk' = [art |-> art', meta |-> meta']
      BY <1>6 DEF PowerLoss
    <3> QED BY <3>3, <3>4, <3>5, <3>6
  <2>3. PairInv'
    BY <2>2
  <2>4. AckInv'
    BY <1>6, <2>2 DEF PowerLoss
  <2> QED BY <2>1, <2>3, <2>4
<1> QED BY <1>1, <1>2, <1>3, <1>4, <1>5, <1>6, <1>7 DEF Next

\* Once a marker stands, no step but a power loss touches its pair, and once
\* the marker is on disk not even that one does.
LEMMA CommittedPairs ==
  ASSUME TypeOK, PairInv, ThreadInv, [Next]_vars
  PROVE \A i \in Id :
          /\ meta[i] # None /\ ~ PowerLoss => meta'[i] = meta[i] /\ art'[i] = art[i]
          /\ disk.meta[i] # None => meta'[i] = meta[i] /\ art'[i] = art[i]
<1>0. \A i \in Id : disk.meta[i] # None => meta[i] # None
  BY DEF PairInv, PairOK
<1> SUFFICES ASSUME NEW i \in Id, meta[i] # None, PowerLoss => disk.meta[i] # None
             PROVE meta'[i] = meta[i] /\ art'[i] = art[i]
  BY <1>0
<1>1. CASE UNCHANGED <<art, meta>>
  BY <1>1
<1>2. CASE PowerLoss
  <2>1. disk.meta[i] = meta[i] /\ disk.art[i] = art[i]
    BY <1>2 DEF PairInv, PairOK
  <2>2. meta[i].flushed /\ art[i].flushed
    <3>1. meta[i].flushed = TRUE /\ art[i] = [data |-> meta[i].sum, flushed |-> TRUE]
      BY DEF PairInv, PairOK
    <3> QED BY <3>1
  <2>3. PICK keepArt \in SUBSET Id, keepMeta \in SUBSET Id :
          /\ art' = [j \in Id |-> SettledBlob(IF j \in keepArt THEN art[j] ELSE disk.art[j])]
          /\ meta' = [j \in Id |-> SettledMarker(IF j \in keepMeta THEN meta[j] ELSE disk.meta[j])]
    BY <1>2 DEF PowerLoss
  <2> QED BY <2>1, <2>2, <2>3 DEF SettledBlob, SettledMarker
<1>3. ASSUME NEW t \in Thread, ClearArtifact(t) \/ LinkArtifact(t) \/ LinkMetadata(t) \/ Cleanup(t)
      PROVE meta'[i] = meta[i] /\ art'[i] = art[i]
  <2>1. pc[t] \in {"clearArt", "linkArt", "linkMeta"} => meta[sub[t]] = None
    BY DEF ThreadInv, ThreadOK, Uncommitted
  <2>2. CASE ClearArtifact(t)
    BY <2>1, <2>2 DEF ClearArtifact, Move, TypeOK
  <2>3. CASE LinkArtifact(t)
    BY <2>1, <2>3 DEF LinkArtifact, TypeOK
  <2>4. CASE LinkMetadata(t)
    BY <2>1, <2>4 DEF LinkMetadata, TypeOK
  <2>5. CASE Cleanup(t)
    BY <2>5 DEF Cleanup, MustUnpublish, TypeOK
  <2> QED BY <1>3, <2>2, <2>3, <2>4, <2>5
<1>4. ASSUME NEW t \in Thread, Step(t),
             ~ (ClearArtifact(t) \/ LinkArtifact(t) \/ LinkMetadata(t) \/ Cleanup(t))
      PROVE UNCHANGED <<art, meta>>
  BY <1>4 DEF Step, LockProcess, LockId, CheckCommitted, SweepTemps, MakeTemp, StatSource,
       OpenSource, CopyBlock, FinishCopy, Recheck, WriteMetadataTemp, DropArtifactTemp,
       SyncArtifact, DropMetadataTemp, SyncMetadata, ReturnCreated, ReturnExisting,
       CleanupSync, DropTemps, Raise, dir
<1>5. CASE Edit \/ Finished \/ UNCHANGED vars
  BY <1>1, <1>5 DEF Edit, Finished, vars, dir
<1>6. CASE \E t \in Thread : (\E j \in Id : Call(t, j)) \/ Fault(t)
  BY <1>1, <1>6 DEF Call, Fault, dir
<1>7. CASE \E r \in Reader : Read(r)
  BY <1>1, <1>7 DEF Read, ReadMarkerStat, ReadArtifactStat, ReadMarker, ReadArtifact, dir
<1>8. CASE \E p \in Proc : CrashProcess(p)
  BY <1>1, <1>8 DEF CrashProcess
<1> QED BY <1>1, <1>2, <1>3, <1>4, <1>5, <1>6, <1>7, <1>8 DEF Next

\* A power loss keeps or loses a marker, and makes none up.
LEMMA PowerLossMarkers ==
  ASSUME PairInv, PowerLoss
  PROVE \A i \in Id : meta'[i] # None => meta[i] # None /\ meta'[i] = meta[i]
<1>1. PICK keepArt \in SUBSET Id, keepMeta \in SUBSET Id :
        meta' = [i \in Id |-> SettledMarker(IF i \in keepMeta THEN meta[i] ELSE disk.meta[i])]
  BY DEF PowerLoss
<1>2. \A i \in Id : disk.meta[i] # None => disk.meta[i] = meta[i]
  BY DEF PairInv, PairOK
<1>3. \A i \in Id : meta[i] # None => meta[i].flushed = TRUE
  BY DEF PairInv, PairOK
<1> QED BY <1>1, <1>2, <1>3 DEF SettledMarker

-----------------------------------------------------------------------------
(* The readers *)

\* get_snapshot accepts every pair that has a marker.
LEMMA PairMatches ==
  ASSUME TypeOK, PairInv, NEW i \in Id, meta[i] # None
  PROVE art[i] # None /\ Matches(art[i], meta[i])
<1>1. meta[i].sum \in Content /\ art[i] = [data |-> meta[i].sum, flushed |-> TRUE]
  BY DEF PairInv, PairOK
<1>2. art[i] \in Blob /\ art[i].data = meta[i].sum
  BY <1>1 DEF Blob
<1> QED BY <1>1, <1>2, NoneAssumption DEF Matches

\* A marker a reader saw is still there at its next look, unless the power failed.
LEMMA ReadersStep ==
  ASSUME TypeOK, PairInv, ThreadInv, ReaderInv, [Next]_vars
  PROVE ReaderInv'
<1>1. CASE PowerLoss
  BY <1>1 DEF PowerLoss, ReaderInv, ReadEnd
<1>2. ASSUME NEW r \in Reader, Read(r)
      PROVE ReaderInv'
  <2>1. UNCHANGED meta
    BY <1>2 DEF Read, ReadMarkerStat, ReadArtifactStat, ReadMarker, ReadArtifact, dir
  <2>2. rd[r].pc # "idle" => /\ rd[r].id \in Id
                            /\ meta[rd[r].id] # None
                            /\ art[rd[r].id] # None
                            /\ Matches(art[rd[r].id], meta[rd[r].id])
    BY PairMatches DEF ReaderInv, TypeOK
  <2>3. CASE \E i \in Id : ReadMarkerStat(r, i)
    BY <2>1, <2>3 DEF ReadMarkerStat, Reading, ReadEnd, ReaderInv, TypeOK
  <2>4. CASE ReadArtifactStat(r)
    BY <2>1, <2>2, <2>4 DEF ReadArtifactStat, Reading, ReadEnd, ReaderInv, TypeOK
  <2>5. CASE ReadMarker(r)
    BY <2>1, <2>2, <2>5 DEF ReadMarker, Reading, ReadEnd, ReaderInv, TypeOK
  <2>6. CASE ReadArtifact(r)
    <3>1. rd[r].pc = "hash" /\ rd[r].marker = meta[rd[r].id]
      BY <2>6 DEF ReadArtifact, ReaderInv
    <3>2. rd' = [rd EXCEPT ![r] = ReadEnd("ok")]
      BY <2>2, <2>6, <3>1 DEF ReadArtifact
    <3> QED BY <2>1, <3>2 DEF ReadEnd, ReaderInv, TypeOK
  <2> QED BY <1>2, <2>3, <2>4, <2>5, <2>6 DEF Read
<1>3. CASE ~ PowerLoss /\ UNCHANGED rd
  <2>1. \A r \in Reader : rd[r].pc # "idle" => rd[r].id \in Id
    BY DEF TypeOK
  <2>2. \A i \in Id : meta[i] # None => meta'[i] = meta[i]
    BY <1>3, CommittedPairs
  <2>3. \A r \in Reader : rd[r].pc = "hash" => rd[r].pc # "idle"
    OBVIOUS
  <2> QED BY <1>3, <2>1, <2>2, <2>3 DEF ReaderInv
<1>4. ASSUME NEW t \in Thread, Step(t)
      PROVE UNCHANGED rd
  BY <1>4 DEF Step, LockProcess, LockId, CheckCommitted, SweepTemps, ClearArtifact, MakeTemp,
       StatSource, OpenSource, CopyBlock, FinishCopy, Recheck, WriteMetadataTemp, LinkArtifact,
       DropArtifactTemp, SyncArtifact, LinkMetadata, DropMetadataTemp, SyncMetadata,
       ReturnCreated, ReturnExisting, Cleanup, CleanupSync, DropTemps, Raise
<1>5. CASE Edit \/ Finished \/ UNCHANGED vars \/ \E p \in Proc : CrashProcess(p)
  <2>1. UNCHANGED rd
    BY <1>5 DEF Edit, Finished, vars, CrashProcess
  <2> QED BY <1>1, <1>3, <2>1
<1>6. CASE \E t \in Thread : (\E j \in Id : Call(t, j)) \/ Fault(t)
  <2>1. UNCHANGED rd
    BY <1>6 DEF Call, Fault
  <2> QED BY <1>1, <1>3, <2>1
<1> QED BY <1>1, <1>2, <1>3, <1>4, <1>5, <1>6 DEF Next

-----------------------------------------------------------------------------
(* The inductive invariant *)

\* The inductive invariant holds before the first call.
LEMMA Initially == Init => IInv
<1> SUFFICES ASSUME Init PROVE IInv
  OBVIOUS
<1>1. TypeOK
  BY InitTypes
<1>2. LockInv /\ ThreadInv
  BY DEF Init, LockInv, ThreadInv, ThreadOK, Holding, TryLabels, PrologueLabels, ExitLabels, Uncommitted
<1>3. PairInv
  BY DEF Init, PairInv, PairOK
<1>4. AckInv /\ ReaderInv
  BY DEF Init, AckInv, ReaderInv, ReadEnd
<1> QED BY <1>1, <1>2, <1>3, <1>4 DEF IInv

\* Every step of the store keeps it.
LEMMA Inductive == IInv /\ [Next]_vars => IInv'
<1> SUFFICES ASSUME IInv, [Next]_vars PROVE IInv'
  OBVIOUS
<1> USE DEF IInv
<1>1. CASE \E t \in Thread : Step(t)
  BY <1>1, StepTypes, LockStep, FilesStep, ReadersStep
<1>2. CASE ~ \E t \in Thread : Step(t)
  BY <1>2, EnvironmentTypes, LockEnvironment, FilesEnvironment, ReadersStep
<1> QED BY <1>1, <1>2

\* The inductive invariant holds in every reachable state of the store.
THEOREM Invariance == Spec => []IInv
BY Initially, Inductive, PTL DEF Spec

\* Types, for every set of threads, processes and readers (the locals of
\* create_snapshot and get_snapshot, the directory, the locks).
THEOREM TypeCorrect == Spec => []TypeOK
<1>1. IInv => TypeOK
  BY DEF IInv
<1> QED BY <1>1, Invariance, PTL

\* No interleaving, failure, crash or power loss leaves a commit marker without
\* exactly the artifact it names (module docstring of submissions.py).
THEOREM MarkersAreSound == Spec => []PairSound
<1>1. IInv => PairSound
  BY PairMatches DEF IInv, PairSound
<1> QED BY <1>1, Invariance, PTL

\* A caller told by the creating branch that its id is frozen has it on stable
\* storage for good (lines 451-456 before the return).
THEOREM CreationIsDurable == Spec => []CreatedIsDurable
<1>1. IInv => CreatedIsDurable
  <2> SUFFICES ASSUME IInv, NEW a \in acked, a.by = "create"
               PROVE /\ disk.meta[a.id] # None
                     /\ meta[a.id].sum = a.data
                     /\ Matches(disk.art[a.id], disk.meta[a.id])
    BY DEF CreatedIsDurable
  <2>1. a.id \in Id /\ disk.meta[a.id] # None /\ disk.meta[a.id].sum = a.data
    BY DEF IInv, AckInv, TypeOK
  <2>2. meta[a.id] = disk.meta[a.id] /\ disk.art[a.id] = art[a.id]
    BY <2>1 DEF IInv, PairInv, PairOK
  <2> QED BY <2>1, <2>2, PairMatches DEF IInv
<1> QED BY <1>1, Invariance, PTL

\* get_snapshot, which takes no lock, never raises SnapshotConflict while
\* create_snapshot, its failures and its crashes go on around it.
THEOREM ReadersAreSafe == Spec => []ReaderSeesNoCorruption
<1>1. IInv => ReaderSeesNoCorruption
  BY DEF IInv, ReaderInv, ReaderSeesNoCorruption
<1> QED BY <1>1, Invariance, PTL

\* No clean-up, retry, crash or power loss changes a pair on stable storage
\* (_remove_uncommitted_files, the except clause and _publish_no_replace).
THEOREM StablePairsStay == Spec => StablePairImmutable
<1>1. IInv /\ [Next]_vars =>
        [\A i \in Id : disk.meta[i] # None => meta'[i] = meta[i] /\ art'[i] = art[i]]_vars
  BY CommittedPairs DEF IInv
<1> QED BY <1>1, Invariance, PTL DEF Spec, StablePairImmutable

-----------------------------------------------------------------------------
(* Temporary names *)

\* What one creator has in the directory of its id while it needs it.
OwnTemps(t) ==
  /\ pc[t] \in TryLabels \ {"syncArt", "linkMeta", "dropMetaTmp", "syncMeta"}
       => <<t, "pt">> \in tmp[sub[t]]
  /\ pc[t] \in {"linkArt", "dropArtTmp", "syncArt", "linkMeta", "dropMetaTmp"}
       => <<t, "json">> \in tmp[sub[t]]

\* A step of a thread touches the temporary names of its own id only, and only
\* under that id's lock: nobody who needs a name there can be in the way.
LEMMA TempsStep ==
  ASSUME TypeOK, LockInv, LiveTempsIntact, NEW t \in Thread, Step(t)
  PROVE LiveTempsIntact'
<1>1. \A u \in Thread : OwnTemps(u)
  BY DEF LiveTempsIntact, OwnTemps
<1>2. OwnTemps(t)'
  <2> USE <1>1 DEF TypeOK, OwnTemps, TryLabels, Move, Goto, dir, loc
  <2>1. CASE LockProcess(t)
    BY <2>1 DEF LockProcess
  <2>2. CASE LockId(t)
    BY <2>2 DEF LockId
  <2>3. CASE CheckCommitted(t)
    BY <2>3 DEF CheckCommitted
  <2>4. CASE SweepTemps(t)
    BY <2>4 DEF SweepTemps
  <2>5. CASE ClearArtifact(t)
    BY <2>5 DEF ClearArtifact
  <2>6. CASE MakeTemp(t)
    <3>1. pc[t] = "mkTemp" /\ sub[t] \in Id /\ sub' = sub /\ pc'[t] = "stat"
      BY <2>6 DEF MakeTemp
    <3>2. tmp'[sub[t]] = tmp[sub[t]] \cup {<<t, "pt">>}
      BY <2>6, <3>1 DEF MakeTemp
    <3> QED BY <3>1, <3>2
  <2>7. CASE StatSource(t)
    BY <2>7 DEF StatSource
  <2>8. CASE OpenSource(t)
    BY <2>8 DEF OpenSource
  <2>9. CASE CopyBlock(t)
    BY <2>9 DEF CopyBlock
  <2>10. CASE FinishCopy(t)
    BY <2>10 DEF FinishCopy
  <2>11. CASE Recheck(t)
    BY <2>11 DEF Recheck
  <2>12. CASE WriteMetadataTemp(t)
    <3>1. pc[t] = "metaTemp" /\ sub[t] \in Id /\ sub' = sub /\ pc'[t] = "linkArt"
      BY <2>12 DEF WriteMetadataTemp, Labels, Holding
    <3>2. tmp'[sub[t]] = tmp[sub[t]] \cup {<<t, "json">>}
      BY <2>12, <3>1 DEF WriteMetadataTemp
    <3> QED BY <3>1, <3>2
  <2>13. CASE LinkArtifact(t)
    BY <2>13 DEF LinkArtifact
  <2>14. CASE DropArtifactTemp(t)
    <3>1. pc[t] = "dropArtTmp" /\ sub[t] \in Id /\ sub' = sub /\ pc'[t] = "syncArt"
      BY <2>14 DEF DropArtifactTemp
    <3>2. tmp'[sub[t]] = tmp[sub[t]] \ {<<t, "pt">>}
      BY <2>14, <3>1 DEF DropArtifactTemp
    <3> QED BY <3>1, <3>2
  <2>15. CASE SyncArtifact(t)
    BY <2>15 DEF SyncArtifact
  <2>16. CASE LinkMetadata(t)
    BY <2>16 DEF LinkMetadata
  <2>17. CASE DropMetadataTemp(t)
    BY <2>17 DEF DropMetadataTemp
  <2>18. CASE SyncMetadata(t)
    BY <2>18 DEF SyncMetadata
  <2>19. CASE ReturnCreated(t) \/ ReturnExisting(t) \/ Raise(t)
    BY <2>19 DEF ReturnCreated, ReturnExisting, Raise, Unwind
  <2>20. CASE Cleanup(t)
    BY <2>20 DEF Cleanup
  <2>21. CASE CleanupSync(t)
    BY <2>21 DEF CleanupSync
  <2>22. CASE DropTemps(t)
    BY <2>22 DEF DropTemps
  <2> QED
    BY <2>1, <2>2, <2>3, <2>4, <2>5, <2>6, <2>7, <2>8, <2>9, <2>10, <2>11, <2>12, <2>13,
       <2>14, <2>15, <2>16, <2>17, <2>18, <2>19, <2>20, <2>21, <2>22 DEF Step
<1>3. ASSUME NEW u \in Thread, u # t
      PROVE OwnTemps(u)'
  <2>1. pc'[u] = pc[u] /\ sub'[u] = sub[u]
    BY <1>3 DEF TypeOK, Step, LockProcess, LockId, CheckCommitted, SweepTemps, ClearArtifact,
         MakeTemp, StatSource, OpenSource, CopyBlock, FinishCopy, Recheck, WriteMetadataTemp,
         LinkArtifact, DropArtifactTemp, SyncArtifact, LinkMetadata, DropMetadataTemp,
         SyncMetadata, ReturnCreated, ReturnExisting, Cleanup, CleanupSync, DropTemps, Raise,
         Unwind, Forget, Move, Goto, loc
  <2>2. CASE pc[u] \notin TryLabels
    BY <2>1, <2>2 DEF OwnTemps, TryLabels
  <2>3. CASE pc[u] \in TryLabels
    <3>1. sub[u] \in Id /\ pc[u] \in Holding
      BY <2>3 DEF TypeOK, TryLabels, Holding
    <3>2. CASE UNCHANGED tmp
      BY <1>1, <2>1, <3>2 DEF OwnTemps
    <3>3. CASE MakeTemp(t) \/ WriteMetadataTemp(t)
      <4>1. tmp[sub[u]] \subseteq tmp'[sub[u]]
        BY <3>1, <3>3 DEF TypeOK, MakeTemp, WriteMetadataTemp
      <4> QED BY <1>1, <2>1, <4>1 DEF OwnTemps
    <3>4. CASE SweepTemps(t) \/ DropArtifactTemp(t) \/ DropMetadataTemp(t) \/ DropTemps(t)
      <4>1. pc[t] \in Holding
        BY <3>4 DEF SweepTemps, DropArtifactTemp, DropMetadataTemp, DropTemps, Move,
             Holding, TryLabels, PrologueLabels, ExitLabels
      <4>2. sub[u] # sub[t]
        BY <1>3, <3>1, <4>1 DEF LockInv
      <4>3. tmp'[sub[u]] = tmp[sub[u]]
        BY <3>1, <3>4, <4>2 DEF TypeOK, SweepTemps, DropArtifactTemp, DropMetadataTemp, DropTemps
      <4> QED BY <1>1, <2>1, <4>3 DEF OwnTemps
    <3> QED
      BY <3>2, <3>3, <3>4 DEF Step, LockProcess, LockId, CheckCommitted, ClearArtifact,
         StatSource, OpenSource, CopyBlock, FinishCopy, Recheck, LinkArtifact, SyncArtifact,
         LinkMetadata, SyncMetadata, ReturnCreated, ReturnExisting, Cleanup, CleanupSync,
         Raise, dir
  <2> QED BY <2>2, <2>3
<1> QED BY <1>2, <1>3 DEF LiveTempsIntact, OwnTemps

\* A crash renames the owner of the dead threads' temporary names only.
LEMMA TempsEnvironment ==
  ASSUME TypeOK, LiveTempsIntact, [Next]_vars, ~ \E t \in Thread : Step(t)
  PROVE LiveTempsIntact'
<1> USE DEF LiveTempsIntact, TryLabels
<1>1. CASE Edit
  BY <1>1 DEF Edit, dir, loc
<1>2. CASE \E t \in Thread, i \in Id : Call(t, i)
  BY <1>2 DEF TypeOK, Call, Move, Goto, dir
<1>3. CASE \E t \in Thread : Fault(t)
  <2>1. PICK t \in Thread : Fault(t)
    BY <1>3
  <2>2. UNCHANGED <<tmp, sub>>
    BY <2>1 DEF Fault, dir, loc
  <2>3. pc'[t] \in {"cleanup", "release", "dropTemps"} /\ \A u \in Thread \ {t} : pc'[u] = pc[u]
    BY <2>1 DEF TypeOK, Fault, Goto
  <2>4. \A u \in Thread : pc'[u] = "cleanup" => u # t \/ pc[t] \in TryLabels
    BY <2>1 DEF TypeOK, Fault, Goto
  <2> QED BY <2>2, <2>3, <2>4
<1>4. CASE \E r \in Reader : Read(r)
  BY <1>4 DEF Read, ReadMarkerStat, ReadArtifactStat, ReadMarker, ReadArtifact, dir, loc
<1>5. ASSUME NEW p \in Proc, CrashProcess(p)
      PROVE LiveTempsIntact'
  <2> DEFINE dead == {t \in Thread : Home[t] = p}
  <2>1. Die(dead) /\ tmp' = [i \in Id |-> Orphaned(i, dead)]
    BY <1>5 DEF CrashProcess
  <2> HIDE DEF dead
  <2>2. \A u \in Thread : pc'[u] # "idle" => u \notin dead /\ pc'[u] = pc[u] /\ sub'[u] = sub[u]
    BY <2>1 DEF Die, Forget
  <2>3. \A u \in Thread, i \in Id, k \in {"pt", "json"} :
          u \notin dead /\ <<u, k>> \in tmp[i] => <<u, k>> \in tmp'[i]
    BY <2>1 DEF Orphaned
  <2>4. \A u \in Thread : pc[u] # "idle" => sub[u] \in Id
    BY DEF TypeOK
  <2> QED BY <2>2, <2>3, <2>4
<1>6. CASE PowerLoss
  BY <1>6 DEF PowerLoss, Die
<1>7. CASE Finished \/ UNCHANGED vars
  BY <1>7 DEF Finished, vars, dir, loc
<1> QED BY <1>1, <1>2, <1>3, <1>4, <1>5, <1>6, <1>7 DEF Next

\* No clean-up of the same id, by any thread of any process and after any crash,
\* takes a temporary file from the creator that still needs it
\* (_remove_uncommitted_files, _remove_stale_temporary_files, the finally clause).
THEOREM TempsAreTheirOwners == Spec => []LiveTempsIntact
<1>1. Init => LiveTempsIntact
  BY DEF Init, LiveTempsIntact, TryLabels
<1>2. IInv /\ LiveTempsIntact /\ [Next]_vars => LiveTempsIntact'
  BY TempsStep, TempsEnvironment DEF IInv
<1> QED BY <1>1, <1>2, Invariance, PTL DEF Spec

-----------------------------------------------------------------------------
(* The copy *)

\* What a thread that copies knows of the file it has open, as long as nobody
\* changed it: the buffer is a beginning of it, and its length is the one seen.
CopyOK(t) ==
  /\ pc[t] \in {"idle", "wantProc", "wantId", "stat", "open"} \cup PrologueLabels => buf[t] = <<>>
  /\ pc[t] \in {"open", "copy", "recheck"} =>
       LET seen == file[before[t].ino] IN
       /\ before[t].ver <= seen.ver
       /\ before[t].ver = seen.ver =>
            /\ before[t].len = Len(seen.data)
            /\ Len(buf[t]) <= Len(seen.data)
            /\ \A k \in 1..Len(buf[t]) : buf[t][k] = seen.data[k]

CopyInv == \A t \in Thread : CopyOK(t)

\* A step of a thread changes no checkpoint, and copies what is there.
LEMMA CopyStep ==
  ASSUME TypeOK, CopyInv, NEW t \in Thread, Step(t)
  PROVE CopyInv'
<1>1. \A u \in Thread : CopyOK(u)
  BY DEF CopyInv
<1>2. UNCHANGED file
  BY DEF Step, LockProcess, LockId, CheckCommitted, SweepTemps, ClearArtifact, MakeTemp,
     StatSource, OpenSource, CopyBlock, FinishCopy, Recheck, WriteMetadataTemp, LinkArtifact,
     DropArtifactTemp, SyncArtifact, LinkMetadata, DropMetadataTemp, SyncMetadata,
     ReturnCreated, ReturnExisting, Cleanup, CleanupSync, DropTemps, Raise, source
<1>3. ASSUME NEW u \in Thread, u # t
      PROVE CopyOK(u)'
  <2>1. pc'[u] = pc[u] /\ before'[u] = before[u] /\ buf'[u] = buf[u]
    BY <1>3 DEF TypeOK, Step, LockProcess, LockId, CheckCommitted, SweepTemps, ClearArtifact,
         MakeTemp, StatSource, OpenSource, CopyBlock, FinishCopy, Recheck, WriteMetadataTemp,
         LinkArtifact, DropArtifactTemp, SyncArtifact, LinkMetadata, DropMetadataTemp,
         SyncMetadata, ReturnCreated, ReturnExisting, Cleanup, CleanupSync, DropTemps, Raise,
         Unwind, Forget, Move, Goto, loc
  <2> QED BY <1>1, <1>2, <2>1 DEF CopyOK
<1>4. CopyOK(t)'
  <2>1. CASE LockProcess(t) \/ LockId(t) \/ CheckCommitted(t) \/ SweepTemps(t) \/ ClearArtifact(t) \/ MakeTemp(t)
    <3>1. pc[t] \in {"wantProc", "wantId"} \cup PrologueLabels /\ buf' = buf
      BY <2>1 DEF LockProcess, LockId, CheckCommitted, SweepTemps, ClearArtifact, MakeTemp,
         Move, loc, PrologueLabels
    <3>2. pc'[t] \notin {"open", "copy", "recheck"}
      BY <2>1 DEF TypeOK, LockProcess, LockId, CheckCommitted, SweepTemps, ClearArtifact, MakeTemp,
         Move, Goto
    <3> QED BY <1>1, <3>1, <3>2 DEF CopyOK
  <2>2. CASE StatSource(t)
    <3>1. pc[t] = "stat" /\ buf[t] = <<>> /\ buf' = buf
      BY <1>1, <2>2 DEF StatSource, CopyOK
    <3>2. CASE path = None
      <4>1. pc'[t] = "cleanup"
        BY <2>2, <3>2 DEF TypeOK, StatSource, Goto
      <4> QED BY <3>1, <4>1 DEF CopyOK, PrologueLabels
    <3>3. CASE path # None
      <4>1. before'[t] = Sig(path) /\ path \in Inode
        BY <2>2, <3>3 DEF TypeOK, StatSource
      <4>2. file[path].data \in Seq(Block) /\ file[path].ver \in Nat
        BY <4>1 DEF TypeOK, Content
      <4>3. /\ before'[t].ino = path
            /\ before'[t].ver = file[path].ver
            /\ before'[t].len = Len(file[path].data)
        BY <4>1 DEF Sig
      <4>4. Len(buf[t]) = 0
        BY <3>1
      <4>5. \A k \in 1..Len(buf[t]) : FALSE
        BY <4>4
      <4>6. Len(buf[t]) <= Len(file[path].data)
        BY <4>2, <4>4
      <4> HIDE DEF Sig
      <4> QED BY <1>2, <3>1, <4>2, <4>3, <4>5, <4>6 DEF CopyOK
    <3> QED BY <3>2, <3>3
  <2>3. CASE OpenSource(t)
    <3>1. pc[t] = "open" /\ pc'[t] \in {"copy", "cleanup"} /\ before' = before /\ buf' = buf
      BY <2>3 DEF TypeOK, OpenSource, Goto, loc
    <3> QED BY <1>1, <1>2, <3>1 DEF CopyOK, PrologueLabels
  <2>4. CASE CopyBlock(t)
    <3>1. pc[t] = "copy" /\ before' = before
      BY <2>4 DEF CopyBlock
    <3>2. CASE pc' = [pc EXCEPT ![t] = "cleanup"]
      BY <3>2 DEF TypeOK, CopyOK, PrologueLabels
    <3>3. CASE buf' = [buf EXCEPT ![t] = Append(@, Opened(t)[Len(@) + 1])] /\ pc' = pc
      <4> DEFINE seen == file[before[t].ino]
      <4>1. before[t].ino \in Inode /\ before[t].ver \in Nat
        BY <3>1 DEF TypeOK, Signature
      <4>2. seen.data \in Seq(Block) /\ buf[t] \in Seq(Block)
        BY <4>1 DEF TypeOK, Content
      <4>3. Len(buf[t]) < Len(seen.data)
        BY <2>4 DEF CopyBlock, Opened
      <4>4. buf'[t] = Append(buf[t], seen.data[Len(buf[t]) + 1])
        BY <3>3 DEF TypeOK, Opened
      <4>5. /\ before[t].ver <= seen.ver
            /\ before[t].ver = seen.ver =>
                 /\ before[t].len = Len(seen.data)
                 /\ \A k \in 1..Len(buf[t]) : buf[t][k] = seen.data[k]
        BY <1>1, <3>1 DEF CopyOK
      <4> HIDE DEF seen
      <4>6. Len(buf'[t]) = Len(buf[t]) + 1
        BY <4>2, <4>3, <4>4
      <4>7. /\ buf'[t][Len(buf[t]) + 1] = seen.data[Len(buf[t]) + 1]
            /\ \A k \in 1..Len(buf[t]) : buf'[t][k] = buf[t][k]
        BY <4>2, <4>3, <4>4
      <4>8. Len(buf[t]) \in Nat /\ Len(seen.data) \in Nat
        BY <4>2
      <4>9. Len(buf'[t]) <= Len(seen.data)
        BY <4>3, <4>6, <4>8
      <4>10. before[t].ver = seen.ver => \A k \in 1..Len(buf'[t]) : buf'[t][k] = seen.data[k]
        BY <4>5, <4>6, <4>7, <4>8
      <4>11. seen' = seen
        BY <1>2, <3>1 DEF seen
      <4>12. pc'[t] = "copy" /\ before'[t] = before[t]
        BY <3>1, <3>3
      <4> QED BY <1>2, <4>5, <4>9, <4>10, <4>11, <4>12 DEF CopyOK, PrologueLabels, seen
    <3> QED BY <2>4, <3>2, <3>3 DEF CopyBlock, Goto
  <2>5. CASE FinishCopy(t)
    <3>1. pc[t] = "copy" /\ pc'[t] = "recheck" /\ before' = before /\ buf' = buf
      BY <2>5 DEF TypeOK, FinishCopy, Move, Goto
    <3> QED BY <1>1, <1>2, <3>1 DEF CopyOK, PrologueLabels
  <2>6. CASE ReturnCreated(t) \/ ReturnExisting(t) \/ Raise(t)
    <3>1. pc'[t] = "idle" /\ buf'[t] = <<>>
      BY <2>6 DEF TypeOK, ReturnCreated, ReturnExisting, Raise, Unwind, Goto, Forget
    <3> QED BY <3>1 DEF CopyOK
  <2>7. CASE ~ (LockProcess(t) \/ LockId(t) \/ CheckCommitted(t) \/ SweepTemps(t) \/ ClearArtifact(t)
                \/ MakeTemp(t) \/ StatSource(t) \/ OpenSource(t) \/ CopyBlock(t) \/ FinishCopy(t)
                \/ ReturnCreated(t) \/ ReturnExisting(t) \/ Raise(t))
    <3>1. pc'[t] \in {"metaTemp", "linkArt", "dropArtTmp", "syncArt", "linkMeta", "dropMetaTmp",
                      "syncMeta", "retNew", "cleanup", "cleanSync", "dropTemps", "release"}
      BY <2>7 DEF TypeOK, Step, Recheck, WriteMetadataTemp, LinkArtifact, DropArtifactTemp,
         SyncArtifact, LinkMetadata, DropMetadataTemp, SyncMetadata, Cleanup, CleanupSync,
         DropTemps, Move, Goto
    <3> QED BY <3>1 DEF CopyOK, PrologueLabels
  <2> QED BY <2>1, <2>2, <2>3, <2>4, <2>5, <2>6, <2>7
<1> QED BY <1>3, <1>4 DEF CopyInv

\* With a clock that ticks between two changes, a change of a file shows.
LEMMA EditsShow ==
  ASSUME TypeOK, ~ CoarseClock, Edit, NEW n \in Inode
  PROVE file'[n] = file[n] \/ file'[n].ver = file[n].ver + 1
<1>1. ASSUME NEW m \in Inode, NEW d, Rewrite(m, d)
      PROVE file'[n] = file[n] \/ file'[n].ver = file[n].ver + 1
  <2>1. file' = [file EXCEPT ![m] = [data |-> d, ver |-> file[m].ver + 1]]
    BY <1>1 DEF Rewrite, Stamps
  <2> QED BY <2>1 DEF TypeOK
<1>2. ASSUME NEW p \in Inode \cup {None}, Repoint(p)
      PROVE file'[n] = file[n] \/ file'[n].ver = file[n].ver + 1
  BY <1>2 DEF Repoint, TypeOK
<1> QED BY <1>1, <1>2 DEF Edit, OverwriteBlock, AppendBlock, Truncate

\* Nothing but a step of the thread itself touches its copy; an edit of the file
\* it has open moves the stamp.
LEMMA CopyEnvironment ==
  ASSUME TypeOK, CopyInv, ~ CoarseClock, [Next]_vars, ~ \E t \in Thread : Step(t)
  PROVE CopyInv'
<1>0. \A u \in Thread : CopyOK(u)
  BY DEF CopyInv
<1>1. CASE Edit
  <2>1. UNCHANGED <<pc, before, buf>>
    BY <1>1 DEF Edit, loc
  <2>2. ASSUME NEW u \in Thread PROVE CopyOK(u)'
    <3>1. CASE pc[u] \notin {"open", "copy", "recheck"}
      BY <1>0, <2>1, <3>1 DEF CopyOK
    <3>2. CASE pc[u] \in {"open", "copy", "recheck"}
      <4> DEFINE n == before[u].ino
      <4>1. n \in Inode /\ before[u].ver \in Nat
        BY <3>2 DEF TypeOK, Signature
      <4>2. file[n].ver \in Nat
        BY <4>1 DEF TypeOK
      <4>3. file'[n] = file[n] \/ file'[n].ver = file[n].ver + 1
        BY <1>1, <4>1, EditsShow
      <4>4. before[u].ver <= file[n].ver
        BY <1>0, <3>2 DEF CopyOK
      <4>5. file'[n] = file[n] \/ (before[u].ver <= file'[n].ver /\ before[u].ver # file'[n].ver)
        BY <4>1, <4>2, <4>3, <4>4
      <4>6. CASE file'[n] = file[n]
        BY <1>0, <2>1, <4>6 DEF CopyOK
      <4>7. CASE before[u].ver <= file'[n].ver /\ before[u].ver # file'[n].ver
        BY <1>0, <2>1, <4>7 DEF CopyOK
      <4> QED BY <4>5, <4>6, <4>7
    <3> QED BY <3>1, <3>2
  <2> QED BY <2>2 DEF CopyInv
<1>2. CASE \E t \in Thread, i \in Id : Call(t, i)
  <2>1. PICK t \in Thread : pc[t] = "idle" /\ pc' = [pc EXCEPT ![t] = "wantProc"]
    BY <1>2 DEF Call, Move, Goto
  <2>2. UNCHANGED <<file, before, buf>>
    BY <1>2 DEF Call, source
  <2>3. CopyOK(t)'
    BY <1>0, <2>1, <2>2 DEF TypeOK, CopyOK
  <2>4. \A u \in Thread \ {t} : CopyOK(u)'
    BY <1>0, <2>1, <2>2 DEF TypeOK, CopyOK
  <2> QED BY <2>3, <2>4 DEF CopyInv
<1>3. CASE \E t \in Thread : Fault(t)
  <2>1. PICK t \in Thread : Fault(t)
    BY <1>3
  <2>2. UNCHANGED <<file, before, buf>>
    BY <2>1 DEF Fault, source, loc
  <2>3. pc'[t] \in {"cleanup", "release", "dropTemps"} /\ \A u \in Thread \ {t} : pc'[u] = pc[u]
    BY <2>1 DEF TypeOK, Fault, Goto
  <2>4. CopyOK(t)'
    BY <2>3 DEF CopyOK, PrologueLabels
  <2>5. \A u \in Thread \ {t} : CopyOK(u)'
    BY <1>0, <2>2, <2>3 DEF CopyOK
  <2> QED BY <2>4, <2>5 DEF CopyInv
<1>4. ASSUME NEW dead, Die(dead), UNCHANGED file
      PROVE CopyInv'
  <2>1. ASSUME NEW u \in Thread PROVE CopyOK(u)'
    <3>1. CASE u \in dead
      <4>1. pc'[u] = "idle" /\ buf'[u] = <<>>
        BY <1>4, <3>1 DEF Die, Forget
      <4> QED BY <4>1 DEF CopyOK
    <3>2. CASE u \notin dead
      <4>1. pc'[u] = pc[u] /\ before'[u] = before[u] /\ buf'[u] = buf[u]
        BY <1>4, <3>2 DEF Die, Forget
      <4> QED BY <1>0, <1>4, <4>1 DEF CopyOK
    <3> QED BY <3>1, <3>2
  <2> QED BY <2>1 DEF CopyInv
<1>5. CASE PowerLoss \/ \E p \in Proc : CrashProcess(p)
  <2>1. UNCHANGED file /\ \E dead : Die(dead)
    BY <1>5 DEF PowerLoss, CrashProcess, source
  <2> QED BY <1>4, <2>1
<1>6. CASE (\E r \in Reader : Read(r)) \/ Finished \/ UNCHANGED vars
  <2>1. UNCHANGED <<file, pc, before, buf>>
    BY <1>6 DEF Read, ReadMarkerStat, ReadArtifactStat, ReadMarker, ReadArtifact, Finished, vars,
       source, loc
  <2> QED BY <1>0, <2>1 DEF CopyInv, CopyOK
<1> QED BY <1>1, <1>2, <1>3, <1>5, <1>6 DEF Next

\* A copy that passes the re-check is the file that the path names at that instant.
LEMMA RecheckIsExact ==
  ASSUME TypeOK, CopyInv, NEW t \in Thread, pc[t] = "recheck", SourceStable(t)
  PROVE path # None /\ buf[t] = file[path].data
<1>1. path \in Inode /\ path # None
  BY DEF SourceStable, TypeOK
<1>2. Sig(path).ino = path /\ Sig(path).ver = file[path].ver /\ Sig(path).len = Len(file[path].data)
  BY DEF Sig
<1>3. before[t].ino = path /\ before[t].ver = file[path].ver /\ Len(buf[t]) = before[t].len
  BY <1>2 DEF SourceStable
<1>4. before[t].len = Len(file[path].data) /\ \A k \in 1..Len(buf[t]) : buf[t][k] = file[path].data[k]
  BY <1>3 DEF CopyInv, CopyOK
<1>5. buf[t] \in Seq(Block) /\ file[path].data \in Seq(Block)
  BY <1>1 DEF TypeOK, Content
<1>6. Len(buf[t]) = Len(file[path].data)
  BY <1>3, <1>4
<1>7. buf[t] = file[path].data
  BY <1>4, <1>5, <1>6
<1> QED BY <1>1, <1>7

\* What create_snapshot is about to publish is a state of the checkpoint, the
\* current one: the two signatures and the length exclude every mixture, for
\* files of any length and any number of edits (lines 403-431).  It needs a file
\* system clock that ticks between two changes of one file: a same-size rewrite
\* within a tick is the exception that the code cannot see.
THEOREM CopiesAreExact == ~ CoarseClock => (Spec => FrozenIsCurrent)
<1> SUFFICES ASSUME ~ CoarseClock
             PROVE Spec => FrozenIsCurrent
  OBVIOUS
<1>1. Init => CopyInv
  BY DEF Init, CopyInv, CopyOK
<1>2. IInv /\ CopyInv /\ [Next]_vars => CopyInv'
  BY CopyStep, CopyEnvironment DEF IInv
<1>3. IInv /\ CopyInv /\ [Next]_vars =>
        [\A t \in Thread :
           pc[t] = "recheck" /\ pc'[t] = "metaTemp" => path # None /\ buf[t] = file[path].data]_vars
  <2> SUFFICES ASSUME TypeOK, CopyInv, Next, NEW t \in Thread, pc[t] = "recheck", pc'[t] = "metaTemp"
               PROVE SourceStable(t)
    BY RecheckIsExact DEF IInv
  <2>1. CASE \E u \in Thread : Step(u)
    <3>1. PICK u \in Thread : Step(u)
      BY <2>1
    <3>2. u = t
      BY <3>1 DEF TypeOK, Step, LockProcess, LockId, CheckCommitted, SweepTemps, ClearArtifact,
           MakeTemp, StatSource, OpenSource, CopyBlock, FinishCopy, Recheck, WriteMetadataTemp,
           LinkArtifact, DropArtifactTemp, SyncArtifact, LinkMetadata, DropMetadataTemp,
           SyncMetadata, ReturnCreated, ReturnExisting, Cleanup, CleanupSync, DropTemps, Raise,
           Unwind, Move, Goto
    <3>3. Recheck(t)
      BY <3>1, <3>2 DEF Step, LockProcess, LockId, CheckCommitted, SweepTemps, ClearArtifact,
           MakeTemp, StatSource, OpenSource, CopyBlock, FinishCopy, WriteMetadataTemp,
           LinkArtifact, DropArtifactTemp, SyncArtifact, LinkMetadata, DropMetadataTemp,
           SyncMetadata, ReturnCreated, ReturnExisting, Cleanup, CleanupSync, DropTemps, Raise, Move
    <3> QED BY <3>3 DEF TypeOK, Recheck, Goto
  <2>2. CASE ~ \E u \in Thread : Step(u)
    BY <2>2 DEF TypeOK, Next, Edit, Call, Fault, Read, ReadMarkerStat, ReadArtifactStat, ReadMarker,
       ReadArtifact, CrashProcess, PowerLoss, Die, Finished, vars, Move, Goto
  <2> QED BY <2>1, <2>2
<1> QED BY <1>1, <1>2, <1>3, Invariance, PTL DEF Spec, FrozenIsCurrent

-----------------------------------------------------------------------------
(* Refinement *)

\* The empty directory is the empty map.
LEMMA MapInit == Init => Map!DInit
BY DEF Init, Map!DInit, Contents, Promises

\* LinkMetadata freezes, the directory fsyncs flush, ReturnCreated promises, a power
\* loss is a power cut, and every other step leaves the map alone.
LEMMA MapStep ==
  ASSUME IInv, [Next]_vars
  PROVE [Map!DNext]_(Map!mapVars)
<1> USE DEF IInv
<1>1. CASE UNCHANGED <<meta, disk, acked>>
  BY <1>1 DEF Map!mapVars, Contents, Promises
<1>2. ASSUME NEW t \in Thread, LinkMetadata(t), pc[t] = "linkMeta", meta[sub[t]] = None
      PROVE Map!DNext
  <2>1. sub[t] \in Id /\ buf[t] \in Content /\ UNCHANGED <<disk, acked>>
    BY <1>2 DEF LinkMetadata, TypeOK
  <2>2. [sum |-> buf[t], flushed |-> metaFlushed[t]] \in Marker /\ buf[t] # None
    BY <2>1, NoneAssumption DEF Marker, TypeOK
  <2>3. meta' = [meta EXCEPT ![sub[t]] = [sum |-> buf[t], flushed |-> metaFlushed[t]]]
    BY <1>2 DEF LinkMetadata
  <2>4. meta'[sub[t]] # None /\ meta'[sub[t]].sum = buf[t]
    BY <2>1, <2>2, <2>3, NoneAssumption DEF TypeOK
  <2>5. \A i \in Id \ {sub[t]} : meta'[i] = meta[i]
    BY <2>1, <2>3 DEF TypeOK
  <2>6. Contents(meta)[sub[t]] = None /\ Contents(meta)'[sub[t]] = buf[t]
    BY <1>2, <2>1, <2>4 DEF Contents
  <2>7. Contents(meta)' = [Contents(meta) EXCEPT ![sub[t]] = buf[t]]
    BY <2>1, <2>4, <2>5 DEF Contents
  <2>8. UNCHANGED <<Contents(disk.meta), Promises>>
    BY <2>1 DEF Contents, Promises
  <2>9. Map!Freeze(sub[t], Contents(meta)'[sub[t]])
    BY <2>6, <2>7, <2>8 DEF Map!Freeze
  <2> QED BY <2>1, <2>2, <2>6, <2>9 DEF Map!DNext
<1>3. CASE SyncDirectory /\ UNCHANGED <<meta, acked>>
  BY <1>3 DEF SyncDirectory, Map!DNext, Map!Flush, Contents, Promises
<1>4. ASSUME NEW t \in Thread, ReturnCreated(t)
      PROVE Map!DNext
  <2>1. sub[t] \in Id /\ disk.meta[sub[t]] # None /\ disk.meta[sub[t]].sum = buf[t]
    BY <1>4 DEF ReturnCreated, TypeOK, PairInv, PairOK, ThreadInv, ThreadOK
  <2>2. UNCHANGED <<meta, disk>> /\ acked' = acked \cup {[id |-> sub[t], data |-> buf[t], by |-> "create"]}
    BY <1>4 DEF ReturnCreated, dir
  <2>3. Promises' = Promises \cup {<<sub[t], buf[t]>>}
    <3> DEFINE new == [id |-> sub[t], data |-> buf[t], by |-> "create"]
    <3>1. new.id = sub[t] /\ new.data = buf[t] /\ new.by = "create"
      OBVIOUS
    <3>2. {b \in acked' : b.by = "create"} = {b \in acked : b.by = "create"} \cup {new}
      BY <2>2, <3>1
    <3> HIDE DEF new
    <3> QED BY <3>1, <3>2 DEF Promises
  <2>4. Contents(disk.meta)[sub[t]] = buf[t] /\ buf[t] # None
    BY <2>1, NoneAssumption DEF Contents, TypeOK
  <2>5. UNCHANGED <<Contents(meta), Contents(disk.meta)>>
    BY <2>2 DEF Contents
  <2>6. Map!Promise(sub[t])
    BY <2>3, <2>4, <2>5 DEF Map!Promise
  <2> QED BY <2>1, <2>6 DEF Map!DNext
<1>5. ASSUME NEW t \in Thread, ReturnExisting(t)
      PROVE UNCHANGED Map!mapVars
  <2>1. UNCHANGED <<meta, disk>> /\ acked' = acked \cup {[id |-> sub[t], data |-> Existing(t), by |-> "existing"]}
    BY <1>5 DEF ReturnExisting, dir
  <2>2. {b \in acked' : b.by = "create"} = {b \in acked : b.by = "create"}
    BY <2>1
  <2> QED BY <2>1, <2>2 DEF Map!mapVars, Contents, Promises
<1>6. CASE PowerLoss
  <2> DEFINE gone == {i \in Id : meta[i] # None /\ meta'[i] = None}
  <2>1. \A i \in Id :
          /\ meta[i] = None => meta'[i] = None
          /\ meta'[i] # None => meta'[i] = meta[i]
          /\ disk.meta[i] # None => meta'[i] = meta[i] /\ meta[i] # None
    BY <1>6, PowerLossMarkers, CommittedPairs DEF PairInv, PairOK
  <2>2. disk'.meta = meta' /\ UNCHANGED acked
    BY <1>6 DEF PowerLoss
  <2>3. \A i \in Id : meta[i] # None => meta[i].sum # None
    BY NoneAssumption DEF PairInv, PairOK
  <2>4. gone \in SUBSET {i \in Id : Contents(disk.meta)[i] = None}
    BY <2>1 DEF Contents
  <2>5. Contents(meta)' = [i \in Id |-> IF i \in gone THEN None ELSE Contents(meta)[i]]
    BY <2>1 DEF Contents
  <2>6. Contents(disk.meta)' = Contents(meta)' /\ UNCHANGED Promises
    BY <2>2 DEF Contents, Promises
  <2> HIDE DEF gone
  <2>7. Map!PowerCut
    BY <2>4, <2>5, <2>6 DEF Map!PowerCut
  <2> QED BY <2>7 DEF Map!DNext
<1>7. ASSUME NEW t \in Thread, Step(t)
      PROVE [Map!DNext]_(Map!mapVars)
  <2>1. CASE SyncArtifact(t) \/ SyncMetadata(t) \/ CleanupSync(t)
    BY <1>3, <2>1 DEF SyncArtifact, SyncMetadata, CleanupSync
  <2>2. CASE LinkMetadata(t)
    BY <1>1, <1>2, <2>2 DEF LinkMetadata
  <2>3. CASE ReturnCreated(t) \/ ReturnExisting(t)
    BY <1>4, <1>5, <2>3
  <2>4. CASE ~ (SyncArtifact(t) \/ SyncMetadata(t) \/ CleanupSync(t) \/ LinkMetadata(t)
                \/ ReturnCreated(t) \/ ReturnExisting(t))
    <3>1. UNCHANGED <<meta, disk, acked>>
      BY <1>7, <2>4 DEF Step, LockProcess, LockId, CheckCommitted, SweepTemps, ClearArtifact,
           MakeTemp, StatSource, OpenSource, CopyBlock, FinishCopy, Recheck,
           WriteMetadataTemp, LinkArtifact, DropArtifactTemp, DropMetadataTemp, Cleanup,
           DropTemps, Raise, dir
    <3> QED BY <1>1, <3>1
  <2> QED BY <2>1, <2>2, <2>3, <2>4
<1>8. CASE Edit \/ Finished \/ UNCHANGED vars \/ \E p \in Proc : CrashProcess(p)
  <2>1. UNCHANGED <<meta, disk, acked>>
    BY <1>8 DEF Edit, Finished, vars, CrashProcess, dir
  <2> QED BY <1>1, <2>1
<1>9. CASE \E t \in Thread : (\E j \in Id : Call(t, j)) \/ Fault(t)
  <2>1. UNCHANGED <<meta, disk, acked>>
    BY <1>9 DEF Call, Fault, dir
  <2> QED BY <1>1, <2>1
<1>10. CASE \E r \in Reader : Read(r)
  <2>1. UNCHANGED <<meta, disk, acked>>
    BY <1>10 DEF Read, ReadMarkerStat, ReadArtifactStat, ReadMarker, ReadArtifact, dir
  <2> QED BY <1>1, <2>1
<1> QED BY <1>6, <1>7, <1>8, <1>9, <1>10 DEF Next

\* The store, with its crashes and power losses, implements the write-once
\* durable map: the protocol of create_snapshot and get_snapshot as a whole.
THEOREM Refinement == Spec => ImplementsMap
BY Invariance, MapInit, MapStep, PTL DEF Spec, ImplementsMap, Map!DSpec
==============================================================================
