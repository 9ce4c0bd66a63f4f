---------------------------- MODULE InstallerProofs ----------------------------
(***************************************************************************)
(* For every set of releases and every number of faults: what a run has     *)
(* installed and synced survives kills and power losses, whatever the        *)
(* operator deploys.  Without power losses, what verify-ready accepts is the *)
(* pinned release, and if the operator only upgrades, no run meets a marker  *)
(* over data that does not verify.                                          *)
(***************************************************************************)
EXTENDS Installer, TLAPS

TypeInv ==
  /\ root \in [Path -> Content] /\ staging \in [Path -> Content]
  /\ marker \in Marker \cup {None}
  /\ pins \in Release /\ done \in Release \cup {None}
  /\ pc \in Labels /\ at \in 1..5
  /\ disk \in [root : [Path -> Content], marker : Marker \cup {None}]
  /\ powers \in Nat

\* The marker that write_marker gives a whole release
MarkerOf(r) == [pins |-> r, digests |-> [p \in Digested |-> r]]

Installed == {"mark", "publish", "sync", "cleanup"}

\* What a run has made so far is the pinned release, which is sound.
PhaseInv ==
  /\ at # 1 => pc \in {"remove", "move"}
  /\ pc \in {"extract", "validate"} => archive = pins
  /\ pc \in {"validate", "remove"} => Whole(staging, pins)
  /\ pc \in {"remove", "move"} \cup Installed => pins \notin Broken
  /\ pc = "move" => \A i \in 1..5 : IF i < at THEN root[Order[i]] = pins ELSE staging[Order[i]] = pins
  /\ pc \in Installed => Whole(root, pins)
  /\ pc \in {"sync", "cleanup"} => marker = MarkerOf(pins)
  /\ pc = "cleanup" => unsynced = {}

\* What a run has completed is on disk, until a run begins to remove it.
DoneInv ==
  done # None => /\ done \notin Broken
                 /\ Whole(root, done)
                 /\ marker = MarkerOf(done)
                 /\ unsynced = {}
                 /\ pc \notin {"move"} \cup Installed

\* The marker stands for its release or for nothing: the manifest goes first,
\* and comes back with the marker's pins only with everything else.
MarkerInv ==
  /\ marker # None => marker = MarkerOf(marker.pins) /\ marker.pins \in Release \ Broken
  /\ marker # None /\ root["manifest"] = marker.pins => Whole(root, marker.pins)
  /\ pc \in {"fetch", "inspect", "extract", "validate", "remove", "move", "mark", "publish"} => ~MarkerMatches(marker, pins)
  /\ pc = "remove" /\ at # 1 => root["manifest"] = Missing

\* The pins never go back to a release that has been replaced.
OnlyUpgrades ==
  /\ \A r \in Release : <<r, r>> \notin Repins
  /\ \A r, s, t \in Release : <<r, s>> \in Repins /\ <<s, t>> \in Repins => <<r, t>> \in Repins

\* A marker over other data is older than the pins.
UpgradeInv ==
  /\ marker # None => marker.pins = pins \/ <<marker.pins, pins>> \in Repins
  /\ marker # None /\ ~Whole(root, marker.pins) => <<marker.pins, pins>> \in Repins
  /\ outcome # "unverifiable"

IInv == TypeInv /\ PhaseInv /\ DoneInv

-----------------------------------------------------------------------------
(* The paths *)

\* The five paths in their order, the manifest first
LEMMA Paths ==
  /\ Len(Order) = 5
  /\ \A i \in 1..5 : Order[i] \in Path
  /\ \A p \in Path : \E i \in 1..5 : Order[i] = p
  /\ \A i, j \in 1..5 : Order[i] = Order[j] => i = j
  /\ \A i \in 1..5 : Order[i] = "manifest" <=> i = 1
<1>1. /\ Order[1] = "manifest" /\ Order[2] = "images" /\ Order[3] = "model"
      /\ Order[4] = "splits" /\ Order[5] = "cache" /\ Len(Order) = 5
  BY DEF Order
<1>2. \A i \in 1..5 : i = 1 \/ i = 2 \/ i = 3 \/ i = 4 \/ i = 5
  OBVIOUS
<1> QED
  BY <1>1, <1>2 DEF Path

-----------------------------------------------------------------------------
(* Steps *)

\* A step of a run keeps the types.
LEMMA StepTypes ==
  ASSUME TypeInv, PhaseInv, Start \/ Step \/ Crash \/ Repin
  PROVE  TypeInv'
<1> USE InstallerNames, InstallerNone DEF TypeInv, Labels, Content, Goto, Exit, files, env, run
<1>1. CASE Start \/ AlreadyInstalled \/ Unverifiable \/ Reinstall \/ Inspect \/ ValidateStaging \/ WriteMarker \/ Complete
  <2>1. UNCHANGED <<root, marker, disk, pins, powers>> /\ staging' \in {staging, Nothing} /\ done' \in {done, pins}
        /\ pc' \in Labels /\ at' \in {at, 1}
    BY <1>1 DEF Start, AlreadyInstalled, Unverifiable, Reinstall, Inspect, ValidateStaging, WriteMarker, Complete, CleanUp
  <2> QED
    BY <2>1 DEF Nothing
<1>2. CASE Download \/ Crash
  BY <1>2 DEF Download, Crash, Fault
<1>3. CASE Repin
  BY <1>3 DEF Repin
<1>4. CASE Extract
  BY <1>4 DEF Extract, PhaseInv
<1>5. CASE Remove \/ Move
  BY <1>5, Paths DEF Remove, Move
<1>6. CASE Publish
  BY <1>6 DEF Publish, Marker, Digested
<1>7. CASE Sync
  BY <1>7 DEF Sync, Disk
<1> QED
  BY <1>1, <1>2, <1>3, <1>4, <1>5, <1>6, <1>7 DEF Step

\* A step of a run keeps what its phase says.
LEMMA StepPhases ==
  ASSUME TypeInv, PhaseInv, Start \/ Step \/ Crash \/ Repin
  PROVE  PhaseInv'
<1> USE InstallerNames DEF TypeInv, PhaseInv, Installed, Whole, Goto, Exit, files, env, run
<1>1. CASE Start \/ AlreadyInstalled \/ Unverifiable \/ Reinstall \/ Complete \/ Crash \/ Repin
  BY <1>1 DEF Start, AlreadyInstalled, Unverifiable, Reinstall, Complete, Crash, Fault, Repin
<1>2. CASE Download \/ Inspect
  BY <1>2 DEF Download, Inspect, Fault
<1>3. CASE Extract
  BY <1>3 DEF Extract
<1>4. CASE ValidateStaging
  <2>1. ASSUME Validates(staging, pins), Whole(staging, pins) PROVE pins \notin Broken
    BY <2>1 DEF Validates, Path
  <2> QED
    BY <1>4, <2>1 DEF ValidateStaging
<1>5. CASE Remove
  <2>1. pc = "remove" /\ UNCHANGED <<staging, pins>> /\ pc' \in {"remove", "move"} /\ (pc' = "move" => at' = 1)
    BY <1>5, Paths DEF Remove
  <2>2. \A i \in 1..5 : staging[Order[i]] = pins
    BY <2>1, Paths
  <2> QED
    BY <2>1, <2>2
<1>6. CASE Move
  <2>1. Order[at] \in Path /\ root' = [root EXCEPT ![Order[at]] = staging[Order[at]]]
        /\ staging' = [staging EXCEPT ![Order[at]] = Missing] /\ pins' = pins /\ pc = "move"
        /\ at' = (IF at = 5 THEN 1 ELSE at + 1) /\ pc' = (IF at = 5 THEN "mark" ELSE "move")
    BY <1>6, Paths DEF Move
  <2>2. \A i \in 1..5 : i <= at => root'[Order[i]] = pins
    BY <2>1, Paths
  <2>3. \A i \in 1..5 : i > at => staging'[Order[i]] = pins
    BY <2>1, Paths
  <2>4. CASE at = 5
    <3>1. \A p \in Path : root'[p] = pins
      BY <2>2, <2>4, Paths
    <3> QED
      BY <2>1, <2>4, <3>1
  <2>5. CASE at # 5
    BY <2>1, <2>2, <2>3, <2>5
  <2> QED
    BY <2>4, <2>5
<1>7. CASE WriteMarker
  BY <1>7 DEF WriteMarker
<1>8. CASE Publish
  <2>1. marker' = MarkerOf(pins)
    BY <1>8 DEF Publish, MarkerOf, Digested
  <2> QED
    BY <1>8, <2>1 DEF Publish
<1>9. CASE Sync
  BY <1>9 DEF Sync
<1> QED
  BY <1>1, <1>2, <1>3, <1>4, <1>5, <1>6, <1>7, <1>8, <1>9 DEF Step

\* A step of a run keeps what the last one has completed.
LEMMA StepDone ==
  ASSUME TypeInv, PhaseInv, DoneInv, Start \/ Step \/ Crash \/ Repin
  PROVE  DoneInv'
<1> USE InstallerNames DEF DoneInv, Installed, Whole, Goto, Exit, files, env, run
<1>1. CASE Complete
  BY <1>1 DEF Complete, PhaseInv
<1>2. CASE Remove
  BY <1>2 DEF Remove
<1>3. CASE Move \/ WriteMarker \/ Publish \/ Sync
  BY <1>3 DEF Move, WriteMarker, Publish, Sync
<1>4. CASE Start \/ AlreadyInstalled \/ Unverifiable \/ Reinstall \/ Download \/ Inspect \/ Extract \/ ValidateStaging \/ Crash \/ Repin
  BY <1>4 DEF Start, AlreadyInstalled, Unverifiable, Reinstall, Download, Inspect, Extract, ValidateStaging, Crash, Repin
<1> QED
  BY <1>1, <1>2, <1>3, <1>4 DEF Step

\* A power loss takes nothing that has been synced.
LEMMA PowerKeeps ==
  ASSUME IInv, PowerLoss
  PROVE  IInv'
<1> USE InstallerNames DEF IInv, TypeInv, Content, Labels, Exit
<1>1. PICK f \in [Path -> {"kept", "undone", "torn"}], keep \in BOOLEAN :
        /\ \A p \in Path \ unsynced : f[p] = "kept"
        /\ root' = [p \in Path |-> CASE f[p] = "kept" -> root[p]
                                     [] f[p] = "undone" -> disk.root[p]
                                     [] f[p] = "torn" -> Torn]
        /\ marker' = IF "marker" \in unsynced /\ ~keep THEN disk.marker ELSE marker
  BY DEF PowerLoss
<1>2. pc' = "idle" /\ at' = 1 /\ disk' = Disk(root', marker') /\ unsynced' = {} /\ powers' = powers + 1
      /\ UNCHANGED <<staging, done, pins>>
  BY DEF PowerLoss
<1>3. TypeInv'
  <2>1. root' \in [Path -> Content]
    <3>1. \A p \in Path : (CASE f[p] = "kept" -> root[p] [] f[p] = "undone" -> disk.root[p] [] f[p] = "torn" -> Torn) \in Content
      BY <1>1
    <3> QED
      BY <1>1, <3>1
  <2>2. marker' \in Marker \cup {None}
    BY <1>1
  <2> QED
    BY <1>2, <2>1, <2>2 DEF Disk
<1>4. PhaseInv'
  BY <1>2 DEF PhaseInv, Installed
<1>5. DoneInv'
  <2>1. CASE done = None
    BY <1>2, <2>1 DEF DoneInv
  <2>2. CASE done # None
    <3>1. unsynced = {}
      BY <2>2 DEF DoneInv
    <3>2. marker' = marker /\ \A p \in Path : root'[p] = root[p]
      BY <1>1, <3>1
    <3> QED
      BY <1>2, <2>2, <3>2 DEF DoneInv, Whole, Installed
  <2> QED
    BY <2>1, <2>2
<1> QED
  BY <1>3, <1>4, <1>5

\* Without power losses, a step keeps what the marker says.
LEMMA StepMarker ==
  ASSUME TypeInv, PhaseInv, MarkerInv, Start \/ Step \/ Crash \/ Repin
  PROVE  MarkerInv'
<1> USE InstallerNames, InstallerNone DEF TypeInv, MarkerInv, MarkerMatches, Installed, Goto, Exit, files, env, run
<1>1. CASE Start \/ AlreadyInstalled \/ Unverifiable \/ Reinstall \/ Download \/ Inspect \/ Extract \/ ValidateStaging
           \/ WriteMarker \/ Sync \/ Complete \/ Crash \/ Repin
  <2>1. UNCHANGED <<root, marker>>
    BY <1>1 DEF Start, AlreadyInstalled, Unverifiable, Reinstall, Download, Inspect, Extract, ValidateStaging,
      WriteMarker, Sync, Complete, Crash, Repin
  <2>2. pc' \in {"fetch", "inspect", "extract", "validate", "remove", "move", "mark", "publish"} => ~MarkerMatches(marker, pins)
        /\ pins' = pins
    BY <1>1 DEF Start, AlreadyInstalled, Unverifiable, Reinstall, Download, Inspect, Extract, ValidateStaging,
      WriteMarker, Sync, Complete, Crash, Repin, Fault
  <2>3. pc' = "remove" => at' = 1
    BY <1>1 DEF Start, AlreadyInstalled, Unverifiable, Reinstall, Download, Inspect, Extract, ValidateStaging,
      WriteMarker, Sync, Complete, Crash, Repin, PhaseInv
  <2> QED
    BY <2>1, <2>2, <2>3 DEF Whole
<1>2. CASE Remove
  <2>1. root'["manifest"] = Missing /\ UNCHANGED <<marker, pins>> /\ pc = "remove" /\ pc' \in {"remove", "move"}
    BY <1>2, Paths DEF Remove, Path
  <2> QED
    BY <2>1
<1>3. CASE Move
  <2>1. UNCHANGED <<marker, pins>> /\ pc = "move" /\ pc' \in {"move", "mark"}
    BY <1>3 DEF Move
  <2>2. root'["manifest"] = pins
    BY <1>3, Paths DEF Move, PhaseInv, Path
  <2> QED
    BY <2>1, <2>2
<1>4. CASE Publish
  <2>1. marker' = MarkerOf(pins) /\ Whole(root, pins) /\ pins \notin Broken /\ UNCHANGED <<root, pins>> /\ pc' = "sync"
    BY <1>4 DEF Publish, MarkerOf, Digested, PhaseInv, Whole
  <2> QED
    BY <2>1 DEF MarkerOf, Whole
<1> QED
  BY <1>1, <1>2, <1>3, <1>4 DEF Step

\* If the pins only go forward, no marker that matches is over other data.
LEMMA StepUpgrade ==
  ASSUME OnlyUpgrades, TypeInv, PhaseInv, MarkerInv, UpgradeInv, Start \/ Step \/ Crash \/ Repin
  PROVE  UpgradeInv'
<1> USE InstallerNames, InstallerNone DEF TypeInv, UpgradeInv, Goto, Exit, files, env, run
<1>1. CASE Unverifiable
  <2>1. marker # None /\ marker.pins = pins /\ ~FullyVerified(root, marker, pins)
    BY <1>1 DEF Unverifiable, MarkerMatches
  <2>2. <<pins, pins>> \notin Repins
    BY DEF OnlyUpgrades
  <2>3. Whole(root, pins) /\ pins \notin Broken /\ marker = MarkerOf(pins)
    BY <2>1, <2>2 DEF MarkerInv
  <2>4. FullyVerified(root, marker, pins)
    BY <2>1, <2>3 DEF FullyVerified, MarkerMatches, Validates, DigestsMatch, MarkerOf, Whole, Digested
  <2> QED
    BY <2>1, <2>4
<1>2. CASE Start \/ AlreadyInstalled \/ Reinstall \/ Download \/ Inspect \/ Extract \/ ValidateStaging
           \/ WriteMarker \/ Sync \/ Complete \/ Crash
  <2>1. UNCHANGED <<root, marker, pins>> /\ outcome' # "unverifiable"
    BY <1>2 DEF Start, AlreadyInstalled, Reinstall, Download, Inspect, Extract, ValidateStaging, WriteMarker, Sync, Complete, Crash, Fault
  <2> QED
    BY <2>1 DEF Whole
<1>3. CASE Repin
  <2>1. UNCHANGED <<root, marker, outcome>> /\ <<pins, pins'>> \in Repins /\ pins' \in Release
    BY <1>3 DEF Repin
  <2>2. ASSUME marker # None PROVE <<marker.pins, pins'>> \in Repins
    BY <2>1, <2>2 DEF MarkerInv, OnlyUpgrades
  <2> QED
    BY <2>1, <2>2 DEF Whole
<1>4. CASE Remove \/ Move
  <2>1. UNCHANGED <<marker, pins, outcome>> /\ pc \in {"remove", "move"}
    BY <1>4 DEF Remove, Move
  <2>2. marker # None => <<marker.pins, pins>> \in Repins
    BY <2>1 DEF MarkerInv, MarkerMatches
  <2> QED
    BY <2>1, <2>2
<1>5. CASE Publish
  <2>1. marker' = MarkerOf(pins) /\ Whole(root, pins) /\ UNCHANGED <<root, pins, outcome>>
    BY <1>5 DEF Publish, MarkerOf, Digested, PhaseInv, Installed, Whole
  <2> QED
    BY <2>1 DEF MarkerOf, Whole
<1> QED
  BY <1>1, <1>2, <1>3, <1>4, <1>5 DEF Step

-----------------------------------------------------------------------------
(* Theorems *)

\* Before the first run there is nothing.
LEMMA Initially ==
  ASSUME Init
  PROVE  IInv /\ MarkerInv /\ UpgradeInv
BY InstallerNames DEF Init, IInv, TypeInv, PhaseInv, DoneInv, MarkerInv, UpgradeInv, Nothing, Disk, Content, Labels, Installed

\* Nothing changes in a stutter.
LEMMA Stutter ==
  ASSUME UNCHANGED installer
  PROVE  /\ IInv => IInv'
         /\ MarkerInv => MarkerInv'
         /\ UpgradeInv => UpgradeInv'
BY DEF installer, IInv, TypeInv, PhaseInv, DoneInv, MarkerInv, UpgradeInv, Whole, MarkerMatches

\* What a run has installed and synced stays, through every kill and power loss
\* and whatever is deployed next, until a later run begins to remove it.
THEOREM CompletionsLast == Spec => []CompletionIsDurable
<1>1. Init => IInv
  BY Initially
<1>2. IInv /\ [Next]_installer => IInv'
  BY StepTypes, StepPhases, StepDone, PowerKeeps, Stutter DEF Next, IInv
<1>3. IInv => CompletionIsDurable
  <2> SUFFICES ASSUME IInv, done # None PROVE CompletionIsDurable
    BY DEF CompletionIsDurable
  <2>1. done \in Release /\ done \notin Broken /\ Whole(root, done) /\ marker = MarkerOf(done) /\ marker # None
    BY InstallerNone DEF IInv, TypeInv, DoneInv, MarkerOf, Marker, Content, Digested
  <2> QED
    BY <2>1, InstallerNames DEF CompletionIsDurable, FullyVerified, MarkerMatches, Validates, DigestsMatch, MarkerOf, Whole, Digested
<1> QED
  BY <1>1, <1>2, <1>3, PTL DEF Spec

\* Without power losses, the marker's digests are as good as reading every
\* image: what verify-ready accepts is entirely the pinned release.
THEOREM ReadinessIsWhole ==
  ASSUME MaxPower = 0
  PROVE  Spec => []ReadyIsWhole
<1>1. Init => IInv /\ MarkerInv
  BY Initially
<1>2. IInv /\ MarkerInv /\ [Next]_installer => IInv' /\ MarkerInv'
  <2>1. IInv => ~PowerLoss
    BY DEF IInv, TypeInv, PowerLoss
  <2> QED
    BY <2>1, StepTypes, StepPhases, StepDone, StepMarker, Stutter DEF Next, IInv
<1>3. IInv /\ MarkerInv => ReadyIsWhole
  BY DEF MarkerInv, ReadyIsWhole, Ready, MarkerMatches, DigestsMatch, MarkerOf, Digested, Path
<1> QED
  BY <1>1, <1>2, <1>3, PTL DEF Spec

\* Without power losses and with pins that never go back, no run meets a marker
\* over data that does not verify: after every crash it rebuilds.
THEOREM CrashesAreRebuilt ==
  ASSUME MaxPower = 0, OnlyUpgrades
  PROVE  Spec => []CrashIsRebuilt
<1>1. Init => IInv /\ MarkerInv /\ UpgradeInv
  BY Initially
<1>2. IInv /\ MarkerInv /\ UpgradeInv /\ [Next]_installer => IInv' /\ MarkerInv' /\ UpgradeInv'
  <2>1. IInv => ~PowerLoss
    BY DEF IInv, TypeInv, PowerLoss
  <2> QED
    BY <2>1, StepTypes, StepPhases, StepDone, StepMarker, StepUpgrade, Stutter DEF Next, IInv
<1>3. UpgradeInv => CrashIsRebuilt
  BY DEF UpgradeInv, CrashIsRebuilt
<1> QED
  BY <1>1, <1>2, <1>3, PTL DEF Spec
=============================================================================
