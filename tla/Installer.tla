------------------------------- MODULE Installer -------------------------------
(***************************************************************************)
(* The dataset installer student_docker/install_released_data.sh: one       *)
(* managed root that is checked, downloaded, validated in a staging         *)
(* directory, replaced path by path and finally marked as ready.            *)
(*                                                                         *)
(* A run may be killed, or one of its commands may fail (set -e), between   *)
(* any two steps; the machine may lose power; an operator starts it again,  *)
(* perhaps with other release pins.                                         *)
(*                                                                         *)
(* Simplifications:                                                        *)
(*  - the content of a path is the release it comes from: the manifest      *)
(*    pins every other path of its release by digest or count;              *)
(*  - one run at a time (docker-compose.yml has one dataset-init service,   *)
(*    and the standalone entry point runs it before anything else);         *)
(*  - the pins are well formed (require_install_pins), the token is there;  *)
(*  - until sync -f a power loss may keep, undo or tear each change;        *)
(*  - the link for old paths (lines 796-800) is not part of the state.      *)
(***************************************************************************)
EXTENDS Integers, Sequences

CONSTANTS
  Release,   \* what the HF_STUDENT_* pins can name
  Broken,    \* releases whose archive has the pinned hash but does not validate
  Revision,  \* dataset_revision of each release; releases may share one
  Repins,    \* which pins an operator replaces by which
  MaxFaults, \* bound on crashes, failing commands and bad downloads
  MaxPower,  \* bound on power losses
  None, Missing, Torn

ASSUME ReleaseAssumption == Broken \subseteq Release /\ DOMAIN Revision = Release
ASSUME RepinsAssumption == Repins \subseteq Release \X Release
ASSUME InstallerBounds == MaxFaults \in Nat /\ MaxPower \in Nat
ASSUME InstallerNames == None \notin Release /\ Missing \notin Release /\ Torn \notin Release \cup {Missing}

\* The managed paths in the order in which they are removed and moved.
Order == <<"manifest", "images", "model", "splits", "cache">>
Path == {"manifest", "images", "model", "splits", "cache"}
\* The marker has a digest of every path but the images.
Digested == Path \ {"images"}

Content == Release \cup {Missing, Torn}
Marker == [pins: Release, digests: [Digested -> Content]]
ASSUME InstallerNone == None \notin Marker

VARIABLES
  root,     \* the managed paths under DATA_ROOT
  marker,   \* student-validation-v2.ready
  staging,  \* student-validation-v2-staging
  archive,  \* the downloaded archive; Torn stands for other bytes
  litter,   \* number of student-validation-v2.ready.tmp.* files
  pins,     \* the pins of the deployment
  pc, at,   \* where the run is, and the index of the path it works on
  outcome,  \* how the last run ended
  done,     \* history: the release of the last run that moved and synced one, until it is dismantled
  disk,     \* root and marker as of the last sync
  unsynced, \* paths changed since then
  faults, powers

files == <<root, marker, disk, unsynced>>
run == <<pc, at, outcome, done>>
env == <<pins, faults, powers>>
installer == <<root, marker, staging, archive, litter, pins, pc, at, outcome, done,
               disk, unsynced, faults, powers>>

Labels == {"idle", "check", "fetch", "inspect", "extract", "validate",
           "remove", "move", "mark", "publish", "sync", "cleanup"}

Nothing == [p \in Path |-> Missing]
Disk(f, m) == [root |-> f, marker |-> m]

Init ==
  /\ root = Nothing
  /\ marker = None
  /\ staging = Nothing
  /\ archive = None
  /\ litter = 0
  /\ pins \in Release
  /\ pc = "idle"
  /\ at = 1
  /\ outcome = "none"
  /\ done = None
  /\ disk = Disk(Nothing, None)
  /\ unsynced = {}
  /\ faults = 0
  /\ powers = 0

-----------------------------------------------------------------------------
(* The checks *)

\* validate_dataset: one sound release throughout, with the pinned records.
Validates(f, r) ==
  \E s \in Release \ Broken : Revision[s] = Revision[r] /\ \A p \in Path : f[p] = s

\* Mutant: any marker will do.
MarkerMatchesAny(m, r) == m # None

\* marker_matches_requested_pins
MarkerMatches(m, r) == m # None /\ m.pins = r

\* marker_digests_match_files
DigestsMatch(f, m) == \A p \in Digested : f[p] = m.digests[p] /\ f[p] # Missing

\* verify_installed, for --verify-only
FullyVerified(f, m, r) == MarkerMatches(m, r) /\ Validates(f, r) /\ DigestsMatch(f, m)

\* Mutant: the marker alone is believed.
ReadyByMarker(f, m, r) == MarkerMatches(m, r)

\* verify_ready_marker, for --verify-ready: no image is read.
Ready(f, m, r) == MarkerMatches(m, r) /\ DigestsMatch(f, m) /\ f["images"] # Missing

-----------------------------------------------------------------------------
(* One run *)

Goto(label) == pc' = label /\ UNCHANGED <<at, outcome, done>>
Exit(o) == pc' = "idle" /\ at' = 1 /\ outcome' = o
Fault == faults < MaxFaults /\ faults' = faults + 1 /\ UNCHANGED <<pins, powers>>

Start ==
  /\ pc = "idle"
  /\ Goto("check")
  /\ UNCHANGED <<files, staging, archive, litter, env>>

\* cleanup_transient_files
CleanUp == archive' = None /\ staging' = Nothing /\ litter' = 0

\* The marker is for these pins and the data verifies.
AlreadyInstalled ==
  /\ pc = "check"
  /\ FullyVerified(root, marker, pins)
  /\ CleanUp
  /\ Exit("complete")
  /\ UNCHANGED <<files, done, env>>

\* The marker is for these pins and the data does not verify.
Unverifiable ==
  /\ pc = "check"
  /\ MarkerMatches(marker, pins)
  /\ ~FullyVerified(root, marker, pins)
  /\ Exit("unverifiable")
  /\ UNCHANGED <<files, staging, archive, litter, done, env>>

\* There is no marker, or it is for other pins.
Reinstall ==
  /\ pc = "check"
  /\ ~MarkerMatches(marker, pins)
  /\ Goto("fetch")
  /\ UNCHANGED <<files, staging, archive, litter, env>>

\* hf download
Download ==
  /\ pc = "fetch"
  /\ \/ archive' = pins /\ UNCHANGED env
     \/ archive' = Torn /\ Fault
  /\ Goto("inspect")
  /\ UNCHANGED <<files, staging, litter>>

\* Size, SHA-256 and member names of the archive.
Inspect ==
  /\ pc = "inspect"
  /\ IF archive = pins THEN Goto("extract") ELSE Exit("failed") /\ UNCHANGED done
  /\ UNCHANGED <<files, staging, archive, litter, env>>

\* The staging directory is emptied; tar fills it.
Extract ==
  /\ pc = "extract"
  /\ IF staging = [p \in Path |-> Torn]
     THEN staging' = [p \in Path |-> archive] /\ Goto("validate")
     ELSE staging' = [p \in Path |-> Torn] /\ Goto("extract")
  /\ UNCHANGED <<files, archive, litter, env>>

ValidateStaging ==
  /\ pc = "validate"
  /\ IF Validates(staging, pins) THEN Goto("remove") ELSE Exit("failed") /\ UNCHANGED done
  /\ UNCHANGED <<files, staging, archive, litter, env>>

\* rm -rf of the five old paths; a directory goes file by file.
Remove ==
  /\ pc = "remove"
  /\ LET p == Order[at]
         rest == IF root[p] \in {Missing, Torn} \/ p = "manifest" THEN Missing ELSE Torn
     IN /\ root' = [root EXCEPT ![p] = rest]
        /\ unsynced' = unsynced \cup {p}
        /\ at' = IF rest = Torn THEN at ELSE IF at = Len(Order) THEN 1 ELSE at + 1
        /\ pc' = IF rest = Missing /\ at = Len(Order) THEN "move" ELSE "remove"
  /\ done' = None
  /\ UNCHANGED <<marker, disk, staging, archive, litter, outcome, env>>

\* Mutant: the last path is forgotten.
MoveAllButOne ==
  /\ pc = "move"
  /\ LET p == Order[at]
     IN /\ root' = [root EXCEPT ![p] = staging[p]]
        /\ staging' = [staging EXCEPT ![p] = Missing]
        /\ unsynced' = unsynced \cup {p}
  /\ at' = IF at = Len(Order) - 1 THEN 1 ELSE at + 1
  /\ pc' = IF at = Len(Order) - 1 THEN "mark" ELSE "move"
  /\ UNCHANGED <<marker, disk, archive, litter, outcome, done, env>>

\* mv of the five new paths, each one rename.
Move ==
  /\ pc = "move"
  /\ LET p == Order[at]
     IN /\ root' = [root EXCEPT ![p] = staging[p]]
        /\ staging' = [staging EXCEPT ![p] = Missing]
        /\ unsynced' = unsynced \cup {p}
  /\ at' = IF at = Len(Order) THEN 1 ELSE at + 1
  /\ pc' = IF at = Len(Order) THEN "mark" ELSE "move"
  /\ UNCHANGED <<marker, disk, archive, litter, outcome, done, env>>

\* write_marker: a temporary file, its rename, sync -f.
WriteMarker ==
  /\ pc = "mark"
  /\ litter' = litter + 1
  /\ Goto("publish")
  /\ UNCHANGED <<files, staging, archive, env>>

Publish ==
  /\ pc = "publish"
  /\ marker' = [pins |-> pins, digests |-> [p \in Digested |-> root[p]]]
  /\ litter' = litter - 1
  /\ unsynced' = unsynced \cup {"marker"}
  /\ Goto("sync")
  /\ UNCHANGED <<root, disk, staging, archive, env>>

\* Mutant: the run ends without sync -f.
SyncSkipped ==
  /\ pc = "sync"
  /\ Goto("cleanup")
  /\ UNCHANGED <<files, staging, archive, litter, env>>

Sync ==
  /\ pc = "sync"
  /\ disk' = Disk(root, marker)
  /\ unsynced' = {}
  /\ Goto("cleanup")
  /\ UNCHANGED <<root, marker, staging, archive, litter, env>>

Complete ==
  /\ pc = "cleanup"
  /\ CleanUp
  /\ Exit("complete")
  /\ done' = pins
  /\ UNCHANGED <<files, env>>

-----------------------------------------------------------------------------
(* Faults and the operator *)

\* The run is killed, or a command of it fails and set -e ends it.
Crash ==
  /\ pc # "idle"
  /\ Fault
  /\ Exit("killed")
  /\ UNCHANGED <<files, staging, archive, litter, done>>

\* Each unsynced path is kept, undone or torn; an unsynced marker is kept
\* or undone.
PowerLoss ==
  /\ powers < MaxPower
  /\ powers' = powers + 1
  /\ \E f \in [Path -> {"kept", "undone", "torn"}], keep \in BOOLEAN :
        /\ \A p \in Path \ unsynced : f[p] = "kept"
        /\ root' = [p \in Path |-> CASE f[p] = "kept" -> root[p]
                                     [] f[p] = "undone" -> disk.root[p]
                                     [] f[p] = "torn" -> Torn]
        /\ marker' = IF "marker" \in unsynced /\ ~keep THEN disk.marker ELSE marker
  /\ disk' = Disk(root', marker')
  /\ unsynced' = {}
  /\ Exit("killed")
  /\ UNCHANGED <<staging, archive, litter, done, pins, faults>>

\* An operator deploys other pins.
Repin ==
  /\ pc = "idle"
  /\ pins' \in {r \in Release : <<pins, r>> \in Repins}
  /\ UNCHANGED <<files, staging, archive, litter, run, faults, powers>>

Step ==
  \/ AlreadyInstalled \/ Unverifiable \/ Reinstall
  \/ Download \/ Inspect \/ Extract \/ ValidateStaging
  \/ Remove \/ Move \/ WriteMarker \/ Publish \/ Sync \/ Complete

Next == Start \/ Step \/ Crash \/ PowerLoss \/ Repin

Spec == Init /\ [][Next]_installer

\* A run goes on, and somebody starts the installer again after it ended.
FairSpec == Spec /\ WF_installer(Step) /\ WF_installer(Start)

-----------------------------------------------------------------------------
(* Properties *)

Whole(f, r) == \A p \in Path : f[p] = r

\* What --verify-ready accepts without reading an image is entirely the
\* pinned release (lines 620-637), whenever it is asked and whatever run
\* was interrupted before.  Without power losses only.
ReadyIsWhole == Ready(root, marker, pins) => Whole(root, pins)

\* After a run has installed a release and exited 0, it is there, sound and
\* verifiable, and it stays so through crashes and power losses until a later
\* run starts to remove it (lines 771-804).  A run that finds the data of one
\* killed before its sync exits 0 too (lines 674-679), syncs nothing, and is
\* not meant here.
CompletionIsDurable ==
  done # None => /\ done \notin Broken
                 /\ Whole(root, done)
                 /\ FullyVerified(root, marker, done)

\* A run that is started again never meets its own debris as "completion
\* marker exists but installed format-v2 data failed verification" (line
\* 681): lines 769-770 promise that a crash leaves no valid marker.
CrashIsRebuilt == outcome # "unverifiable"

\* Once crashes stop, repeating the installer installs the pinned release.
Rebuilds ==
  \A r \in Release \ Broken :
     (pins = r) ~> \/ pins # r
                   \/ outcome = "complete" /\ Whole(root, r)
=============================================================================
