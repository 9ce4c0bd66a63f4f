---------------------------- MODULE DataCopyProofs ----------------------------
(***************************************************************************)
(* For every set of releases and pins, and any number of killed runs,       *)
(* killed copies, restarts and edits: a private copy is entirely the release *)
(* of its marker but for its participant's edits, and a sandbox has accepted *)
(* what it was created for.  No power losses, as in DataCopy.               *)
(***************************************************************************)
EXTENDS DataCopy, InstallerProofs

\* The managed root is the pinned release, and its marker says so.
RootReady == Whole(root, pins) /\ marker = MarkerOf(pins)

\* The copy runs only between an init that has completed and the next one.
PassInv ==
  /\ copy = "waiting" /\ pc = "idle" /\ outcome = "complete" => RootReady
  /\ copy \in {"copying", "syncing"} => pc = "idle" /\ RootReady

\* What has been copied so far
StageInv ==
  copy = "copying" => /\ stage.files \in [Path -> Content]
                      /\ \A p \in Path : p \in stage.parts => stage.files[p] = pins
                      /\ "marker" \in stage.parts => stage.marker = MarkerOf(pins)

\* A copy with the edits of its participant
Sound(x) ==
  /\ x.files \in [Path -> CopyContent]
  /\ x.marker.pins \in Release /\ x.marker = MarkerOf(x.marker.pins)
  /\ \A p \in Path : x.files[p] \in {x.marker.pins, Edited}

TargetInv ==
  /\ target # None => Sound(target)
  /\ sandbox = "up" => Sound(target) /\ AcceptsItsRelease

InstallerInv == IInv /\ MarkerInv
CInv == InstallerInv /\ PassInv /\ StageInv /\ TargetInv

\* A step of the installer within the composition keeps its invariant.
LEMMA InstallerSteps ==
  ASSUME InstallerInv, [CopyNext]_pipeline
  PROVE  InstallerInv'
<1>1. Start \/ Step \/ Crash \/ Repin \/ UNCHANGED installer
  BY DEF CopyNext, pipeline, InstallerGoesOn, ComposeUp, Redeploy, CopyStep, CopyBreaks, BoxStep, SandboxStops, ParticipantEdits,
    CopyBegin, CopySkip, CopyPart, CopyMove, CopySync, SandboxCreated, SandboxRestarts
<1> QED
  BY <1>1, StepTypes, StepPhases, StepDone, StepMarker, Stutter DEF InstallerInv, IInv

\* An init that ends complete leaves the pinned release.
LEMMA InitCompletes ==
  ASSUME InstallerInv, Step \/ Crash, pc' = "idle", outcome' = "complete"
  PROVE  RootReady'
<1> USE DEF Exit, Goto, files, env
<1>1. CASE AlreadyInstalled
  <2>1. FullyVerified(root, marker, pins) /\ UNCHANGED <<root, marker, pins>>
    BY <1>1 DEF AlreadyInstalled
  <2>2. marker = MarkerOf(pins) /\ root["manifest"] = pins
    BY <2>1 DEF FullyVerified, MarkerMatches, DigestsMatch, InstallerInv, MarkerInv, MarkerOf, Digested, Path
  <2>3. Whole(root, pins)
    BY <2>1, <2>2 DEF FullyVerified, Validates, Whole, Path
  <2> QED
    BY <2>1, <2>2, <2>3 DEF RootReady, Whole
<1>2. CASE Complete
  BY <1>2 DEF Complete, RootReady, InstallerInv, IInv, PhaseInv, Installed, Whole
<1>3. ASSUME ~AlreadyInstalled, ~Complete PROVE FALSE
  BY <1>3 DEF Step, Crash, Unverifiable, Reinstall, Download, Inspect, Extract, ValidateStaging, Remove, Move, WriteMarker,
    Publish, Sync
<1> QED
  BY <1>1, <1>2, <1>3

\* Every step keeps the copy's invariant.
LEMMA CopySteps ==
  ASSUME CInv, [CopyNext]_pipeline
  PROVE  CInv'
<1>0. InstallerInv'
  BY InstallerSteps DEF CInv
<1> USE DEF CInv, PassInv, StageInv, TargetInv, RootReady, copied, box, AcceptsItsRelease
<1>1. CASE InstallerGoesOn
  <2>1. UNCHANGED copied /\ (Step \/ Crash) /\ pc # "idle" /\ pins' = pins
    BY <1>1 DEF InstallerGoesOn, Step, Crash, AlreadyInstalled, Unverifiable, Reinstall, Download, Inspect, Extract, ValidateStaging,
      Remove, Move, WriteMarker, Publish, Sync, Complete, env, Fault
  <2>2. copy \notin {"copying", "syncing"}
    BY <2>1
  <2>3. pc' = "idle" /\ outcome' = "complete" => RootReady'
    BY <2>1, InitCompletes
  <2> QED
    BY <1>0, <2>1, <2>2, <2>3 DEF Sound
<1>2. CASE ComposeUp \/ Redeploy
  <2>1. UNCHANGED <<target, stage, box>> /\ copy' \in {"waiting", "down"} /\ (copy' = "waiting" => pc' = "check")
    BY <1>2 DEF ComposeUp, Redeploy, Start, Goto
  <2> QED
    BY <1>0, <2>1 DEF Sound
<1>3. CASE CopyBegin
  <2>1. UNCHANGED <<installer, target, box>> /\ RootReady /\ pc = "idle"
    BY <1>3 DEF CopyBegin, CopyMayRun
  <2>2. copy' = "failed" \/ (copy' = "copying" /\ stage' = EmptyStage)
    <3>1. CASE marker = None
      BY <1>3, <3>1 DEF CopyBegin
    <3>2. CASE marker # None
      BY <1>3, <3>2 DEF CopyBegin
    <3> QED
      BY <3>1, <3>2
  <2> QED
    BY <1>0, <2>1, <2>2 DEF installer, EmptyStage, Nothing, Content, Sound, Whole
<1>4. CASE CopySkip \/ CopySync \/ CopyBreaks
  <2>1. UNCHANGED <<installer, target, box>> /\ copy' \in {"complete", "failed"}
    BY <1>4 DEF CopySkip, CopySync, CopyBreaks
  <2> QED
    BY <1>0, <2>1 DEF installer, Sound
<1>5. CASE CopyPart
  <2>1. UNCHANGED <<installer, target, copy, box>> /\ copy = "copying"
    BY <1>5 DEF CopyPart
  <2>2. StageInv'
    <3>1. PICK x \in Part \ stage.parts :
            stage' = [files |-> IF x = "marker" THEN stage.files ELSE [stage.files EXCEPT ![x] = root[x]],
                      marker |-> IF x = "marker" THEN marker ELSE stage.marker,
                      parts |-> stage.parts \cup {x}]
      BY <1>5 DEF CopyPart
    <3>2. root \in [Path -> Content] /\ Whole(root, pins) /\ marker = MarkerOf(pins) /\ pins' = pins
      BY <2>1 DEF InstallerInv, IInv, TypeInv, installer
    <3>3. CASE x = "marker"
      BY <2>1, <3>1, <3>2, <3>3 DEF Path, MarkerOf
    <3>4. CASE x \in Path
      <4>1. x # "marker"
        BY <3>4 DEF Path
      <4>2. stage'.files = [stage.files EXCEPT ![x] = root[x]] /\ stage'.marker = stage.marker /\ stage'.parts = stage.parts \cup {x}
        BY <3>1, <4>1
      <4>3. stage'.files \in [Path -> Content] /\ \A p \in Path : p \in stage'.parts => stage'.files[p] = pins
        BY <2>1, <3>2, <3>4, <4>2 DEF Whole
      <4> QED
        BY <2>1, <3>2, <4>1, <4>2, <4>3 DEF MarkerOf
    <3> QED
      BY <3>3, <3>4 DEF Part
  <2> QED
    BY <1>0, <2>1, <2>2 DEF installer, Sound
<1>6. CASE CopyMove
  <2>1. UNCHANGED <<installer, box>> /\ copy = "copying" /\ copy' = "syncing" /\ stage.parts = Part
        /\ target' = [files |-> stage.files, marker |-> stage.marker]
    BY <1>6 DEF CopyMove, Moved
  <2>2. Sound(target')
    <3>1. stage.marker = MarkerOf(pins) /\ \A p \in Path : stage.files[p] = pins
      BY <2>1 DEF Part
    <3> QED
      BY <2>1, <3>1 DEF Sound, MarkerOf, CopyContent, InstallerInv, IInv, TypeInv
  <2> QED
    BY <1>0, <2>1, <2>2 DEF installer, Sound
<1>7. CASE BoxStep
  <2>1. PICK r : EntryPoint(r) /\ boxPins' = r /\ UNCHANGED <<installer, target, stage, copy>>
    BY <1>7 DEF BoxStep, SandboxCreated, SandboxRestarts
  <2>2. ASSUME sandbox' = "up" PROVE Sound(target') /\ AcceptsItsRelease'
    <3>1. target # None /\ Ready(target.files, target.marker, r) /\ accepted' = target.files
      BY <2>1, <2>2 DEF EntryPoint
    <3>2. Sound(target) /\ target.marker.pins = r
      BY <3>1 DEF Ready, MarkerMatches
    <3>3. \A p \in Digested : target.files[p] = r
      BY <3>1, <3>2 DEF Ready, DigestsMatch, Sound, MarkerOf
    <3>4. target.files["images"] \in {r, Edited}
      BY <3>2 DEF Sound, Path
    <3> QED
      BY <2>1, <3>1, <3>2, <3>3, <3>4 DEF Sound
  <2> QED
    BY <1>0, <2>1, <2>2 DEF installer, Sound
<1>8. CASE SandboxStops
  BY <1>0, <1>8 DEF SandboxStops, installer, Sound
<1>9. CASE ParticipantEdits
  <2>1. UNCHANGED <<installer, stage, copy, sandbox, boxPins, accepted>> /\ Sound(target) /\ sandbox = "up"
    BY <1>9 DEF ParticipantEdits
  <2>2. PICK p \in MayEdit : target' = [files |-> [target.files EXCEPT ![p] = Edited], marker |-> target.marker]
    BY <1>9 DEF ParticipantEdits
  <2>3. Sound(target')
    BY <2>1, <2>2, CopyBounds DEF Sound, CopyContent
  <2> QED
    BY <1>0, <2>1, <2>3 DEF installer, Sound
<1>10. CASE UNCHANGED pipeline
  BY <1>0, <1>10 DEF pipeline, installer, Sound
<1> QED
  BY <1>1, <1>2, <1>3, <1>4, <1>5, <1>6, <1>7, <1>8, <1>9, <1>10 DEF CopyNext, CopyStep

-----------------------------------------------------------------------------
(* Theorems *)

\* The invariant holds throughout.
LEMMA CopyInvariance == CopySpec => []CInv
<1>1. CopyInit => CInv
  BY Initially DEF CopyInit, CInv, InstallerInv, PassInv, StageInv, TargetInv
<1>2. CInv /\ [CopyNext]_pipeline => CInv'
  BY CopySteps
<1> QED
  BY <1>1, <1>2, PTL DEF CopySpec

\* However many copies were killed, /workspace/datasets is either absent or
\* entirely the release of its marker, but for its participant's edits.
THEOREM TargetsAreWhole == CopySpec => []TargetIsWhole
<1>1. CInv => TargetIsWhole
  BY InstallerNone DEF CInv, TargetInv, Sound, TargetIsWhole, MarkerOf, Marker, Content, Digested
<1> QED
  BY CopyInvariance, <1>1, PTL

\* A sandbox that is up has accepted the release it was created for.
THEOREM SandboxesAcceptTheirRelease == CopySpec => []AcceptsItsRelease
<1>1. CInv => AcceptsItsRelease
  BY DEF CInv, TargetInv, AcceptsItsRelease
<1> QED
  BY CopyInvariance, <1>1, PTL
=============================================================================
