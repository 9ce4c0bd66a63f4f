------------------------------- MODULE DataCopy -------------------------------
(***************************************************************************)
(* The services of student_docker/docker-compose.yml in their order:        *)
(* dataset-init (Installer), then data-copy (copy_released_data.sh), then    *)
(* student-sandbox, whose entrypoint.sh asks the installer's --verify-ready  *)
(* about the private copy before it starts anything.                        *)
(*                                                                         *)
(* Simplifications:                                                        *)
(*  - docker compose is external: one pass at a time, in which it runs      *)
(*    dataset-init and data-copy anew, each when the one before completed,  *)
(*    and creates the sandbox, or replaces it if its pins have changed;     *)
(*  - a killed copy leaves its staging directory, a failing one removes it  *)
(*    (trap cleanup EXIT);                                                  *)
(*  - the power losses of Installer are not combined with the copy;         *)
(*  - participants edit images and assets of the copy, not its marker.      *)
(***************************************************************************)
EXTENDS Installer

CONSTANTS
  MaxKills,     \* bound on copies that are killed or fail
  MaxEdits,     \* bound on edits by the participant
  MayEdit,      \* the paths participants edit
  Edited        \* content of an edited path

ASSUME CopyBounds == MaxKills \in Nat /\ MaxEdits \in Nat /\ MayEdit \subseteq Path
ASSUME EditedIsNew == Edited \notin Content

VARIABLES
  target,   \* /workspace/datasets: its paths and marker, or None
  stage,    \* the staging directory of the running copy, or None
  orphans,  \* staging directories that killed copies left
  copy,     \* where data-copy is
  sandbox,  \* the student-sandbox container
  boxPins,  \* the pins it was created with
  accepted, \* history: the content it accepted when it last started
  kills, edits

box == <<sandbox, boxPins, accepted, edits>>
copied == <<target, stage, orphans, copy, kills, box>>
pipeline == <<installer, copied>>

Part == Path \cup {"marker"}
CopyContent == Content \cup {Edited}

CopyInit ==
  /\ Init
  /\ target = None
  /\ stage = None
  /\ orphans = 0
  /\ copy = "down"
  /\ sandbox = "absent"
  /\ boxPins = None
  /\ accepted = None
  /\ kills = 0
  /\ edits = 0

-----------------------------------------------------------------------------
(* data-copy *)

EmptyStage == [files |-> Nothing, marker |-> None, parts |-> {}]

\* depends_on dataset-init: service_completed_successfully
CopyMayRun == copy = "waiting" /\ pc = "idle" /\ outcome = "complete"

\* Mutant: one fixed staging name, which must not exist.
CopyBeginFixedName ==
  /\ CopyMayRun
  /\ target = None
  /\ copy' = IF marker = None \/ orphans > 0 THEN "failed" ELSE "copying"
  /\ stage' = IF marker = None \/ orphans > 0 THEN None ELSE EmptyStage
  /\ UNCHANGED <<installer, target, orphans, kills, box>>

\* The checks of lines 15-40 with no target: an empty staging directory of
\* a name that no earlier copy has used (RANDOM and the process id).
CopyBegin ==
  /\ CopyMayRun
  /\ target = None
  /\ copy' = IF marker = None THEN "failed" ELSE "copying"
  /\ stage' = IF marker = None THEN None ELSE EmptyStage
  /\ UNCHANGED <<installer, target, orphans, kills, box>>

\* A target exists: it has the source's marker (cmp -s), or data-copy fails.
CopySkip ==
  /\ CopyMayRun
  /\ target # None
  /\ copy' = IF target.marker = marker THEN "complete" ELSE "failed"
  /\ UNCHANGED <<installer, target, stage, orphans, kills, box>>

\* cp -a, one part of the source root at a time.
CopyPart ==
  /\ copy = "copying"
  /\ \E x \in Part \ stage.parts :
        stage' = [files |-> IF x = "marker" THEN stage.files
                            ELSE [stage.files EXCEPT ![x] = root[x]],
                  marker |-> IF x = "marker" THEN marker ELSE stage.marker,
                  parts |-> stage.parts \cup {x}]
  /\ UNCHANGED <<installer, target, orphans, copy, kills, box>>

\* The rename of the stage onto the target.
Moved == target' = [files |-> stage.files, marker |-> stage.marker]

\* Mutant: the target is visible before the copy is complete.
CopyMoveEarly ==
  /\ copy = "copying"
  /\ "marker" \in stage.parts
  /\ Moved
  /\ stage' = None
  /\ copy' = "syncing"
  /\ UNCHANGED <<installer, orphans, kills, box>>

CopyMove ==
  /\ copy = "copying"
  /\ stage.parts = Part
  /\ Moved
  /\ stage' = None
  /\ copy' = "syncing"
  /\ UNCHANGED <<installer, orphans, kills, box>>

CopySync ==
  /\ copy = "syncing"
  /\ copy' = "complete"
  /\ UNCHANGED <<installer, target, stage, orphans, kills, box>>

\* The copy is killed (no trap runs), or a command of it fails.
CopyBreaks ==
  /\ copy \in {"copying", "syncing"}
  /\ kills < MaxKills
  /\ kills' = kills + 1
  /\ orphans' \in {orphans, IF stage = None THEN orphans ELSE orphans + 1}
  /\ stage' = None
  /\ copy' = "failed"
  /\ UNCHANGED <<installer, target, box>>

-----------------------------------------------------------------------------
(* student-sandbox *)

\* The entry point in its verify-ready mode, for a container with pins r.
EntryPoint(r) ==
  IF target # None /\ Ready(target.files, target.marker, r)
  THEN sandbox' = "up" /\ accepted' = target.files
  ELSE sandbox' = "refused" /\ UNCHANGED accepted

CreateDue == copy = "complete" /\ (sandbox = "absent" \/ boxPins # pins)

\* depends_on data-copy; a container with other pins is replaced.
SandboxCreated ==
  /\ CreateDue
  /\ boxPins' = pins
  /\ EntryPoint(pins)
  /\ UNCHANGED <<installer, target, stage, orphans, copy, kills, edits>>

\* restart: unless-stopped, whatever the other services do.
SandboxRestarts ==
  /\ sandbox \in {"stopped", "refused"}
  /\ EntryPoint(boxPins)
  /\ UNCHANGED <<installer, target, stage, orphans, copy, kills, boxPins, edits>>

SandboxStops ==
  /\ sandbox = "up"
  /\ edits < MaxEdits
  /\ edits' = edits + 1
  /\ sandbox' = "stopped"
  /\ UNCHANGED <<installer, target, stage, orphans, copy, kills, boxPins, accepted>>

\* The copy belongs to the participant (chown, chmod u+rw).
ParticipantEdits ==
  /\ sandbox = "up"
  /\ edits < MaxEdits
  /\ edits' = edits + 1
  /\ \E p \in MayEdit : target' = [files |-> [target.files EXCEPT ![p] = Edited],
                                   marker |-> target.marker]
  /\ UNCHANGED <<installer, stage, orphans, copy, kills, sandbox, boxPins, accepted>>

-----------------------------------------------------------------------------
(* The services together *)

PassGoesOn == copy \in {"copying", "syncing"} \/ CopyMayRun \/ CreateDue

\* docker compose up
ComposeUp ==
  /\ ~PassGoesOn
  /\ Start
  /\ copy' = "waiting"
  /\ UNCHANGED <<target, stage, orphans, kills, box>>

\* Other pins, between two passes.
Redeploy ==
  /\ ~PassGoesOn
  /\ Repin
  /\ copy' = "down"
  /\ UNCHANGED <<target, stage, orphans, kills, box>>

InstallerGoesOn == (Step \/ Crash) /\ UNCHANGED copied

CopyStep == CopyBegin \/ CopySkip \/ CopyPart \/ CopyMove \/ CopySync
BoxStep == SandboxCreated \/ SandboxRestarts

CopyNext ==
  \/ InstallerGoesOn \/ ComposeUp \/ Redeploy
  \/ CopyStep \/ CopyBreaks
  \/ BoxStep \/ SandboxStops \/ ParticipantEdits

CopySpec == CopyInit /\ [][CopyNext]_pipeline

\* Services go on, and somebody runs docker compose up again.
CopyFairSpec ==
  /\ CopySpec
  /\ WF_pipeline(InstallerGoesOn)
  /\ WF_pipeline(CopyStep)
  /\ WF_pipeline(BoxStep)
  /\ WF_pipeline(ComposeUp)

-----------------------------------------------------------------------------
(* Properties *)

\* A private copy is entirely the release its marker names, apart from what
\* its participant edited, however many copies were killed before (lines
\* 37-48).
TargetIsWhole ==
  target # None => /\ target.marker # None
                   /\ \A p \in Path : target.files[p] \in {target.marker.pins, Edited}

\* What a sandbox accepted at its start is the release it was created for;
\* only images may have been edited (entrypoint.sh lines 160-166).
AcceptsItsRelease ==
  sandbox = "up" => /\ \A p \in Digested : accepted[p] = boxPins
                    /\ accepted["images"] \in {boxPins, Edited}

\* The deployed release is broken, the copy is of other pins (line 31), or its
\* participant has edited what the marker digests.
Hopeless ==
  \/ pins \in Broken
  \/ target # None /\ (target.marker.pins # pins \/ \E p \in Digested : target.files[p] = Edited)

\* The sandbox comes up again after every interrupted install, copy or
\* container, unless that is hopeless.
SandboxServes == []<>(sandbox = "up" \/ Hopeless)
=============================================================================
