SPECIFICATION CopyFairSpec
CONSTANTS
  old = old
  new = new
  bad = bad
  Release <- Releases
  Broken <- BadReleases
  Revision <- Revisions
  Repins <- Upgrades
  MaxFaults = 2
  MaxPower = 0
  MaxKills = 1
  MaxEdits = 2
  MayEdit <- Path
  None = None
  Missing = Missing
  Torn = Torn
  Edited = Edited
INVARIANTS
  ReadyIsWhole
  CrashIsRebuilt
  TargetIsWhole
  AcceptsItsRelease
PROPERTIES
  Rebuilds
  SandboxServes
