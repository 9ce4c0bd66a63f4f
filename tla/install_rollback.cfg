SPECIFICATION Spec
CONSTANTS
  old = old
  new = new
  bad = bad
  Release <- Releases
  Broken <- BadReleases
  Revision <- Revisions
  Repins <- AnyChange
  MaxFaults = 1
  MaxPower = 0
  None = None
  Missing = Missing
  Torn = Torn
INVARIANT CrashIsRebuilt
