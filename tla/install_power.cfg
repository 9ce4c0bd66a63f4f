SPECIFICATION Spec
CONSTANTS
  old = old
  new = new
  bad = bad
  Release <- Releases
  Broken <- BadReleases
  Revision <- Revisions
  Repins <- Upgrades
  MaxFaults = 1
  MaxPower = 1
  None = None
  Missing = Missing
  Torn = Torn
INVARIANTS
  CompletionIsDurable
