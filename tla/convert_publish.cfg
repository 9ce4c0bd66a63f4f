SPECIFICATION FairSpec
CONSTANTS
  c1 = c1
  c2 = c2
  Call <- TwoCalls
  MaxEdits = 1
  MaxFaults = 1
  None = None
  Torn = Torn
  Other = Other
INVARIANTS
  PublishedIsWhole
  GroupIsGone
PROPERTIES
  PublishedIsFinal
  CallsEnd
