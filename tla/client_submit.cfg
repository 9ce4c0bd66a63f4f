SPECIFICATION Spec
CONSTANTS
  r1 = r1
  r2 = r2
  q1 = q1
  i1 = i1
  i2 = i2
  a = a
  b = b
  None = None
  Request <- TwoRequests
  Query = {q1}
  Id <- TwoIds
  Artifact <- Contents
  MaxAttempts = 2
  Budget <- SubmitBudget
SYMMETRY Interchangeable
INVARIANTS
  OneUploadAtATime
  AcceptedIsGraded
  GradedIsFrozen
  DefiniteIsFinal
  NoSilentAttempt
