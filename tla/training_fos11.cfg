SPECIFICATION Spec
CONSTANTS
  Steps = 4
  Batches <- MCBatches
  Gradients <- MCGradients
  CkaValues = {0, 2, 3}
  CkaFloor = 1
  NoCka = 1000
  EmaUnit = 2
  Configs <- FosConfigs
  MaxLaunches = 2
  None = None
INVARIANTS
  FosCandidatesAreTrained
