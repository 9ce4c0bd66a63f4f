SPECIFICATION SuiteSpec
CONSTANTS
  r1 = r1
  r2 = r2
  s3 = s3
  s4 = s4
  t4 = t4
  s5 = s5
  a = a
  b = b
  c = c
  d = d
  e = e
  Runner <- Runners
  Suite <- TheSuites
  Config <- Configs
  Program <- Programs
  Work <- TheWork
  Launches <- TheLaunches
  Landscapes <- TheLandscapes
  Unit = 120
  Initial <- NinePoints
  Refinements <- TwoRefinements
  MaxCandidates = 27
  TopK = 3
  MinAus = 11400
  Margin = 120
  MaxKills = 1
  MaxFailures = 1
  MaxOthers = 1
  MaxTampers = 1
  None = None
INVARIANTS
  OneExperimentAtATime
  ScoresItsOwn
  StateFileTellsTruth
  CompletedIsOfItsSources
  SearchLosesNothing
  OnlyFaultsFail
PROPERTY EveryoneEnds
