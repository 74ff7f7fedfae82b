SPECIFICATION FairSpec
CONSTANTS
  p1 = p1
  p2 = p2
  NoProc = NoProc
  Procs = {p1, p2}
  StepCount = 2
  DeploySteps <- MCDeploySteps
  Costs = {1, 2}
  Limits <- MCLimits
  Confirmations = 2
  MaxReorgs = 1
  MaxForeign = 1
  MayRevert = TRUE
INVARIANTS
  OneTransactionPerStep
  ConfirmedIsFinal
  BroadcastIsSaved
PROPERTIES
  JournalKeepsHash
  BroadcastWithinLimits
  StepwiseSpec
  EventuallyComplete
