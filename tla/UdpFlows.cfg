SPECIFICATION FairSpec
CONSTANTS
  Key = {k1, k2, k3}
  NoKey = NoKey
  NoFlow = NoFlow
  Backend = {b1}
  MaxFlows = 2
  ActiveLimit = 2
  LastToken = 5
  ReadBudget = 2
  MaxEvents = 2
INVARIANTS TypeOK IndexesAgree ReportsBalance TokensNotReused
PROPERTIES IdleFlowsClose StopTerminates
