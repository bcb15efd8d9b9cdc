SPECIFICATION FairSpec
CONSTANTS
  N = 2
  Noisy = {0}
  ReceiveBudget = 2
  QueueSize = 2
  Timeout = 1
  Interval = 2
INVARIANTS AnswersAreRead SnapshotsAreImportable
PROPERTIES SuccessIsCurrent DeadTargetLeaves
CHECK_DEADLOCK FALSE
