SPECIFICATION ServiceSpec
CONSTANTS
  N = 3
  HealthCheck = TRUE
  MaxSessions = 2
  GaugeLimit = 2
  CounterMax = 4
INVARIANTS NoStarvation GaugeIsSessions LastSnapshotIsBalanced
PROPERTIES SnapshotsInSequence
CHECK_DEADLOCK FALSE
