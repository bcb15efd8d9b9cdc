SPECIFICATION Spec
CONSTANTS
  Target <- Targets3
  Link <- Links3
  None = None
  Cpu = {c1}
  Configs <- Fixed
  Signals = {"TERM"}
  Outsiders = TRUE
  MaxGeneration = 3
  MaxRefusals = 1
INVARIANTS LeftOnlyIfRefused
PROPERTIES AtomicSnapshots
CHECK_DEADLOCK FALSE
