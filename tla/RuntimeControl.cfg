SPECIFICATION Spec
CONSTANTS
  Target <- Targets3
  Link <- Links3
  None = None
  Cpu = {}
  Configs <- Renumbered
  Signals = {"HUP", "TERM", "PIPE"}
  Outsiders = FALSE
  MaxGeneration = 3
  MaxRefusals = 1
INVARIANTS TypeOK AppliedIsActive ReloadNotLost
PROPERTIES StopIsFinal PublishedAreHealthy
CHECK_DEADLOCK FALSE
