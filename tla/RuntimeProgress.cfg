SPECIFICATION FairSpec
CONSTANTS
  Target <- Targets3
  Link <- Links3
  None = None
  Cpu = {}
  Configs <- Moved
  Signals = {"HUP", "TERM"}
  Outsiders = FALSE
  MaxGeneration = 3
  MaxRefusals = 1
PROPERTIES HealthIsPublished StopTerminates ReloadTakesEffect
CHECK_DEADLOCK FALSE
