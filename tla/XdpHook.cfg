SPECIFICATION FairSpec
CONSTANTS
  Loader = {"dsr", "legacy"}
  Detacher = {"detach"}
  Target <- Targets
  Profile <- Profiles
  Config <- Configs
  Slots = 3
  Refusals = 2
INVARIANTS AttachedIsComplete 
PROPERTIES HookIsRespected DetachRecovers
CHECK_DEADLOCK FALSE
