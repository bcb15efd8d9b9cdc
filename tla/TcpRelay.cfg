SPECIFICATION Spec
CONSTANTS
  MaxClients = 1
  MaxSessions = 1
  BufferLimit = 3
  LowWater = 1
  RxCap = 2
  MaxEvents = 3
  AcceptBatch = 1
  MaxSignals = 0
  MaxResets = 1
  EnvPoints <- BetweenHandlers
INVARIANTS TypeOK StreamsInOrder NoLostWakeup
PROPERTIES DrainedIsComplete
