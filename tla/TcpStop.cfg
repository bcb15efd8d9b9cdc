SPECIFICATION StopSpec
CONSTANTS
  MaxClients = 1
  MaxSessions = 1
  BufferLimit = 1
  LowWater = 0
  RxCap = 1
  MaxEvents = 3
  AcceptBatch = 1
  MaxSignals = 1
  MaxResets = 0
  EnvPoints <- WhileWaiting
INVARIANTS NoDanglingSession
PROPERTIES DrainOnlyFlushes StopTerminates
