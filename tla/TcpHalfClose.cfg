SPECIFICATION FairSpec
CONSTANTS
  MaxClients = 1
  MaxSessions = 1
  BufferLimit = 2
  LowWater = 1
  RxCap = 1
  MaxEvents = 3
  AcceptBatch = 1
  MaxSignals = 0
  MaxResets = 0
  EnvPoints <- WhileWaiting
PROPERTIES HalfClosePropagates ListenerRecovers
