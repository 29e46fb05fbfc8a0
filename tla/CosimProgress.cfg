CONSTANTS
  EPOCHS = 2
  MAX_QUANTUM = 1
  Offsets <- MCOffsets
  Steps <- MCSteps
  TIMES = 16
  QSize = 2
  FirstBench = 1
  MaxEpoch = 3
  MaxReqs = 2
  Address <- MCAddress
  Mapped <- MCMapped
  Value <- MCValue
  IrqCapacity = 1
  MaxAccesses = 2
  MaxIrqs = 2
SPECIFICATION ProgressSpec
INVARIANT LinkInStep
PROPERTIES ThreadsGoOn LinkGoesOn
