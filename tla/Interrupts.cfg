CONSTANTS
  CPU <- MCCPU
  SGI <- MCSGI
  PPI <- MCPPI
  SPI <- MCSPI
  Masks <- MCMasks
  Priority <- MCPriority
  MaxRaised = 2
  MaxWrites = 1
  MaxInput = 2
  MaxTimeout = 2
SPECIFICATION InterruptsSpec
INVARIANTS QueuesInOrder NoPhantomInterrupt UartFlagsAgree
PROPERTIES QueueServed UartLineFollows
