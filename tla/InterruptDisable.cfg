CONSTANTS
  CPU <- MCCPU
  SGI <- MCSGI
  PPI <- MCPPI
  SPI <- MCSPI
  Masks <- MCMasks
  Priority <- MCPriority
  MaxRaised = 3
  MaxWrites = 1
SPECIFICATION Spec
PROPERTY
  DisableWorks
