CONSTANTS
  EPOCHS = 2
  MAX_QUANTUM = 1
  Offsets <- MCOffsets
  Steps <- MCSteps
  TIMES = 16
  QSize = 3
  FirstBench = 1
  MaxEpoch = 4
  MaxReqs = 3
  MAX_BLOCK_SIZE = 2
  MaxSizes <- MCMaxSizes
  MaxAllocs = 1
  MaxElements = 7
  NoElement = NoElement
SPECIFICATION ThreadsSpec
INVARIANTS ThreadsInStep QueueAnswersTrue
PROPERTIES PlayedInOrder CaptureCovers FifoSpec
