CONSTANTS
  Limit = 2
  Sizes = {1, 3}
  MaxSent = 2
SPECIFICATION FairSpec
CHECK_DEADLOCK FALSE
INVARIANTS
  WrittenInOrder
PROPERTIES
  WriterSpec
  OneQueueDrained
  LeftOpen
  EndsAfterRemoval
