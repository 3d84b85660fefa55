SPECIFICATION MCSpec
CONSTANTS
  num_of_blocks = 4
  size_of_each_block = 10
  Sizes = {2, 3}
  MAGIC_NUMBER = MAGIC
  NULL_BLOCK = NULL_BLOCK
INVARIANTS
  AckedRangesAreExact
  TreesAreExact
  LossHistoryIsExact
  FramesAreExact
  HeadersAreExact
  ParametersAreExact
PROPERTIES
  PoolIsAnAllocator
CHECK_DEADLOCK FALSE
