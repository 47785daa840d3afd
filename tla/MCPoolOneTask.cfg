SPECIFICATION Spec
CONSTANTS
  tracking = tracking
  PoolBlocks = 6
  BlockBytes = 2
  RequestSizes = {0, 1, 2, 3, 5, 6}
  Tasks = {tracking}
  Priority <- OneTask
INVARIANTS
  TypeOK
  TableMatchesOwners
PROPERTIES
  ImplementsAllocator
  FailsOnlyWhenFull
