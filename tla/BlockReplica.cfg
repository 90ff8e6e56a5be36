\* Seven batches, two of which begin with a merge, delivered up to two at a time; three may be
\* made here, one of them a merge.
CONSTANTS
  root = root
  x = x
  y = y
  none = none
  Event <- Events
  BootEvent = 0
  EventParents <- ParentEvents
  Effect <- Effects
  Block <- Blocks
  Root = root
  NoBlock = none
  BlockOrder <- Order
  Batch <- Batches
  Local = {1, 6, 8}
  BatchEvents <- EventsOfBatch
  BatchParents <- ParentsOfBatch
  NoBatch = 0
  MaxDelivery = 2
  MaxSaved = 2
SPECIFICATION Spec
INVARIANTS TypeOK NoReadyBatchParked FailureLeavesNoTrace DocumentMatchesRebuild IndexIsExact
PROPERTIES ImplementsDelivery
