CONSTANTS
  Author = {1, 2, 3, 4}
  Active = {1, 3}
  Me = 2
  MaxEvents = 4
  Histories <- History
  MaxDeletes = 1
  MaxBatch = 5
  MaxLive = 1
  MaxWarm = 2
SPECIFICATION Spec
INVARIANTS TypeOK TextIsReplay NothingReadyWaits
