\* A private document is shared while it is edited; nothing fails.
CONSTANTS
  tab1 = tab1
  tab2 = tab2
  ann = ann
  ben = ben
  Client = {tab1}
  User = {ann, ben}
  UserOf <- TwoUsers
  Transports = {"http", "ws"}
  ChunkSize = 1
  PageSize = 1
  Budgets <- Switching
SPECIFICATION Spec
INVARIANTS RepairsFirst
\* Once the edits and the faults are used up and everything is answered, nothing is left to do.
CHECK_DEADLOCK FALSE
