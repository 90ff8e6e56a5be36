\* Local storage fails once while a private document is edited.
CONSTANTS
  tab1 = tab1
  tab2 = tab2
  ann = ann
  ben = ben
  Client = {tab1}
  User = {ann, ben}
  UserOf <- TwoUsers
  Transports = {"http"}
  ChunkSize = 1
  PageSize = 1
  Budgets <- StorageFailing
SPECIFICATION Spec
PROPERTIES SavedIsDurable
\* Once the edits and the faults are used up and everything is answered, nothing is left to do.
CHECK_DEADLOCK FALSE
