\* One page, or two tabs of one user with one local storage, save and are reloaded.
CONSTANTS
  tab1 = tab1
  tab2 = tab2
  ann = ann
  ben = ben
  Client = {tab1, tab2}
  User = {ann, ben}
  UserOf <- OneUser
  Transports = {"http", "ws"}
  ChunkSize = 1
  PageSize = 1
  Budgets <- PageOrTabs
SPECIFICATION Spec
INVARIANTS NoEditLost NoMissingParents
PROPERTIES SavedIsDurable
\* Once the edits and the faults are used up and everything is answered, nothing is left to do.
CHECK_DEADLOCK FALSE
