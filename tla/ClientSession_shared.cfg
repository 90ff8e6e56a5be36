\* Two users edit a shared document; connections and messages are lost.
CONSTANTS
  tab1 = tab1
  tab2 = tab2
  ann = ann
  ben = ben
  Client = {tab1, tab2}
  User = {ann, ben}
  UserOf <- TwoUsers
  Transports = {"ws"}
  ChunkSize = 1
  PageSize = 1
  Budgets <- Sharing
SPECIFICATION FairSpec
INVARIANTS TypeOK RepairsFirst SyncedSeesAll
PROPERTIES EditsBecomeDurable SessionsConverge
\* Once the edits and the faults are used up and everything is answered, nothing is left to do.
CHECK_DEADLOCK FALSE
