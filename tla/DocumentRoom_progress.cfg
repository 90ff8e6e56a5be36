\* Whatever else happens, leave and close finish.
CONSTANTS
  Peer = {p1, p2}
  Room = Room
  b1 = b1
  b2 = b2
  Batch = {b1, b2}
  Subscription = {s1, s2}
  None = None
  Hosts <- SmallHost
SPECIFICATION FairSpec
PROPERTIES TeardownCompletes
\* A closed room stays as it is.
CHECK_DEADLOCK FALSE
