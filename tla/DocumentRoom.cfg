\* Two peers of a closing host that refreshes in the background, and of a
\* hibernating one that refreshes on messages and whose peers write and repair.
CONSTANTS
  Peer = {p1, p2}
  Room = Room
  b1 = b1
  b2 = b2
  Batch = {b1, b2}
  Subscription = {s1, s2}
  None = None
  Hosts <- BothHosts
SPECIFICATION Spec
SYMMETRY Symmetry
INVARIANTS TypeOK FanoutCounted NothingLeaks RevalidationContinues NoGap
PROPERTIES NoLateSession
\* A room without peers, whose clients are done, or that is closed may stay as it is.
CHECK_DEADLOCK FALSE
