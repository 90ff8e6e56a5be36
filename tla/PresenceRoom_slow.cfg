\* A sweep takes longer than a heartbeat lasts while other messages wait for it.
CONSTANTS
  Peer = {p1, p2, p3}
  Room = Room
  Alarm = Alarm
  Hosts <- SlowObject
SPECIFICATION Spec
SYMMETRY Symmetry
INVARIANTS NoCircularWait
\* A room whose clients are gone may stay as it is.
CHECK_DEADLOCK FALSE
