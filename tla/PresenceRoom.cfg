\* Two peers of a host with timers that closes the room, and of one that sweeps
\* on messages and alarms, and hibernates.
CONSTANTS
  Peer = {p1, p2}
  Room = Room
  Alarm = Alarm
  Hosts <- BothHosts
SPECIFICATION Spec
SYMMETRY Symmetry
INVARIANTS TypeOK NothingLeaks NoGhosts NoCircularWait
\* A room whose clients are gone, or that is closed, may stay as it is.
CHECK_DEADLOCK FALSE
