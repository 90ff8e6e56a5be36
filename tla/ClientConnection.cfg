\* A session that is shared, unshared and shared again, over outages and failures.
CONSTANTS
  Connections = 4
  None = None
  Modes = {"authenticated", "public"}
  MaxCalls = 5
  MaxFaults = 3
  MaxOutages = 2
SPECIFICATION FairSpec
INVARIANTS TypeOK OneConnection StatusIsTrue
PROPERTIES Reconnects
\* A session that is disposed, or not asked for anything, may stay as it is.
CHECK_DEADLOCK FALSE
