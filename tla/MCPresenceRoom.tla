--------------------------- MODULE MCPresenceRoom ---------------------------
(* PresenceRoom for TLC: the peers are interchangeable. *)
EXTENDS PresenceRoom, TLC

Symmetry == Permutations(Peer)

\* A host with timers, which may close the room.
NitroHost ==
  [refreshMode |-> "background", closes |-> TRUE, hibernates |-> FALSE, slow |-> FALSE,
   messages |-> 4, faults |-> 1, expiries |-> 2]

\* A host that sweeps on messages and alarms, and hibernates.
DurableObject ==
  [refreshMode |-> "on-message", closes |-> FALSE, hibernates |-> TRUE, slow |-> FALSE,
   messages |-> 4, faults |-> 1, expiries |-> 2]

BothHosts == {NitroHost, DurableObject}

\* A sweep may take longer than a heartbeat lasts; nothing fails.
SlowObject ==
  {[DurableObject EXCEPT !.slow = TRUE, !.faults = 0, !.messages = 6, !.expiries = 1]}

=============================================================================
