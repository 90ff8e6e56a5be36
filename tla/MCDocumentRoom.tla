--------------------------- MODULE MCDocumentRoom ---------------------------
(* DocumentRoom for TLC: the peers and batches are interchangeable. *)
EXTENDS DocumentRoom, TLC

CONSTANTS b1, b2

Symmetry == Permutations(Peer) \cup Permutations(Batch) \cup Permutations(Subscription)

\* A host that refreshes in the background and may close; nobody writes.
NitroHost ==
  [refreshMode |-> "background", closes |-> TRUE, batches |-> {},
   messages |-> 4, faults |-> 1, expiries |-> 2]

\* A host that refreshes on messages and resumes sessions; its clients write.
DurableObject ==
  [refreshMode |-> "on-message", closes |-> FALSE, batches |-> {b1, b2},
   messages |-> 3, faults |-> 1, expiries |-> 1]

BothHosts == {NitroHost, DurableObject}

\* The first of them, small enough for temporal properties.
SmallHost == {[NitroHost EXCEPT !.messages = 2, !.expiries = 0]}

=============================================================================
