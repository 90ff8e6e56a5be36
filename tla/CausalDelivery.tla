--------------------------- MODULE CausalDelivery ---------------------------
(***************************************************************************)
(* What a replica promises of the batches it is given: whatever the order  *)
(* and the grouping of the deliveries, it has integrated every batch whose *)
(* causal past has arrived, and no other.                                  *)
(***************************************************************************)
EXTENDS FiniteSets

CONSTANTS
  Batch,       \* The batches.
  BatchEvents, \* Batch -> the set of its events.
  Parents,     \* Batch -> the set of the parents of its first event.
  Initial      \* The events every replica starts with.

VARIABLES
  known,       \* The batches the replica keeps, integrated or waiting.
  integrated   \* The batches it has integrated.

vars == <<known, integrated>>

EventsOf(batches) == Initial \cup UNION {BatchEvents[b] : b \in batches}

\* Sets of batches that lack no parent.
Closed(batches) == \A b \in batches : Parents[b] \subseteq EventsOf(batches)

\* The largest closed set among some batches.  Batches do not depend on each other in a cycle.
Deliverable(batches) == UNION {S \in SUBSET batches : Closed(S)}

Init == known = {} /\ integrated = {}

\* New batches arrive, or are made here; a restart may forget some.
Deliver == \E batches \in SUBSET (Batch \ known) :
  /\ batches # {}
  /\ known' = known \cup batches
  /\ integrated' = Deliverable(known')

Forget == \E batches \in SUBSET known :
  /\ batches # known
  /\ known' = batches
  /\ integrated' = Deliverable(known')

Next == Deliver \/ Forget

Spec == Init /\ [][Next]_vars

=============================================================================
