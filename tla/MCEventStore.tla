---------------------------- MODULE MCEventStore ----------------------------
(***************************************************************************)
(* Small instances of EventStore: batches that follow each other, repeat,  *)
(* name unstored parents, reuse a batch id with another payload and reuse  *)
(* an event id in another batch.                                           *)
(***************************************************************************)
EXTENDS EventStoreRefinesLog

Ev(id, parents) == [id |-> id, parents |-> parents]

Batches ==
  [b1 |-> [batchId |-> "B1", parentVersion |-> {"boot"}, events |-> <<Ev("e1", {"boot"})>>],
   b2 |-> [batchId |-> "B2", parentVersion |-> {"e1"},
           events |-> <<Ev("e2", {"e1"}), Ev("e3", {"e2"})>>],
   otherPayload |-> [batchId |-> "B1", parentVersion |-> {"boot"},
                     events |-> <<Ev("e9", {"boot"})>>],
   otherBatch |-> [batchId |-> "B3", parentVersion |-> {"boot"},
                   events |-> <<Ev("e1", {"boot"})>>]]

Pool == {Batches[name] : name \in DOMAIN Batches}

\* What two editors send, in any order, and what conflicts with it.
Requests ==
  {<<Batches.b1>>, <<Batches.b1, Batches.b2>>, <<Batches.b2, Batches.b1>>,
   <<Batches.otherBatch>>, <<Batches.otherPayload>>, <<Batches.b1, Batches.otherPayload>>}
=============================================================================
