---------------------------- MODULE BlockReplica ----------------------------
(***************************************************************************)
(* A BlockReplica of packages/block-model: batches of rich-text events     *)
(* arrive in any order and grouping, or are made by local transactions;    *)
(* a batch is integrated when its parents are, and waits until then.       *)
(*                                                                         *)
(* planIntegration is modelled step by step: it evaluates the staged       *)
(* batches, then wakes, event by event, the batches that wait for what it  *)
(* has planned.  The calls are synchronous, so nothing else happens while  *)
(* a plan is made.  The order of the waiters and of the woken events is    *)
(* left open, and so is which of its missing parents a batch waits for.    *)
(* The bootstrap batch, which every replica has, is left out of the maps.  *)
(***************************************************************************)
EXTENDS BlockState

CONSTANTS
  Batch,        \* The batches that can arrive or be made here.
  Local,        \* Those this replica makes.
  BatchEvents,  \* Batch -> the sequence of its events.
  BatchParents, \* Batch -> the parents of its first event.
  NoBatch,      \* No batch: no transaction is running.
  MaxDelivery,  \* How many batches a delivery may hold.
  MaxSaved      \* How many batches a snapshot may hold.

EventSet(b) == ToSet(BatchEvents[b])

ASSUME BatchAssumption ==
  /\ \A b \in Batch : BatchEvents[b] \in Seq(Event) /\ EventSet(b) # {}
  /\ \A b \in Batch : BatchParents[b] \subseteq Event
  /\ Local \subseteq Batch /\ NoBatch \notin Batch
  /\ NoEvent \notin Event

\* Events come after their parents, so no batches follow each other in a cycle.
ASSUME CausalAssumption ==
  \A batches \in SUBSET Batch : batches # {} =>
    \E b \in batches : \A c \in batches : BatchParents[b] \cap EventSet(c) = {}

VARIABLES
  held,        \* ReplicaState: the events its sequence and its causal index have.
  state,       \* ReplicaState: the index itself and the block projection.
  batchesById, \* The batches kept, integrated or pending.
  eventOwner,  \* Event -> the kept batch it belongs to, or NoBatch.
  integrated,  \* The integrated batches, in the order they were applied.
  pending,     \* Batch -> the missing event it waits for, or NoEvent.
  waiting,     \* Event -> the pending batches that wait for it.
  saved,       \* The batches of the last serialize().
  plan         \* The call that is running.

live == <<held, state>>
kept == <<batchesById, eventOwner, integrated, pending, waiting>>
vars == <<live, kept, saved, plan>>

\* Empty maps.
NoOwner == [e \in Event |-> NoBatch]
NoWait == [b \in Batch |-> NoEvent]
NoWaiters == [e \in Event |-> {}]

\* What a call keeps on its stack: nothing, between calls.
NoPlan == [local |-> NoBatch, edits |-> 0, planning |-> FALSE,
           staged |-> {}, todo |-> {}, ready |-> <<>>, parked |-> NoWait,
           planned |-> {}, woken |-> {}]

Idle == plan = NoPlan

\* The batches in a map from batches to the event they wait for.
In(map) == {b \in Batch : map[b] # NoEvent}

Waits == [Batch -> Event \cup {NoEvent}]

Plans == [local : Local \cup {NoBatch}, edits : Nat, planning : BOOLEAN,
          staged : SUBSET Batch, todo : SUBSET Batch, ready : Seq(Batch), parked : Waits,
          planned : SUBSET Event, woken : SUBSET Event]

TypeOK ==
  /\ batchesById \subseteq Batch
  /\ saved \subseteq Batch
  /\ integrated \in Seq(Batch)
  /\ eventOwner \in [Event -> Batch \cup {NoBatch}]
  /\ pending \in Waits
  /\ waiting \in [Event -> SUBSET Batch]
  /\ plan \in Plans

\* The events of the batches in a sequence, in order.
FlatEvents(batches) == FlattenSeq([i \in DOMAIN batches |-> BatchEvents[batches[i]]])

\* The events of the committed batches.
Committed == {BootEvent} \cup UNION {EventSet(b) : b \in ToSet(integrated)}

\* rebuildState: a new state replays the committed batches.
RebuildState ==
  /\ state' = IntegrateEvents(BootState, FlatEvents(integrated))
  /\ held' = Committed

Init ==
  /\ state = BootState /\ held = {BootEvent}
  /\ batchesById = {} /\ integrated = <<>>
  /\ eventOwner = NoOwner /\ pending = NoWait /\ waiting = NoWaiters
  /\ saved = {}
  /\ plan = NoPlan

-----------------------------------------------------------------------------
(* Calls. *)

Unowned(b) == \A e \in EventSet(b) : eventOwner[e] = NoBatch

\* No event of the staged batches belongs to another batch.
NoConflict(staged) ==
  /\ \A b \in staged : Unowned(b)
  /\ \A b, c \in staged : b # c => EventSet(b) \cap EventSet(c) = {}

PlanRemote(staged) ==
  plan' = [NoPlan EXCEPT !.planning = TRUE, !.staged = staged, !.todo = staged]

\* applyRemoteEvents: what is known is skipped; a conflict throws before anything is done.
ApplyRemoteEvents(input) ==
  /\ Idle
  /\ input \ batchesById # {}
  /\ NoConflict(input \ batchesById)
  /\ PlanRemote(input \ batchesById)
  /\ UNCHANGED <<live, kept, saved>>

\* transact, up to the callback.  The batch follows everything integrated.
BeginTransaction(b) ==
  /\ Idle
  /\ Unowned(b)
  /\ BatchParents[b] = Frontier(held)
  /\ plan' = [NoPlan EXCEPT !.local = b]
  /\ UNCHANGED <<live, kept, saved>>

Editing == plan.local # NoBatch /\ ~plan.planning

\* The callback reads the document and applies the next edit to the live state.
Edit ==
  /\ Editing
  /\ plan.edits < Len(BatchEvents[plan.local])
  /\ LET event == BatchEvents[plan.local][plan.edits + 1]
         new == IntegrateEvents(Refresh(state), <<event>>)
     IN \/ new.failed /\ RebuildState /\ plan' = NoPlan
        \/ /\ ~new.failed
           /\ state' = new /\ held' = held \cup {event}
           /\ plan' = [plan EXCEPT !.edits = @ + 1]
  /\ UNCHANGED <<kept, saved>>

\* A mutant: the state keeps the edits made before the callback threw.
AbortKeepsEdits ==
  /\ Editing
  /\ plan' = NoPlan
  /\ UNCHANGED <<live, kept, saved>>

\* The callback throws, or edits nothing.
AbortTransaction ==
  /\ Editing
  /\ IF plan.edits > 0 THEN RebuildState ELSE UNCHANGED live
  /\ plan' = NoPlan
  /\ UNCHANGED <<kept, saved>>

\* The batch is complete: what waits for its events is woken.
FinishTransaction ==
  /\ Editing
  /\ plan.edits = Len(BatchEvents[plan.local])
  /\ plan' = [plan EXCEPT !.planning = TRUE, !.woken = EventSet(plan.local)]
  /\ UNCHANGED <<live, kept, saved>>

\* getDocument, by a listener or anyone else.
GetDocument ==
  /\ Idle
  /\ state' = Refresh(state)
  /\ UNCHANGED <<held, kept, saved, plan>>

\* serialize, while the replica is young.
Serialize ==
  /\ Idle
  /\ Cardinality(batchesById) <= MaxSaved
  /\ saved' = batchesById
  /\ UNCHANGED <<live, kept, plan>>

\* deserialize: a new replica is given the saved batches in one delivery.
Deserialize ==
  /\ Idle
  /\ state' = BootState /\ held' = {BootEvent}
  /\ batchesById' = {} /\ integrated' = <<>>
  /\ eventOwner' = NoOwner /\ pending' = NoWait /\ waiting' = NoWaiters
  /\ IF saved = {} THEN plan' = NoPlan ELSE PlanRemote(saved)
  /\ UNCHANGED saved

-----------------------------------------------------------------------------
(* planIntegration *)

Missing(b) == {e \in BatchParents[b] : e \notin held /\ e \notin plan.planned}

\* A mutant: the batch wakes nobody.
EvaluateReadyQuietly(b) ==
  /\ b \in plan.todo
  /\ Missing(b) = {}
  /\ plan' = [plan EXCEPT !.todo = @ \ {b}, !.ready = Append(@, b),
                          !.parked[b] = NoEvent, !.planned = @ \cup EventSet(b)]
  /\ UNCHANGED <<live, kept, saved>>

\* A mutant: the event ids are collected, not the batch.
EvaluateReadyEvents(b) ==
  /\ b \in plan.todo
  /\ Missing(b) = {}
  /\ plan' = [plan EXCEPT !.todo = @ \ {b}, !.ready = @ \o BatchEvents[b],
                          !.planned = @ \cup EventSet(b), !.woken = @ \cup EventSet(b)]
  /\ UNCHANGED <<live, kept, saved>>

\* evaluate, when nothing is missing: the batch is ready and wakes others.
EvaluateReady(b) ==
  /\ b \in plan.todo
  /\ Missing(b) = {}
  /\ plan' = [plan EXCEPT !.todo = @ \ {b},
                          !.ready = Append(@, b),
                          !.parked[b] = NoEvent,
                          !.planned = @ \cup EventSet(b),
                          !.woken = @ \cup EventSet(b)]
  /\ UNCHANGED <<live, kept, saved>>

\* evaluate, when a parent is missing: the batch is parked on it.
EvaluateMissing(b) ==
  /\ b \in plan.todo
  /\ \E e \in Missing(b) :
       plan' = [plan EXCEPT !.todo = @ \ {b}, !.parked[b] = e]
  /\ UNCHANGED <<live, kept, saved>>

\* A mutant: only what the call itself parked is evaluated again.
WakeStagedOnly(e) ==
  /\ plan.todo = {}
  /\ e \in plan.woken
  /\ plan' = [plan EXCEPT !.woken = @ \ {e}, !.todo = {b \in Batch : plan.parked[b] = e}]
  /\ UNCHANGED <<live, kept, saved>>

\* The batches pending or parked on an event.
Waiters(e) == waiting[e] \cup {b \in Batch : plan.parked[b] = e}

\* The next woken event that batches wait for: they are evaluated again.  An event nobody
\* waits for changes nothing when its turn comes, and is left in the queue.
Wake(e) ==
  /\ plan.todo = {}
  /\ e \in plan.woken
  /\ Waiters(e) # {}
  /\ plan' = [plan EXCEPT !.woken = @ \ {e}, !.todo = Waiters(e)]
  /\ UNCHANGED <<live, kept, saved>>

-----------------------------------------------------------------------------
(* The end of a call. *)

\* Nobody waits for what is still in the queue of woken events.
Planned == plan.planning /\ plan.todo = {} /\ \A e \in plan.woken : Waiters(e) = {}

AfterReady == IF plan.ready = <<>> THEN state ELSE IntegrateEvents(state, FlatEvents(plan.ready))

\* integrateReady throws: the state is rebuilt and nothing is stored.
IntegrationFails ==
  /\ Planned
  /\ AfterReady.failed
  /\ RebuildState
  /\ plan' = NoPlan
  /\ UNCHANGED <<kept, saved>>

\* commit: the batches are stored, those planned leave the buffer (unpark), the parked enter it.
Commit ==
  LET stored == IF plan.local = NoBatch THEN plan.staged ELSE {plan.local}
      own == IF plan.local = NoBatch THEN <<>> ELSE <<plan.local>>
      moved == ToSet(plan.ready) \cup In(plan.parked)
  IN /\ Planned
     /\ ~AfterReady.failed
     /\ state' = AfterReady /\ held' = held \cup plan.planned
     /\ batchesById' = batchesById \cup stored
     /\ eventOwner' = [e \in Event |->
                         IF \E b \in stored : e \in EventSet(b)
                         THEN CHOOSE b \in stored : e \in EventSet(b) ELSE eventOwner[e]]
     /\ integrated' = integrated \o own \o plan.ready
     /\ pending' = [b \in Batch |-> IF b \in moved THEN plan.parked[b] ELSE pending[b]]
     /\ waiting' = [e \in Event |-> (waiting[e] \ moved) \cup {b \in Batch : plan.parked[b] = e}]
     /\ plan' = NoPlan
     /\ UNCHANGED saved

Next ==
  \/ \E input \in {S \in SUBSET Batch : Cardinality(S) <= MaxDelivery} : ApplyRemoteEvents(input)
  \/ \E b \in Local : BeginTransaction(b)
  \/ Edit
  \/ AbortTransaction
  \/ FinishTransaction
  \/ GetDocument
  \/ Serialize
  \/ Deserialize
  \/ \E b \in Batch : EvaluateReady(b)
  \/ \E b \in Batch : EvaluateMissing(b)
  \/ \E e \in Event : Wake(e)
  \/ IntegrationFails
  \/ Commit

Spec == Init /\ [][Next]_vars

-----------------------------------------------------------------------------
(* Properties. *)

\* The pending batches are those kept but not integrated, each lacks the very parent it
\* waits for, and the waiting index names exactly them: none is ready and forgotten, and
\* the arrival of the missing event will find it (planIntegration, commit, unpark).
NoReadyBatchParked ==
  /\ In(pending) = batchesById \ ToSet(integrated)
  /\ \A b \in In(pending) : pending[b] \in BatchParents[b]
  /\ Idle => \A b \in In(pending) : pending[b] \notin held
  /\ \A e \in Event : waiting[e] = {b \in Batch : pending[b] = e}

\* Between calls the live state holds exactly the events of the committed batches: a
\* transaction or a delivery that throws, even after some of its edits reached the state,
\* leaves no trace (transact, integrateReady, rebuildState).
FailureLeavesNoTrace ==
  Idle => held = Committed

\* Between calls the document read from the incremental state, with its cached blocks, is
\* the one materializeBlockState computes from the integrated events at once: it depends on
\* neither the order of integration nor what was read in between.
DocumentMatchesRebuild ==
  Idle => Refresh(state).visible = Materialize(held)

\* The chains of the causal index answer ancestry as the parent graph does (isAncestor).
IndexIsExact ==
  /\ DOMAIN state.index.nodes = held
  /\ \A a, d \in held : IsAncestor(state.index, a, d) <=> a \in Past[d]

\* Whatever the deliveries, a replica integrates all it can and nothing too early
\* (planIntegration against the promise of CausalDelivery).
Delivery == INSTANCE CausalDelivery WITH
  known <- batchesById, integrated <- ToSet(integrated),
  BatchEvents <- [b \in Batch |-> EventSet(b)], Parents <- BatchParents, Initial <- {BootEvent}
ImplementsDelivery == Delivery!Spec

=============================================================================
