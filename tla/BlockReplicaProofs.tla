------------------------- MODULE BlockReplicaProofs -------------------------
(***************************************************************************)
(* Proofs about BlockReplica, for any set of batches and events, any       *)
(* dependencies between them, and whatever integrating them does.          *)
(*                                                                         *)
(* The last part shows that BlockReplica implements CausalDelivery if the  *)
(* dependencies are not cyclic: when a call commits, the integrated        *)
(* batches are the largest closed set of the kept ones.                    *)
(***************************************************************************)
EXTENDS BlockReplica, TLAPS

-----------------------------------------------------------------------------
(* The inductive invariant, in parts. *)

\* The events of the running transaction.
Own == IF plan.local = NoBatch THEN {} ELSE EventSet(plan.local)

Ready == ToSet(plan.ready)
Parked == In(plan.parked)

\* The batches the running plan has looked at.
Seen == plan.todo \cup Ready \cup Parked

\* The events that wake others in the running plan, sooner or later.
Reached == plan.planned \cup Own

\* Two batches without a common event.
Disjoint(b, c) == EventSet(b) \cap EventSet(c) = {}

\* The events of the kept batches, and no others, have an owner.
OwnerInv ==
  /\ \A e \in Event : eventOwner[e] # NoBatch =>
       eventOwner[e] \in batchesById /\ e \in EventSet(eventOwner[e])
  /\ \A b \in batchesById : \A e \in EventSet(b) : eventOwner[e] = b

\* What is saved can be delivered to a new replica.
SavedInv == \A b, c \in saved : b # c => Disjoint(b, c)

\* What the running call adds belongs to no other batch.
NewInv ==
  /\ \A b \in plan.staged : Unowned(b)
  /\ \A b, c \in plan.staged : b # c => Disjoint(b, c)
  /\ plan.local # NoBatch => Unowned(plan.local) /\ plan.staged = {}

\* How far the live state is ahead of the committed batches.
HeldInv ==
  /\ plan.local = NoBatch => plan.edits = 0 /\ held = Committed
  /\ plan.local # NoBatch /\ ~plan.planning =>
       /\ plan.edits <= Len(BatchEvents[plan.local])
       /\ held = Committed \cup {BatchEvents[plan.local][i] : i \in 1 .. plan.edits}
  /\ plan.local # NoBatch /\ plan.planning => held = Committed \cup Own

\* Outside planIntegration there is no plan.
QuietInv ==
  ~plan.planning =>
    /\ plan.staged = {} /\ plan.todo = {} /\ plan.ready = <<>> /\ plan.parked = NoWait
    /\ plan.planned = {} /\ plan.woken = {}

\* The pending batches, and the index over what they wait for.
PendingInv ==
  /\ In(pending) = batchesById \ ToSet(integrated)
  /\ ToSet(integrated) \subseteq batchesById
  /\ \A b \in In(pending) : pending[b] \in BatchParents[b] /\ pending[b] \notin Committed
  /\ \A e \in Event : waiting[e] = {b \in Batch : pending[b] = e}

\* Where a batch stands in the running plan.
PlanInv ==
  /\ plan.planned = UNION {EventSet(b) : b \in Ready}
  /\ plan.woken \subseteq Reached
  /\ Seen \subseteq plan.staged \cup In(pending)
  /\ plan.staged \subseteq Seen
  /\ Ready \cap (plan.todo \cup Parked) = {}
  /\ \A b \in Parked : plan.parked[b] \in BatchParents[b]

\* What a parked batch waits for is neither held nor planned, or will wake it.
ParkedInv ==
  \A b \in Parked \ plan.todo :
    plan.parked[b] \notin held /\ (plan.parked[b] \in plan.planned => plan.parked[b] \in plan.woken)

\* A pending batch was looked at when what it waits for was woken, and only then.
WokenInv ==
  plan.planning =>
    /\ \A b \in In(pending) \ Seen :
         pending[b] \in held \cup plan.planned => pending[b] \in plan.woken
    /\ \A b \in In(pending) \cap Seen : pending[b] \in Reached \ plan.woken

IInv ==
  /\ TypeOK
  /\ OwnerInv
  /\ SavedInv
  /\ NewInv
  /\ HeldInv
  /\ QuietInv
  /\ PendingInv
  /\ PlanInv
  /\ ParkedInv
  /\ WokenInv

-----------------------------------------------------------------------------
(* Sequences of batches as sets. *)

\* What a sequence holds is of its element type.
LEMMA SeqHolds ==
  ASSUME NEW S, NEW s \in Seq(S)
  PROVE  ToSet(s) \subseteq S
BY DEF ToSet

\* Appending adds one element.
LEMMA AppendHolds ==
  ASSUME NEW S, NEW s \in Seq(S), NEW x \in S
  PROVE  ToSet(Append(s, x)) = ToSet(s) \cup {x}
<1>1. ToSet(Append(s, x)) \subseteq ToSet(s) \cup {x}
  BY DEF ToSet
<1>2. ToSet(s) \subseteq ToSet(Append(s, x))
  <2>1. SUFFICES ASSUME NEW i \in DOMAIN s PROVE s[i] \in ToSet(Append(s, x))
    BY DEF ToSet
  <2>2. i \in DOMAIN Append(s, x) /\ Append(s, x)[i] = s[i]
    OBVIOUS
  <2> QED BY <2>2 DEF ToSet
<1>3. x \in ToSet(Append(s, x))
  <2>1. Len(s) + 1 \in DOMAIN Append(s, x) /\ Append(s, x)[Len(s) + 1] = x
    OBVIOUS
  <2> QED BY <2>1 DEF ToSet
<1> QED BY <1>1, <1>2, <1>3

\* A concatenation holds what its parts hold.
LEMMA ConcatHolds ==
  ASSUME NEW S, NEW s \in Seq(S), NEW t \in Seq(S)
  PROVE  ToSet(s \o t) = ToSet(s) \cup ToSet(t)
<1>1. ToSet(s \o t) \subseteq ToSet(s) \cup ToSet(t)
  <2>1. SUFFICES ASSUME NEW i \in DOMAIN (s \o t)
                 PROVE  (s \o t)[i] \in ToSet(s) \cup ToSet(t)
    BY DEF ToSet
  <2>2. CASE i <= Len(s)
    BY <2>2 DEF ToSet
  <2>3. CASE i > Len(s)
    <3>1. i - Len(s) \in DOMAIN t /\ (s \o t)[i] = t[i - Len(s)]
      BY <2>3
    <3> QED BY <3>1 DEF ToSet
  <2> QED BY <2>2, <2>3
<1>2. ToSet(s) \subseteq ToSet(s \o t)
  <2>1. SUFFICES ASSUME NEW i \in DOMAIN s PROVE s[i] \in ToSet(s \o t)
    BY DEF ToSet
  <2>2. i \in DOMAIN (s \o t) /\ (s \o t)[i] = s[i]
    OBVIOUS
  <2> QED BY <2>2 DEF ToSet
<1>3. ToSet(t) \subseteq ToSet(s \o t)
  <2>1. SUFFICES ASSUME NEW i \in DOMAIN t PROVE t[i] \in ToSet(s \o t)
    BY DEF ToSet
  <2>2. i + Len(s) \in DOMAIN (s \o t) /\ (s \o t)[i + Len(s)] = t[i]
    OBVIOUS
  <2> QED BY <2>2 DEF ToSet
<1> QED BY <1>1, <1>2, <1>3

\* The empty sequence holds nothing.
LEMMA EmptyHolds == ToSet(<<>>) = {}
BY DEF ToSet

\* The events of a batch are events.
LEMMA EventsAreEvents ==
  ASSUME NEW b \in Batch
  PROVE  EventSet(b) \subseteq Event
BY BatchAssumption, SeqHolds DEF EventSet

-----------------------------------------------------------------------------
(* The initial state, and what an idle plan says. *)

LEMMA NoPlanType == NoPlan \in Plans
BY DEF NoPlan, Plans, NoWait, Waits

\* Between calls the parts about the plan hold by themselves.
LEMMA IdlePlan ==
  ASSUME plan = NoPlan, NoEvent \notin Event
  PROVE  /\ Own = {} /\ Ready = {} /\ Parked = {} /\ Seen = {} /\ Reached = {}
         /\ QuietInv /\ PlanInv /\ ParkedInv /\ WokenInv
         /\ NewInv
         /\ HeldInv <=> held = Committed
<1>1. Own = {} /\ Ready = {} /\ Parked = {}
  BY EmptyHolds DEF NoPlan, Own, Ready, Parked, In, NoWait
<1>2. Seen = {} /\ Reached = {}
  BY <1>1 DEF Seen, Reached, NoPlan
<1> QED BY <1>1, <1>2 DEF QuietInv, PlanInv, ParkedInv, WokenInv, NewInv, HeldInv, NoPlan

LEMMA InitInv == Init => IInv
<1> SUFFICES ASSUME Init PROVE IInv
  OBVIOUS
<1>1. TypeOK
  BY NoPlanType DEF Init, TypeOK, NoOwner, NoWait, NoWaiters, Waits
<1>2. ToSet(integrated) = {} /\ Committed = {BootEvent} /\ In(pending) = {}
  BY EmptyHolds DEF Init, Committed, In, NoWait
<1>3. QuietInv /\ PlanInv /\ ParkedInv /\ WokenInv /\ NewInv /\ HeldInv
  BY <1>2, IdlePlan, BatchAssumption DEF Init
<1>4. OwnerInv /\ SavedInv
  BY DEF Init, OwnerInv, SavedInv, NoOwner
<1>5. PendingInv
  BY <1>2, BatchAssumption DEF Init, PendingInv, NoWait, NoWaiters
<1> QED BY <1>1, <1>3, <1>4, <1>5 DEF IInv

-----------------------------------------------------------------------------
(* Calls that begin. *)

\* A delivery to an idle replica is planned from the invariant's state.
LEMMA ApplyRemoteEventsInv ==
  ASSUME NEW input \in SUBSET Batch, IInv, ApplyRemoteEvents(input)
  PROVE  IInv'
<1> DEFINE staged == input \ batchesById
<1>1. /\ plan = NoPlan /\ plan' = [NoPlan EXCEPT !.planning = TRUE, !.staged = staged, !.todo = staged]
      /\ NoConflict(staged)
      /\ UNCHANGED <<held, batchesById, eventOwner, integrated, pending, waiting, saved>>
  BY DEF ApplyRemoteEvents, Idle, PlanRemote, live, kept
<1>2. /\ plan'.local = NoBatch /\ plan'.edits = 0 /\ plan'.planning /\ plan'.staged = staged
      /\ plan'.todo = staged /\ plan'.ready = <<>> /\ plan'.parked = NoWait
      /\ plan'.planned = {} /\ plan'.woken = {}
  BY <1>1 DEF NoPlan
<1>3. Own' = {} /\ Ready' = {} /\ Parked' = {} /\ Seen' = staged /\ Reached' = {}
  BY <1>2, EmptyHolds, BatchAssumption DEF Own, Ready, Parked, Seen, Reached, In, NoWait
<1>4. TypeOK'
  <2>1. plan' \in Plans
    BY <1>1, <1>2, NoPlanType DEF Plans
  <2> QED BY <1>1, <2>1 DEF TypeOK, IInv
<1>5. OwnerInv' /\ SavedInv' /\ PendingInv'
  BY <1>1 DEF IInv, OwnerInv, SavedInv, PendingInv, Committed
<1>6. NewInv'
  BY <1>1, <1>2 DEF NewInv, NoConflict, Disjoint, Unowned
<1>7. HeldInv'
  <2>1. held = Committed
    BY <1>1 DEF IInv, HeldInv, NoPlan
  <2> QED BY <2>1, <1>1, <1>2 DEF HeldInv, Committed
<1>8. QuietInv' /\ PlanInv' /\ ParkedInv'
  BY <1>2, <1>3 DEF QuietInv, PlanInv, ParkedInv
<1>9. WokenInv'
  <2>1. held = Committed
    BY <1>1 DEF IInv, HeldInv, NoPlan
  <2>2. In(pending) \cap staged = {}
    BY DEF IInv, PendingInv
  <2> QED BY <2>1, <2>2, <1>1, <1>2, <1>3 DEF IInv, PendingInv, WokenInv
<1> QED BY <1>4, <1>5, <1>6, <1>7, <1>8, <1>9 DEF IInv

\* A restored replica plans the delivery of what was saved.
LEMMA DeserializeInv ==
  ASSUME IInv, Deserialize
  PROVE  IInv'
<1>1. /\ held' = {BootEvent} /\ batchesById' = {} /\ integrated' = <<>> /\ saved' = saved
      /\ eventOwner' = NoOwner /\ pending' = NoWait /\ waiting' = NoWaiters
  BY DEF Deserialize
<1>2. saved \subseteq Batch
  BY DEF IInv, TypeOK
<1>3. Committed' = {BootEvent} /\ In(pending)' = {} /\ ToSet(integrated)' = {}
  BY <1>1, EmptyHolds, BatchAssumption DEF Committed, In, NoWait
<1>4. OwnerInv' /\ SavedInv' /\ PendingInv'
  <2>1. OwnerInv' /\ SavedInv'
    BY <1>1 DEF IInv, OwnerInv, SavedInv, NoOwner
  <2>2. \A e \in Event : waiting'[e] = {b \in Batch : pending'[b] = e}
    BY <1>1, BatchAssumption DEF NoWaiters, NoWait
  <2> QED BY <1>1, <1>3, <2>1, <2>2 DEF PendingInv
<1>5. plan' \in Plans => TypeOK'
  BY <1>1, <1>2 DEF TypeOK, NoOwner, NoWaiters, NoWait, Waits
<1>6. CASE plan' = NoPlan
  <2>1. Own' = {} /\ Ready' = {} /\ Parked' = {}
    BY <1>6, EmptyHolds, BatchAssumption DEF NoPlan, Own, Ready, Parked, In, NoWait
  <2>2. Seen' = {} /\ Reached' = {}
    BY <1>6, <2>1 DEF Seen, Reached, NoPlan
  <2>3. QuietInv' /\ PlanInv' /\ ParkedInv' /\ WokenInv' /\ NewInv' /\ HeldInv'
    BY <1>1, <1>3, <1>6, <2>1, <2>2
    DEF QuietInv, PlanInv, ParkedInv, WokenInv, NewInv, HeldInv, NoPlan
  <2> QED BY <1>4, <1>5, <1>6, <2>3, NoPlanType DEF IInv
<1>7. CASE plan' # NoPlan
  <2>1. plan' = [NoPlan EXCEPT !.planning = TRUE, !.staged = saved, !.todo = saved]
    BY <1>7 DEF Deserialize, PlanRemote
  <2>2. /\ plan'.local = NoBatch /\ plan'.edits = 0 /\ plan'.planning /\ plan'.staged = saved
        /\ plan'.todo = saved /\ plan'.ready = <<>> /\ plan'.parked = NoWait
        /\ plan'.planned = {} /\ plan'.woken = {}
    BY <2>1 DEF NoPlan
  <2>3. Own' = {} /\ Ready' = {} /\ Parked' = {} /\ Seen' = saved /\ Reached' = {}
    BY <2>2, EmptyHolds, BatchAssumption DEF Own, Ready, Parked, Seen, Reached, In, NoWait
  <2>4. plan' \in Plans
    BY <1>2, <2>1, NoPlanType DEF Plans
  <2>5. NewInv'
    <3>1. \A b \in Batch : Unowned(b)'
      BY <1>1, EventsAreEvents DEF Unowned, NoOwner
    <3> QED BY <1>2, <2>2, <3>1 DEF NewInv, IInv, SavedInv, Disjoint
  <2>6. HeldInv' /\ QuietInv' /\ PlanInv' /\ ParkedInv' /\ WokenInv'
    BY <1>1, <1>3, <2>2, <2>3 DEF HeldInv, QuietInv, PlanInv, ParkedInv, WokenInv
  <2> QED BY <1>4, <1>5, <2>4, <2>5, <2>6 DEF IInv
<1> QED BY <1>6, <1>7

\* A transaction begins.
LEMMA BeginTransactionInv ==
  ASSUME NEW b \in Local, IInv, BeginTransaction(b)
  PROVE  IInv'
<1>1. /\ plan = NoPlan /\ plan' = [NoPlan EXCEPT !.local = b] /\ Unowned(b)
      /\ UNCHANGED <<held, batchesById, eventOwner, integrated, pending, waiting, saved>>
  BY DEF BeginTransaction, Idle, live, kept
<1>2. /\ plan'.local = b /\ plan'.edits = 0 /\ ~plan'.planning /\ plan'.staged = {}
      /\ plan'.todo = {} /\ plan'.ready = <<>> /\ plan'.parked = NoWait
      /\ plan'.planned = {} /\ plan'.woken = {}
  BY <1>1 DEF NoPlan
<1>3. b \in Batch /\ b # NoBatch
  BY BatchAssumption
<1>4. Ready' = {} /\ Parked' = {} /\ Seen' = {}
  BY <1>2, EmptyHolds, BatchAssumption DEF Ready, Parked, Seen, In, NoWait
<1>5. TypeOK'
  <2>1. plan' \in Plans
    BY <1>1, NoPlanType DEF Plans
  <2> QED BY <1>1, <2>1 DEF TypeOK, IInv
<1>6. OwnerInv' /\ SavedInv' /\ PendingInv'
  BY <1>1 DEF IInv, OwnerInv, SavedInv, PendingInv, Committed
<1>7. NewInv'
  BY <1>1, <1>2 DEF NewInv, Unowned
<1>8. HeldInv'
  <2>1. held' = Committed'
    BY <1>1 DEF IInv, HeldInv, NoPlan, Committed
  <2>2. {BatchEvents[b][i] : i \in 1 .. 0} = {}
    OBVIOUS
  <2>3. Len(BatchEvents[b]) \in Nat
    BY <1>3, BatchAssumption
  <2> QED BY <1>2, <1>3, <2>1, <2>2, <2>3 DEF HeldInv
<1>9. QuietInv' /\ PlanInv' /\ ParkedInv' /\ WokenInv'
  BY <1>2, <1>4 DEF QuietInv, PlanInv, ParkedInv, WokenInv
<1> QED BY <1>5, <1>6, <1>7, <1>8, <1>9 DEF IInv

\* A call ends without having stored anything, and the live state is what is committed.
LEMMA EndedInv ==
  ASSUME IInv, plan' = NoPlan, held' = Committed, UNCHANGED <<kept, saved>>
  PROVE  IInv'
<1>1. UNCHANGED <<batchesById, eventOwner, integrated, pending, waiting, saved>>
  BY DEF kept
<1>2. Own' = {} /\ Ready' = {} /\ Parked' = {}
  BY EmptyHolds, BatchAssumption DEF NoPlan, Own, Ready, Parked, In, NoWait
<1>3. Seen' = {} /\ Reached' = {}
  BY <1>2 DEF Seen, Reached, NoPlan
<1>4. QuietInv' /\ PlanInv' /\ ParkedInv' /\ WokenInv' /\ NewInv' /\ HeldInv'
  BY <1>1, <1>2, <1>3 DEF QuietInv, PlanInv, ParkedInv, WokenInv, NewInv, HeldInv, NoPlan, Committed
<1>5. TypeOK' /\ OwnerInv' /\ SavedInv' /\ PendingInv'
  BY <1>1, NoPlanType DEF IInv, TypeOK, OwnerInv, SavedInv, PendingInv, Committed
<1> QED BY <1>4, <1>5 DEF IInv

-----------------------------------------------------------------------------
(* Inside a transaction. *)

\* An edit reaches the live state, or the transaction fails and the state is rebuilt.
LEMMA EditInv ==
  ASSUME IInv, Edit
  PROVE  IInv'
<1> DEFINE event == BatchEvents[plan.local][plan.edits + 1]
<1>1. CASE RebuildState /\ plan' = NoPlan
  BY <1>1, EndedInv DEF Edit, RebuildState
<1>2. CASE held' = held \cup {event} /\ plan' = [plan EXCEPT !.edits = @ + 1]
  <2>1. /\ plan.local # NoBatch /\ ~plan.planning /\ plan.edits < Len(BatchEvents[plan.local])
        /\ UNCHANGED <<batchesById, eventOwner, integrated, pending, waiting, saved>>
    BY DEF Edit, Editing, kept
  <2>2. plan \in Plans /\ plan.local \in Batch /\ plan.edits \in Nat
    BY <2>1, BatchAssumption DEF IInv, TypeOK, Plans
  <2>3. /\ plan' \in Plans /\ plan'.local = plan.local /\ plan'.edits = plan.edits + 1
        /\ ~plan'.planning /\ plan'.staged = plan.staged /\ plan'.todo = plan.todo
        /\ plan'.ready = plan.ready /\ plan'.parked = plan.parked
        /\ plan'.planned = plan.planned /\ plan'.woken = plan.woken
    BY <1>2, <2>1, <2>2 DEF Plans
  <2>4. TypeOK' /\ OwnerInv' /\ SavedInv' /\ PendingInv' /\ NewInv' /\ QuietInv'
    BY <2>1, <2>3 DEF IInv, TypeOK, OwnerInv, SavedInv, PendingInv, NewInv, QuietInv, Committed, Unowned
  <2>5. HeldInv'
    <3>1. held = Committed \cup {BatchEvents[plan.local][i] : i \in 1 .. plan.edits}
      BY <2>1 DEF IInv, HeldInv
    <3>2. 1 .. (plan.edits + 1) = (1 .. plan.edits) \cup {plan.edits + 1}
      BY <2>2
    <3>3. held' = Committed \cup {BatchEvents[plan.local][i] : i \in 1 .. (plan.edits + 1)}
      BY <1>2, <3>1, <3>2
    <3>4. plan.edits + 1 <= Len(BatchEvents[plan.local])
      BY <2>1, <2>2, BatchAssumption
    <3> QED BY <2>1, <2>3, <3>3, <3>4 DEF HeldInv, Committed
  <2>6. Ready' = {} /\ Parked' = {} /\ Seen' = {}
    BY <2>1, <2>3, EmptyHolds, BatchAssumption DEF IInv, QuietInv, Ready, Parked, Seen, In, NoWait
  <2>7. PlanInv' /\ ParkedInv' /\ WokenInv'
    BY <2>1, <2>3, <2>6 DEF IInv, QuietInv, PlanInv, ParkedInv, WokenInv
  <2> QED BY <2>4, <2>5, <2>7 DEF IInv
<1> QED BY <1>1, <1>2 DEF Edit

\* A transaction that is abandoned leaves the live state as it is committed.
LEMMA AbortTransactionInv ==
  ASSUME IInv, AbortTransaction
  PROVE  IInv'
<1>1. plan' = NoPlan /\ UNCHANGED <<kept, saved>> /\ plan.local # NoBatch /\ ~plan.planning
  BY DEF AbortTransaction, Editing
<1>2. held' = Committed
  <2>1. CASE plan.edits > 0
    BY <2>1 DEF AbortTransaction, RebuildState
  <2>2. CASE ~(plan.edits > 0)
    <3>1. plan.edits = 0
      BY <2>2 DEF IInv, TypeOK, Plans
    <3>2. {BatchEvents[plan.local][i] : i \in 1 .. 0} = {}
      OBVIOUS
    <3> QED BY <1>1, <2>2, <3>1, <3>2 DEF AbortTransaction, live, IInv, HeldInv
  <2> QED BY <2>1, <2>2
<1> QED BY <1>1, <1>2, EndedInv

\* The edits are done: the events of the batch wake what waits for them.
LEMMA FinishTransactionInv ==
  ASSUME IInv, FinishTransaction
  PROVE  IInv'
<1>1. /\ plan.local # NoBatch /\ ~plan.planning /\ plan.edits = Len(BatchEvents[plan.local])
      /\ plan' = [plan EXCEPT !.planning = TRUE, !.woken = EventSet(plan.local)]
      /\ UNCHANGED <<held, batchesById, eventOwner, integrated, pending, waiting, saved>>
  BY DEF FinishTransaction, Editing, live, kept
<1>2. plan \in Plans /\ plan.local \in Batch
  BY <1>1, BatchAssumption DEF IInv, TypeOK, Plans
<1>3. /\ plan'.local = plan.local /\ plan'.edits = plan.edits
      /\ plan'.planning /\ plan'.staged = plan.staged /\ plan'.todo = plan.todo
      /\ plan'.ready = plan.ready /\ plan'.parked = plan.parked
      /\ plan'.planned = plan.planned /\ plan'.woken = EventSet(plan.local)
  BY <1>1, <1>2 DEF Plans
<1>4. plan' \in Plans
  BY <1>1, <1>2, EventsAreEvents DEF Plans
<1>5. TypeOK' /\ OwnerInv' /\ SavedInv' /\ PendingInv' /\ NewInv'
  BY <1>1, <1>3, <1>4 DEF IInv, TypeOK, OwnerInv, SavedInv, PendingInv, NewInv, Committed, Unowned
<1>6. Own' = EventSet(plan.local)
  BY <1>1, <1>3 DEF Own
<1>7. held' = Committed' \cup Own'
  <2>1. held = Committed \cup {BatchEvents[plan.local][i] : i \in 1 .. Len(BatchEvents[plan.local])}
    BY <1>1 DEF IInv, HeldInv
  <2>2. BatchEvents[plan.local] \in Seq(Event)
    BY <1>2, BatchAssumption
  <2>3. {BatchEvents[plan.local][i] : i \in 1 .. Len(BatchEvents[plan.local])} = EventSet(plan.local)
    BY <2>2 DEF EventSet, ToSet
  <2> QED BY <1>1, <1>6, <2>1, <2>3 DEF Committed
<1>8. HeldInv' /\ QuietInv'
  BY <1>1, <1>3, <1>7 DEF HeldInv, QuietInv
<1>9. Ready' = {} /\ Parked' = {} /\ Seen' = {} /\ plan.planned = {} /\ plan.staged = {}
  BY <1>1, <1>3, EmptyHolds, BatchAssumption DEF IInv, QuietInv, Ready, Parked, Seen, In, NoWait
<1>10. PlanInv' /\ ParkedInv'
  BY <1>3, <1>6, <1>9 DEF PlanInv, ParkedInv, Reached
<1>11. WokenInv'
  <2>1. \A b \in In(pending) : pending[b] \notin Committed
    BY DEF IInv, PendingInv
  <2> QED BY <1>1, <1>3, <1>6, <1>7, <1>9, <2>1 DEF WokenInv, Committed
<1> QED BY <1>5, <1>8, <1>10, <1>11 DEF IInv

-----------------------------------------------------------------------------
(* planIntegration. *)

\* The batches a plan works with, and the transaction's own, share no event.
LEMMA Apart ==
  ASSUME IInv, NEW b \in plan.staged \cup In(pending)
  PROVE  /\ b \in Batch
         /\ EventSet(b) \cap Own = {}
         /\ \A c \in plan.staged \cup In(pending) : b # c => Disjoint(b, c)
<1>1. b \in Batch /\ plan.staged \cup In(pending) \subseteq Batch
  BY DEF IInv, TypeOK, Plans, In
<1>2. \A c \in In(pending) : \A e \in EventSet(c) : eventOwner[e] = c
  BY DEF IInv, PendingInv, OwnerInv
<1>3. In(pending) \subseteq Batch /\ NoBatch \notin Batch
  BY BatchAssumption DEF In
<1>4. EventSet(b) \cap Own = {}
  <2>1. CASE plan.local = NoBatch
    BY <2>1 DEF Own
  <2>2. CASE plan.local # NoBatch
    BY <1>2, <1>3, <2>2 DEF Own, IInv, NewInv, Unowned
  <2> QED BY <2>1, <2>2
<1>5. ASSUME NEW c \in plan.staged \cup In(pending), b # c
      PROVE  Disjoint(b, c)
  BY <1>2, <1>3, <1>5 DEF Disjoint, IInv, NewInv, Unowned
<1> QED BY <1>1, <1>4, <1>5

\* A ready batch is planned, and its events will wake what waits for them.
LEMMA EvaluateReadyInv ==
  ASSUME NEW b \in Batch, IInv, EvaluateReady(b)
  PROVE  IInv'
<1>1. /\ b \in plan.todo /\ Missing(b) = {}
      /\ UNCHANGED <<held, batchesById, eventOwner, integrated, pending, waiting, saved>>
  BY DEF EvaluateReady, live, kept
<1>2. plan \in Plans
  BY DEF IInv, TypeOK
<1>3. /\ plan'.local = plan.local /\ plan'.edits = plan.edits /\ plan'.planning = plan.planning
      /\ plan'.staged = plan.staged /\ plan'.todo = plan.todo \ {b}
      /\ plan'.ready = Append(plan.ready, b)
      /\ plan'.parked = [plan.parked EXCEPT ![b] = NoEvent]
      /\ plan'.planned = plan.planned \cup EventSet(b)
      /\ plan'.woken = plan.woken \cup EventSet(b)
  BY <1>2 DEF EvaluateReady, Plans
<1>4. plan' \in Plans
  <2>1. Append(plan.ready, b) \in Seq(Batch) /\ EventSet(b) \subseteq Event
    BY <1>2, EventsAreEvents DEF Plans
  <2>2. [plan.parked EXCEPT ![b] = NoEvent] \in Waits
    BY <1>2 DEF Plans, Waits
  <2> QED BY <1>2, <2>1, <2>2 DEF EvaluateReady, Plans
<1>5. plan.ready \in Seq(Batch) /\ plan.parked \in Waits
  BY <1>2 DEF Plans
<1>6. /\ Own' = Own /\ Ready' = Ready \cup {b} /\ Parked' = Parked \ {b}
      /\ Seen' = Seen /\ Reached' = Reached \cup EventSet(b)
  <2>1. Own' = Own
    BY <1>3 DEF Own
  <2>2. Ready' = Ready \cup {b}
    BY <1>3, <1>5, AppendHolds DEF Ready
  <2>3. Parked' = Parked \ {b}
    BY <1>3, <1>5 DEF Parked, In, Waits
  <2>4. Seen' = Seen
    BY <1>1, <1>3, <2>2, <2>3 DEF Seen
  <2> QED BY <1>3, <2>1, <2>2, <2>3, <2>4 DEF Reached
<1>7. plan.planning
  BY <1>1 DEF IInv, QuietInv
<1>8. b \in plan.staged \cup In(pending) /\ b \notin Ready
  BY <1>1 DEF IInv, PlanInv, Seen
<1>9. \A c \in Ready : Disjoint(b, c)
  <2>1. Ready \subseteq plan.staged \cup In(pending)
    BY DEF IInv, PlanInv, Seen
  <2> QED BY <1>8, <2>1, Apart
<1>10. EventSet(b) \cap Reached = {}
  <2>1. plan.planned = UNION {EventSet(c) : c \in Ready}
    BY DEF IInv, PlanInv
  <2>2. EventSet(b) \cap plan.planned = {}
    BY <1>9, <2>1 DEF Disjoint
  <2> QED BY <1>8, <2>2, Apart DEF Reached
<1>11. TypeOK' /\ OwnerInv' /\ SavedInv' /\ PendingInv' /\ NewInv' /\ HeldInv' /\ QuietInv'
  BY <1>1, <1>3, <1>4, <1>6, <1>7
  DEF IInv, TypeOK, OwnerInv, SavedInv, PendingInv, NewInv, HeldInv, QuietInv, Committed, Unowned
<1>12. PlanInv'
  <2>1. plan'.planned = UNION {EventSet(c) : c \in Ready'}
    BY <1>3, <1>6 DEF IInv, PlanInv
  <2>2. \A c \in Parked' : plan'.parked[c] \in BatchParents[c]
    BY <1>3, <1>5, <1>6 DEF IInv, PlanInv, Parked, In, Waits
  <2> QED BY <1>1, <1>3, <1>6, <2>1, <2>2 DEF IInv, PlanInv
<1>13. ParkedInv'
  <2>1. \A c \in Parked' : c # b /\ c \in Parked /\ plan'.parked[c] = plan.parked[c]
    BY <1>3, <1>5, <1>6 DEF Parked, In, Waits
  <2> QED BY <1>1, <1>3, <2>1 DEF IInv, ParkedInv
<1>14. WokenInv'
  <2>1. \A c \in In(pending) \ Seen : pending[c] \in held \cup plan.planned => pending[c] \in plan.woken
    BY <1>7 DEF IInv, WokenInv
  <2>2. \A c \in In(pending) \cap Seen : pending[c] \in Reached \ plan.woken
    BY <1>7 DEF IInv, WokenInv
  <2>3. \A c \in In(pending) \ Seen : pending[c] \in held \cup plan'.planned => pending[c] \in plan'.woken
    BY <1>3, <2>1
  <2>4. \A c \in In(pending) \cap Seen : pending[c] \in Reached' \ plan'.woken
    BY <1>3, <1>6, <1>10, <2>2
  <2> QED BY <1>1, <1>6, <2>3, <2>4 DEF WokenInv
<1> QED BY <1>11, <1>12, <1>13, <1>14 DEF IInv

\* A batch that lacks a parent is parked on it.
LEMMA EvaluateMissingInv ==
  ASSUME NEW b \in Batch, IInv, EvaluateMissing(b)
  PROVE  IInv'
<1>1. PICK e \in Missing(b) : plan' = [plan EXCEPT !.todo = @ \ {b}, !.parked[b] = e]
  BY DEF EvaluateMissing
<1>2. /\ b \in plan.todo
      /\ UNCHANGED <<held, batchesById, eventOwner, integrated, pending, waiting, saved>>
  BY DEF EvaluateMissing, live, kept
<1>3. plan \in Plans
  BY DEF IInv, TypeOK
<1>4. /\ plan'.local = plan.local /\ plan'.edits = plan.edits /\ plan'.planning = plan.planning
      /\ plan'.staged = plan.staged /\ plan'.todo = plan.todo \ {b}
      /\ plan'.ready = plan.ready /\ plan'.parked = [plan.parked EXCEPT ![b] = e]
      /\ plan'.planned = plan.planned /\ plan'.woken = plan.woken
  BY <1>1, <1>3 DEF Plans
<1>5. /\ e \in BatchParents[b] /\ e \notin held /\ e \notin plan.planned
      /\ e \in Event /\ e # NoEvent
  BY BatchAssumption DEF Missing
<1>6. plan' \in Plans
  BY <1>1, <1>3, <1>5 DEF Plans, Waits
<1>7. plan.parked \in Waits
  BY <1>3 DEF Plans
<1>8. /\ Own' = Own /\ Ready' = Ready /\ Parked' = Parked \cup {b}
      /\ Seen' = Seen /\ Reached' = Reached
  <2>1. Own' = Own /\ Ready' = Ready
    BY <1>4 DEF Own, Ready
  <2>2. Parked' = Parked \cup {b}
    BY <1>4, <1>5, <1>7 DEF Parked, In, Waits
  <2> QED BY <1>2, <1>4, <2>1, <2>2 DEF Seen, Reached
<1>9. plan.planning
  BY <1>2 DEF IInv, QuietInv
<1>10. TypeOK' /\ OwnerInv' /\ SavedInv' /\ PendingInv' /\ NewInv' /\ HeldInv' /\ QuietInv' /\ WokenInv'
  BY <1>2, <1>4, <1>6, <1>8, <1>9
  DEF IInv, TypeOK, OwnerInv, SavedInv, PendingInv, NewInv, HeldInv, QuietInv, WokenInv, Committed, Unowned
<1>11. \A c \in Parked' : plan'.parked[c] = IF c = b THEN e ELSE plan.parked[c]
  BY <1>4, <1>7 DEF Parked, In, Waits
<1>12. PlanInv'
  <2>1. b \notin Ready
    BY <1>2 DEF IInv, PlanInv
  <2> QED BY <1>2, <1>4, <1>5, <1>8, <1>11, <2>1 DEF IInv, PlanInv
<1>13. ParkedInv'
  BY <1>2, <1>4, <1>5, <1>8, <1>11 DEF IInv, ParkedInv
<1> QED BY <1>10, <1>12, <1>13 DEF IInv

\* A woken event brings back exactly what waits for it.
LEMMA WakeInv ==
  ASSUME NEW e \in Event, IInv, Wake(e)
  PROVE  IInv'
<1> DEFINE waiters == Waiters(e)
<1>1. /\ plan.todo = {} /\ e \in plan.woken
      /\ UNCHANGED <<held, batchesById, eventOwner, integrated, pending, waiting, saved>>
  BY DEF Wake, live, kept
<1>2. plan \in Plans
  BY DEF IInv, TypeOK
<1>3. /\ plan'.local = plan.local /\ plan'.edits = plan.edits /\ plan'.planning = plan.planning
      /\ plan'.staged = plan.staged /\ plan'.todo = waiters
      /\ plan'.ready = plan.ready /\ plan'.parked = plan.parked
      /\ plan'.planned = plan.planned /\ plan'.woken = plan.woken \ {e}
  BY <1>2 DEF Wake, Plans
<1>4. waiting[e] = {b \in Batch : pending[b] = e}
  BY DEF IInv, PendingInv
<1>5. plan' \in Plans
  BY <1>2, <1>4 DEF Wake, Waiters, Plans
<1>6. e # NoEvent
  BY BatchAssumption
<1>7. waiting[e] \subseteq In(pending) /\ {b \in Batch : plan.parked[b] = e} \subseteq Parked
  BY <1>4, <1>6 DEF In, Parked
<1>8. /\ Own' = Own /\ Ready' = Ready /\ Parked' = Parked /\ Reached' = Reached
      /\ Seen' = Seen \cup waiting[e]
  BY <1>1, <1>3, <1>7 DEF Own, Ready, Parked, Reached, Seen, Waiters
<1>9. plan.planning
  BY <1>1 DEF IInv, QuietInv
<1>10. TypeOK' /\ OwnerInv' /\ SavedInv' /\ PendingInv' /\ NewInv' /\ HeldInv' /\ QuietInv'
  BY <1>1, <1>3, <1>5, <1>8, <1>9
  DEF IInv, TypeOK, OwnerInv, SavedInv, PendingInv, NewInv, HeldInv, QuietInv, Committed, Unowned
<1>11. /\ \A b \in In(pending) \ Seen : pending[b] \in held \cup plan.planned => pending[b] \in plan.woken
       /\ \A b \in In(pending) \cap Seen : pending[b] \in Reached \ plan.woken
  BY <1>9 DEF IInv, WokenInv
<1>12. waiting[e] \cap Seen = {}
  BY <1>1, <1>4, <1>7, <1>11
<1>13. PlanInv'
  <2>1. Ready \cap waiters = {}
    BY <1>7, <1>12 DEF IInv, PlanInv, Seen, Waiters
  <2> QED BY <1>1, <1>3, <1>7, <1>8, <2>1 DEF IInv, PlanInv, Waiters
<1>14. ParkedInv'
  <2>1. Parked \subseteq Batch
    BY DEF Parked, In
  <2> QED BY <1>1, <1>3, <1>8, <2>1 DEF IInv, ParkedInv, Waiters
<1>15. WokenInv'
  <2>1. e \in Reached
    BY <1>1 DEF IInv, PlanInv
  <2>2. \A b \in In(pending) \ Seen' : pending[b] \in held \cup plan.planned => pending[b] \in plan'.woken
    <3>1. \A b \in In(pending) : b \notin waiting[e] => pending[b] # e
      BY <1>4 DEF In
    <3> QED BY <1>3, <1>8, <1>11, <3>1
  <2>3. \A b \in In(pending) \cap Seen' : pending[b] \in Reached \ plan'.woken
    BY <1>3, <1>4, <1>8, <1>11, <2>1
  <2> QED BY <1>1, <1>3, <1>8, <2>2, <2>3 DEF WokenInv
<1> QED BY <1>10, <1>13, <1>14, <1>15 DEF IInv

-----------------------------------------------------------------------------
(* The end of a call. *)

\* A delivery that fails leaves no trace.
LEMMA IntegrationFailsInv ==
  ASSUME IInv, IntegrationFails
  PROVE  IInv'
BY EndedInv DEF IntegrationFails, RebuildState

\* A commit integrates the batch made here, if any, and then those that are ready.
LEMMA CommitHolds ==
  ASSUME TypeOK, Commit
  PROVE  ToSet(integrated') = ToSet(integrated) \cup Ready
                                \cup (IF plan.local = NoBatch THEN {} ELSE {plan.local})
<1> DEFINE own == IF plan.local = NoBatch THEN <<>> ELSE <<plan.local>>
<1>1. integrated' = (integrated \o own) \o plan.ready
  BY DEF Commit
<1>2. integrated \in Seq(Batch) /\ plan.ready \in Seq(Batch) /\ plan.local \in Batch \cup {NoBatch}
  BY BatchAssumption DEF TypeOK, Plans
<1>3. /\ own \in Seq(Batch)
      /\ ToSet(own) = IF plan.local = NoBatch THEN {} ELSE {plan.local}
  <2>1. CASE plan.local = NoBatch
    BY <2>1, EmptyHolds
  <2>2. CASE plan.local # NoBatch
    <3>1. ToSet(<<plan.local>>) = {plan.local}
      BY DEF ToSet
    <3> QED BY <1>2, <2>2, <3>1
  <2> QED BY <2>1, <2>2
<1> HIDE DEF own
<1>4. \A s, t \in Seq(Batch) : ToSet(s \o t) = ToSet(s) \cup ToSet(t)
  BY ConcatHolds
<1>5. integrated \o own \in Seq(Batch) /\ ToSet(integrated \o own) = ToSet(integrated) \cup ToSet(own)
  BY <1>2, <1>3, <1>4
<1>6. ToSet((integrated \o own) \o plan.ready) = ToSet(integrated \o own) \cup ToSet(plan.ready)
  BY <1>2, <1>4, <1>5
<1> QED BY <1>1, <1>3, <1>5, <1>6 DEF Ready

\* A finished plan is committed.
LEMMA CommitInv ==
  ASSUME IInv, Commit
  PROVE  IInv'
<1> DEFINE stored == IF plan.local = NoBatch THEN plan.staged ELSE {plan.local}
           own == IF plan.local = NoBatch THEN <<>> ELSE <<plan.local>>
           moved == Ready \cup Parked
<1>1. /\ plan.planning /\ plan.todo = {}
      /\ \A e \in plan.woken : waiting[e] = {} /\ \A b \in Batch : plan.parked[b] # e
      /\ held' = held \cup plan.planned
      /\ batchesById' = batchesById \cup stored
      /\ integrated' = integrated \o own \o plan.ready
      /\ plan' = NoPlan /\ saved' = saved
  BY DEF Commit, Planned, Waiters
<1>2. eventOwner' = [e \in Event |->
                       IF \E b \in stored : e \in EventSet(b)
                       THEN CHOOSE b \in stored : e \in EventSet(b) ELSE eventOwner[e]]
  BY DEF Commit
<1>3. /\ pending' = [b \in Batch |-> IF b \in moved THEN plan.parked[b] ELSE pending[b]]
      /\ waiting' = [e \in Event |-> (waiting[e] \ moved) \cup {b \in Batch : plan.parked[b] = e}]
  BY DEF Commit, Ready, Parked
<1>4. /\ plan \in Plans /\ batchesById \subseteq Batch /\ integrated \in Seq(Batch)
      /\ eventOwner \in [Event -> Batch \cup {NoBatch}] /\ pending \in Waits
      /\ waiting \in [Event -> SUBSET Batch] /\ saved \subseteq Batch
  BY DEF IInv, TypeOK
<1>5. /\ stored \subseteq Batch /\ own \in Seq(Batch) /\ ToSet(own) \subseteq stored
      /\ UNION {EventSet(b) : b \in ToSet(own)} = Own
      /\ plan.local = NoBatch => ToSet(own) = {}
      /\ plan.local # NoBatch => ToSet(own) = {plan.local}
  <2>1. CASE plan.local = NoBatch
    BY <1>4, <2>1, EmptyHolds DEF Plans, Own
  <2>2. CASE plan.local # NoBatch
    <3>1. plan.local \in Batch /\ own = <<plan.local>> /\ own \in Seq(Batch)
      BY <1>4, <2>2, BatchAssumption DEF Plans
    <3>2. ToSet(<<plan.local>>) = {plan.local}
      BY DEF ToSet
    <3> QED BY <2>2, <3>1, <3>2 DEF Own
  <2> QED BY <2>1, <2>2
<1>6. ToSet(integrated') = ToSet(integrated) \cup ToSet(own) \cup Ready
  BY <1>5, CommitHolds DEF IInv
<1>7. Committed' = held'
  <2>1. held = Committed \cup Own
    BY <1>1 DEF IInv, HeldInv, Own
  <2>2. plan.planned = UNION {EventSet(b) : b \in Ready}
    BY DEF IInv, PlanInv
  <2>3. Committed' = Committed \cup Own \cup plan.planned
    BY <1>5, <1>6, <2>2 DEF Committed
  <2> QED BY <1>1, <2>1, <2>3
<1>8. /\ Ready \cap Parked = {} /\ moved \subseteq plan.staged \cup In(pending)
      /\ plan.staged \subseteq moved /\ Parked \subseteq Batch /\ moved \subseteq Batch
  BY <1>1, <1>4 DEF IInv, PlanInv, Seen, Parked, In, Plans
<1>9. \A b \in stored : Unowned(b) /\ (\A c \in stored : b # c => Disjoint(b, c))
  BY DEF IInv, NewInv
<1>10. stored \cap batchesById = {}
  <2>1. \A b \in batchesById : ~Unowned(b)
    <3>1. \A b \in batchesById : \A e \in EventSet(b) : eventOwner[e] = b
      BY DEF IInv, OwnerInv
    <3> QED BY <1>4, <3>1, BatchAssumption DEF Unowned
  <2> QED BY <1>9, <2>1
<1>11. \A b \in stored : \A e \in EventSet(b) : eventOwner'[e] = b
  <2>1. SUFFICES ASSUME NEW b \in stored, NEW e \in EventSet(b) PROVE eventOwner'[e] = b
    OBVIOUS
  <2>2. e \in Event
    BY <1>5, EventsAreEvents
  <2>3. \A c \in stored : e \in EventSet(c) => c = b
    BY <1>9 DEF Disjoint
  <2>4. (CHOOSE c \in stored : e \in EventSet(c)) = b
    BY <2>3
  <2> QED BY <1>2, <2>2, <2>4
<1>12. \A e \in Event : (\A b \in stored : e \notin EventSet(b)) => eventOwner'[e] = eventOwner[e]
  BY <1>2
<1>13. OwnerInv'
  <2>1. \A b \in batchesById : \A e \in EventSet(b) : eventOwner'[e] = b
    <3>1. SUFFICES ASSUME NEW b \in batchesById, NEW e \in EventSet(b) PROVE eventOwner'[e] = b
      OBVIOUS
    <3>2. e \in Event /\ eventOwner[e] = b /\ b # NoBatch
      BY <1>4, EventsAreEvents, BatchAssumption DEF IInv, OwnerInv
    <3>3. \A c \in stored : e \notin EventSet(c)
      BY <1>9, <3>2 DEF Unowned
    <3> QED BY <1>12, <3>2, <3>3
  <2>2. \A e \in Event : eventOwner'[e] # NoBatch =>
           eventOwner'[e] \in batchesById' /\ e \in EventSet(eventOwner'[e])
    <3>1. SUFFICES ASSUME NEW e \in Event, eventOwner'[e] # NoBatch
                   PROVE  eventOwner'[e] \in batchesById' /\ e \in EventSet(eventOwner'[e])
      OBVIOUS
    <3>2. CASE \E b \in stored : e \in EventSet(b)
      BY <1>1, <1>11, <3>2
    <3>3. CASE \A b \in stored : e \notin EventSet(b)
      BY <1>1, <1>12, <3>1, <3>3 DEF IInv, OwnerInv
    <3> QED BY <3>2, <3>3
  <2> QED BY <1>1, <1>11, <2>1, <2>2 DEF OwnerInv
<1>14. SavedInv'
  BY <1>1 DEF IInv, SavedInv
<1>15. TypeOK'
  <2>1. eventOwner' \in [Event -> Batch \cup {NoBatch}]
    <3>1. \A e \in Event : eventOwner'[e] \in Batch \cup {NoBatch}
      BY <1>4, <1>5, <1>11, <1>12
    <3> QED BY <1>2, <3>1
  <2>2. plan.parked \in Waits
    BY <1>4 DEF Plans
  <2>3. pending' \in Waits /\ waiting' \in [Event -> SUBSET Batch]
    BY <1>3, <1>4, <2>2 DEF Waits
  <2>4. integrated' \in Seq(Batch)
    BY <1>1, <1>4, <1>5 DEF Plans
  <2> QED BY <1>1, <1>4, <1>5, <2>1, <2>3, <2>4, NoPlanType DEF TypeOK
<1>16. In(pending)' = (In(pending) \ moved) \cup Parked
  BY <1>3, <1>8 DEF In, Parked
<1>17. PendingInv'
  <2>1. ToSet(integrated) \subseteq batchesById /\ In(pending) = batchesById \ ToSet(integrated)
    BY DEF IInv, PendingInv
  <2>2. plan.local # NoBatch => plan.staged = {} /\ Ready \cup Parked \subseteq In(pending)
    BY <1>8 DEF IInv, NewInv
  <2>3. /\ plan.local = NoBatch => stored = plan.staged /\ ToSet(own) = {}
        /\ plan.local # NoBatch => stored = {plan.local} /\ ToSet(own) = {plan.local}
    BY <1>5
  <2>4. In(pending)' = batchesById' \ ToSet(integrated')
    BY <1>1, <1>6, <1>8, <1>10, <1>16, <2>1, <2>2, <2>3
  <2>5. ToSet(integrated') \subseteq batchesById'
    BY <1>1, <1>6, <1>8, <2>1, <2>2, <2>3
  <2>6. \A b \in In(pending)' : pending'[b] \in BatchParents[b] /\ pending'[b] \notin held'
    <3>1. SUFFICES ASSUME NEW b \in In(pending)'
                   PROVE  pending'[b] \in BatchParents[b] /\ pending'[b] \notin held'
      OBVIOUS
    <3>2. b \in Batch
      BY DEF In
    <3>3. CASE b \in Parked
      <4>1. pending'[b] = plan.parked[b]
        BY <1>3, <3>2, <3>3
      <4>2. plan.parked[b] \in BatchParents[b] /\ plan.parked[b] \notin held \cup plan.planned
        BY <1>1, <3>2, <3>3 DEF IInv, PlanInv, ParkedInv
      <4> QED BY <1>1, <4>1, <4>2
    <3>4. CASE b \notin Parked
      <4>1. b \in In(pending) \ Seen /\ pending'[b] = pending[b]
        BY <1>1, <1>3, <1>16, <3>2, <3>4 DEF Seen
      <4>2. pending[b] \in BatchParents[b] /\ pending[b] \in Event
        BY <3>2, <4>1, BatchAssumption DEF IInv, PendingInv
      <4>3. b \in waiting[pending[b]]
        BY <3>2, <4>2 DEF IInv, PendingInv
      <4>4. pending[b] \notin plan.woken
        BY <1>1, <4>3
      <4> QED BY <1>1, <4>1, <4>2, <4>4 DEF IInv, WokenInv
    <3> QED BY <3>3, <3>4
  <2>7. \A e \in Event : waiting'[e] = {b \in Batch : pending'[b] = e}
    <3>1. SUFFICES ASSUME NEW e \in Event PROVE waiting'[e] = {b \in Batch : pending'[b] = e}
      OBVIOUS
    <3>2. waiting[e] = {b \in Batch : pending[b] = e} /\ e # NoEvent
      BY BatchAssumption DEF IInv, PendingInv
    <3>3. {b \in Batch : plan.parked[b] = e} \subseteq Parked
      BY <3>2 DEF Parked, In
    <3> QED BY <1>3, <3>2, <3>3
  <2> QED BY <1>7, <2>4, <2>5, <2>6, <2>7 DEF PendingInv
<1>18. QuietInv' /\ PlanInv' /\ ParkedInv' /\ WokenInv' /\ NewInv' /\ HeldInv'
  <2>1. Own' = {} /\ Ready' = {} /\ Parked' = {}
    BY <1>1, EmptyHolds, BatchAssumption DEF NoPlan, Own, Ready, Parked, In, NoWait
  <2>2. Seen' = {} /\ Reached' = {}
    BY <1>1, <2>1 DEF Seen, Reached, NoPlan
  <2> QED BY <1>1, <1>7, <2>1, <2>2
      DEF QuietInv, PlanInv, ParkedInv, WokenInv, NewInv, HeldInv, NoPlan
<1> QED BY <1>13, <1>14, <1>15, <1>17, <1>18 DEF IInv

-----------------------------------------------------------------------------
(* The theorems. *)

\* Reading and saving change nothing the invariant is about, but what is saved.
LEMMA ReadInv ==
  ASSUME IInv, UNCHANGED <<held, kept, plan>>, saved' = saved \/ saved' = batchesById
  PROVE  IInv'
<1>1. UNCHANGED <<held, batchesById, eventOwner, integrated, pending, waiting, plan>>
  BY DEF kept
<1>2. SavedInv'
  <2>1. \A b, c \in batchesById : b # c => Disjoint(b, c)
    BY DEF IInv, OwnerInv, Disjoint
  <2> QED BY <1>1, <2>1 DEF IInv, SavedInv
<1>3. /\ Own' = Own /\ Ready' = Ready /\ Parked' = Parked /\ Seen' = Seen /\ Reached' = Reached
      /\ Committed' = Committed /\ In(pending)' = In(pending)
  BY <1>1 DEF Own, Ready, Parked, Seen, Reached, Committed, In
<1> QED BY <1>1, <1>2, <1>3
    DEF IInv, TypeOK, OwnerInv, NewInv, HeldInv, QuietInv, PendingInv, PlanInv, ParkedInv, WokenInv, Unowned

\* The invariant is inductive: it holds at first and every step keeps it.
LEMMA Invariance == Spec => []IInv
<1>1. Init => IInv
  BY InitInv
<1>2. IInv /\ [Next]_vars => IInv'
  <2> SUFFICES ASSUME IInv, [Next]_vars PROVE IInv'
    OBVIOUS
  <2>1. ASSUME NEW input \in {S \in SUBSET Batch : Cardinality(S) <= MaxDelivery},
               ApplyRemoteEvents(input)
        PROVE  IInv'
    BY <2>1, ApplyRemoteEventsInv
  <2>2. ASSUME NEW b \in Local, BeginTransaction(b) PROVE IInv'
    BY <2>2, BeginTransactionInv
  <2>3. CASE Edit
    BY <2>3, EditInv
  <2>4. CASE AbortTransaction
    BY <2>4, AbortTransactionInv
  <2>5. CASE FinishTransaction
    BY <2>5, FinishTransactionInv
  <2>6. CASE GetDocument
    BY <2>6, ReadInv DEF GetDocument
  <2>7. CASE Serialize
    BY <2>7, ReadInv DEF Serialize, live
  <2>8. CASE Deserialize
    BY <2>8, DeserializeInv
  <2>9. ASSUME NEW b \in Batch, EvaluateReady(b) PROVE IInv'
    BY <2>9, EvaluateReadyInv
  <2>10. ASSUME NEW b \in Batch, EvaluateMissing(b) PROVE IInv'
    BY <2>10, EvaluateMissingInv
  <2>11. ASSUME NEW e \in Event, Wake(e) PROVE IInv'
    BY <2>11, WakeInv
  <2>12. CASE IntegrationFails
    BY <2>12, IntegrationFailsInv
  <2>13. CASE Commit
    BY <2>13, CommitInv
  <2>14. CASE UNCHANGED vars
    BY <2>14, ReadInv DEF vars, live
  <2> QED BY <2>1, <2>2, <2>3, <2>4, <2>5, <2>6, <2>7, <2>8, <2>9, <2>10, <2>11, <2>12, <2>13, <2>14
      DEF Next
<1> QED BY <1>1, <1>2, PTL DEF Spec

\* The variables and the running plan keep their types.
THEOREM TypeCorrect == Spec => []TypeOK
<1>1. IInv => TypeOK
  BY DEF IInv
<1> QED BY <1>1, Invariance, PTL

\* No batch whose parents are all integrated is left waiting, and the arrival of what a
\* pending batch waits for finds it, for any dependencies between batches (planIntegration).
THEOREM ReadyBatchesIntegrate == Spec => []NoReadyBatchParked
<1>1. IInv => NoReadyBatchParked
  <2>1. SUFFICES ASSUME IInv PROVE NoReadyBatchParked
    OBVIOUS
  <2>2. Idle => held = Committed
    BY <2>1 DEF IInv, HeldInv, Idle, NoPlan
  <2> QED BY <2>1, <2>2 DEF IInv, PendingInv, NoReadyBatchParked
<1> QED BY <1>1, Invariance, PTL

\* A transaction or delivery that throws leaves in the live state exactly the events of
\* the committed batches, wherever it fails (rebuildState).
THEOREM FailuresLeaveNoTrace == Spec => []FailureLeavesNoTrace
<1>1. IInv => FailureLeavesNoTrace
  BY DEF IInv, HeldInv, FailureLeavesNoTrace, Idle, NoPlan
<1> QED BY <1>1, Invariance, PTL


-----------------------------------------------------------------------------
(* Nothing is integrated, planned or made here before its parents.         *)

CausalInv ==
  /\ \A b \in ToSet(integrated) : BatchParents[b] \subseteq Committed
  /\ \A b \in Ready : BatchParents[b] \subseteq held \cup plan.planned
  /\ plan.local # NoBatch => BatchParents[plan.local] \subseteq held

\* A call that begins or ends without storing anything keeps what is integrated.
LEMMA NothingReady ==
  ASSUME IInv, CausalInv, plan'.ready = <<>>, UNCHANGED integrated,
         plan'.local # NoBatch => BatchParents[plan'.local] \subseteq held'
  PROVE  CausalInv'
<1>1. Ready' = {} /\ Committed' = Committed
  BY EmptyHolds DEF Ready, Committed
<1> QED BY <1>1 DEF CausalInv

\* A step inside a call that plans no batch leaves the rest as it is.
LEMMA NothingPlanned ==
  ASSUME IInv, CausalInv, UNCHANGED integrated, held \subseteq held',
         plan'.ready = plan.ready, plan'.planned = plan.planned, plan'.local = plan.local
  PROVE  CausalInv'
<1>1. Ready' = Ready /\ Committed' = Committed
  BY DEF Ready, Committed
<1> QED BY <1>1 DEF CausalInv

\* What is evaluated as ready has all its parents.
LEMMA EvaluateReadyCausal ==
  ASSUME IInv, CausalInv, NEW b \in Batch, EvaluateReady(b)
  PROVE  CausalInv'
<1>1. /\ plan'.ready = Append(plan.ready, b) /\ plan'.local = plan.local
      /\ plan'.planned = plan.planned \cup EventSet(b)
      /\ UNCHANGED <<held, integrated>>
  BY DEF EvaluateReady, IInv, TypeOK, Plans, live, kept
<1>2. BatchParents[b] \subseteq held \cup plan.planned
  BY DEF EvaluateReady, Missing
<1>3. Ready' = Ready \cup {b} /\ Committed' = Committed
  BY <1>1, AppendHolds DEF Ready, Committed, IInv, TypeOK, Plans
<1> QED BY <1>1, <1>2, <1>3 DEF CausalInv

\* Every committed batch has its parents among the committed events.
LEMMA CommitCausal ==
  ASSUME IInv, IInv', CausalInv, Commit
  PROVE  CausalInv'
<1>1. plan' = NoPlan /\ held' = held \cup plan.planned
  BY DEF Commit
<1>2. Committed' = held' /\ Committed \subseteq held'
  BY <1>1 DEF IInv, HeldInv, NoPlan
<1>3. \A b \in ToSet(integrated)' : BatchParents[b] \subseteq held'
  BY <1>1, <1>2, CommitHolds DEF CausalInv, IInv
<1>4. Ready' = {} /\ plan'.local = NoBatch
  BY <1>1, EmptyHolds DEF Ready, NoPlan
<1> QED BY <1>2, <1>3, <1>4 DEF CausalInv

\* Every step keeps it.
LEMMA CausalNext == IInv /\ IInv' /\ CausalInv /\ [Next]_vars => CausalInv'
<1> SUFFICES ASSUME IInv, IInv', CausalInv, [Next]_vars PROVE CausalInv'
  OBVIOUS
<1>1. ASSUME NEW input \in {S \in SUBSET Batch : Cardinality(S) <= MaxDelivery},
             ApplyRemoteEvents(input)
      PROVE  CausalInv'
  BY <1>1, NothingReady DEF ApplyRemoteEvents, PlanRemote, NoPlan, live, kept
<1>2. ASSUME NEW b \in Local, BeginTransaction(b) PROVE CausalInv'
  BY <1>2, NothingReady DEF BeginTransaction, Frontier, NoPlan, live, kept
<1>3. CASE Edit
  <2>1. CASE plan' = NoPlan
    BY <1>3, <2>1, NothingReady DEF Edit, NoPlan, kept
  <2>2. CASE plan' # NoPlan
    BY <1>3, <2>2, NothingPlanned DEF Edit, kept, IInv, TypeOK, Plans
  <2> QED BY <2>1, <2>2
<1>4. CASE AbortTransaction
  BY <1>4, NothingReady DEF AbortTransaction, NoPlan, kept
<1>5. CASE FinishTransaction
  BY <1>5, NothingPlanned DEF FinishTransaction, live, kept, IInv, TypeOK, Plans
<1>6. CASE GetDocument \/ Serialize \/ UNCHANGED vars
  BY <1>6, NothingPlanned DEF GetDocument, Serialize, vars, live, kept
<1>7. CASE Deserialize
  <2>1. integrated' = <<>>
    BY <1>7 DEF Deserialize
  <2>2. CASE plan' = NoPlan
    BY <2>1, <2>2, EmptyHolds DEF CausalInv, Ready, NoPlan
  <2>3. CASE plan' # NoPlan
    <3>1. plan' = [NoPlan EXCEPT !.planning = TRUE, !.staged = saved, !.todo = saved]
      BY <1>7, <2>3 DEF Deserialize, PlanRemote
    <3>2. plan'.ready = <<>> /\ plan'.local = NoBatch
      BY <3>1 DEF NoPlan
    <3> QED BY <2>1, <3>2, EmptyHolds DEF CausalInv, Ready
  <2> QED BY <2>2, <2>3
<1>8. ASSUME NEW b \in Batch, EvaluateReady(b) PROVE CausalInv'
  BY <1>8, EvaluateReadyCausal
<1>9. ASSUME NEW b \in Batch, EvaluateMissing(b) PROVE CausalInv'
  BY <1>9, NothingPlanned DEF EvaluateMissing, live, kept, IInv, TypeOK, Plans
<1>10. ASSUME NEW e \in Event, Wake(e) PROVE CausalInv'
  BY <1>10, NothingPlanned DEF Wake, live, kept, IInv, TypeOK, Plans
<1>11. CASE IntegrationFails
  BY <1>11, NothingReady DEF IntegrationFails, NoPlan, kept
<1>12. CASE Commit
  BY <1>12, CommitCausal
<1> QED BY <1>1, <1>2, <1>3, <1>4, <1>5, <1>6, <1>7, <1>8, <1>9, <1>10, <1>11, <1>12 DEF Next

-----------------------------------------------------------------------------
(* The largest closed set.                                                 *)

\* A closed set that no batch outside could join is the largest one: a closed set
\* with more would have a batch whose parents come from none of the others in it.
LEMMA LargestClosed ==
  ASSUME NEW all \in SUBSET Batch, NEW closed \in SUBSET all, Delivery!Closed(closed),
         \A b \in all \ closed : \E e \in BatchParents[b] : e \notin Delivery!EventsOf(closed)
  PROVE  Delivery!Deliverable(all) = closed
<1>1. ASSUME NEW S \in SUBSET all, Delivery!Closed(S) PROVE S \subseteq closed
  <2>1. SUFFICES ASSUME S \ closed # {} PROVE FALSE
    OBVIOUS
  <2>2. PICK b \in S \ closed : \A c \in S \ closed : BatchParents[b] \cap EventSet(c) = {}
    BY <2>1, CausalAssumption
  <2>3. PICK e \in BatchParents[b] : e \notin Delivery!EventsOf(closed)
    BY <2>2
  <2>4. e \in Delivery!EventsOf(S)
    BY <1>1, <2>2, <2>3 DEF Delivery!Closed
  <2>5. PICK c \in S : e \in EventSet(c)
    BY <2>3, <2>4 DEF Delivery!EventsOf
  <2>6. c \in closed
    BY <2>2, <2>3, <2>5
  <2> QED BY <2>3, <2>5, <2>6 DEF Delivery!EventsOf
<1> QED BY <1>1 DEF Delivery!Deliverable

\* The events of the committed batches are those the abstract replica has.
LEMMA SameEvents ==
  ASSUME TypeOK
  PROVE  Delivery!EventsOf(ToSet(integrated)) = Committed
BY SeqHolds DEF TypeOK, Delivery!EventsOf, Committed

\* What is integrated is what can be delivered.
Delivered == ToSet(integrated) = Delivery!Deliverable(batchesById)

\* So it is, whatever is stored.
LEMMA DeliversAll == IInv /\ CausalInv => Delivered
<1> SUFFICES ASSUME IInv, CausalInv PROVE Delivered
  OBVIOUS
<1>1. /\ batchesById \subseteq Batch /\ ToSet(integrated) \subseteq batchesById
      /\ In(pending) = batchesById \ ToSet(integrated)
  BY DEF IInv, TypeOK, PendingInv
<1>2. Delivery!EventsOf(ToSet(integrated)) = Committed
  BY SameEvents DEF IInv
<1>3. Delivery!Closed(ToSet(integrated))
  BY <1>2 DEF Delivery!Closed, CausalInv
<1>4. \A b \in batchesById \ ToSet(integrated) : \E e \in BatchParents[b] : e \notin Committed
  BY <1>1 DEF IInv, PendingInv
<1> QED BY <1>1, <1>2, <1>3, <1>4, LargestClosed DEF Delivered

-----------------------------------------------------------------------------
(* The refinement.                                                         *)

\* A call that stores nothing is a stutter, a commit a delivery, a restore a restart.
LEMMA DeliveryStep ==
  IInv /\ Delivered /\ Delivered' /\ [Next]_vars => [Delivery!Next]_(Delivery!vars)
<1> SUFFICES ASSUME IInv, Delivered, Delivered', [Next]_vars
             PROVE  Delivery!Next \/ UNCHANGED Delivery!vars
  OBVIOUS
<1>1. ToSet(integrated)' = Delivery!Deliverable(batchesById')
  BY DEF Delivered
<1>2. CASE batchesById' = batchesById
  BY <1>1, <1>2 DEF Delivered, Delivery!vars
<1>3. CASE Commit /\ batchesById' # batchesById
  <2>1. PICK stored \in SUBSET Batch : batchesById' = batchesById \cup stored
    BY <1>3, BatchAssumption DEF Commit, IInv, TypeOK, Plans
  <2>2. /\ stored \ batchesById \in SUBSET (Batch \ batchesById)
        /\ stored \ batchesById # {}
        /\ batchesById' = batchesById \cup (stored \ batchesById)
    BY <1>3, <2>1
  <2> QED BY <1>1, <2>2 DEF Delivery!Next, Delivery!Deliver
<1>4. CASE Deserialize /\ batchesById' # batchesById
  <2>1. batchesById' = {} /\ {} \in SUBSET batchesById /\ {} # batchesById
    BY <1>4 DEF Deserialize
  <2> QED BY <1>1, <2>1 DEF Delivery!Next, Delivery!Forget
<1>5. Commit \/ Deserialize \/ batchesById' = batchesById
  BY DEF Next, vars, kept, ApplyRemoteEvents, BeginTransaction, Edit, AbortTransaction,
         FinishTransaction, GetDocument, Serialize, EvaluateReady, EvaluateMissing, Wake,
         IntegrationFails
<1> QED BY <1>2, <1>3, <1>4, <1>5

\* Whatever arrives in whatever order and grouping, and whatever fails, a replica has
\* integrated every batch whose causal past it has, and no other (planIntegration, commit).
THEOREM DeliveryIsCausal == Spec => ImplementsDelivery
<1>1. Init => CausalInv /\ Delivery!Init
  BY EmptyHolds DEF Init, CausalInv, Ready, NoPlan, Delivery!Init
<1>2. IInv /\ IInv' /\ CausalInv /\ [Next]_vars => CausalInv'
  BY CausalNext
<1>3. IInv /\ CausalInv => Delivered
  BY DeliversAll
<1>4. IInv /\ Delivered /\ Delivered' /\ [Next]_vars => [Delivery!Next]_(Delivery!vars)
  BY DeliveryStep
<1> QED BY <1>1, <1>2, <1>3, <1>4, Invariance, PTL DEF Spec, ImplementsDelivery, Delivery!Spec

=============================================================================
