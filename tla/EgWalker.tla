------------------------------ MODULE EgWalker ------------------------------
(***************************************************************************)
(* EgWalkerReplica, the text replica of packages/eg-walker.                *)
(*                                                                         *)
(* The authors write concurrently.  One of them, Me, is the replica        *)
(* modelled: it edits, receives the events of the others one at a time or  *)
(* in batches, in any order, and is saved and restored.  It keeps an event *)
(* graph, the text, events that wait for a parent, checkpoints of critical *)
(* versions, and at times the engine of the last replay.  Which of them an *)
(* event is applied with depends on the events before it: the text alone,  *)
(* the engine it kept, a checkpoint, or a replay from nothing.             *)
(***************************************************************************)
EXTENDS ReplayEngine, ScalarReplay

CONSTANTS
  Author,      \* the replicas that write, as naturals: the order of their ids
  Active,      \* bound: those that still write
  Me,          \* the replica modelled
  Histories,   \* what the others may have written before the replica starts
  MaxEvents,   \* bound: events altogether, for new ones to be written
  MaxDeletes,  \* bound: deletions among them
  MaxBatch,    \* bound: events of a batch
  MaxLive,     \* MAX_LIVE_RECEIVE_EVENTS: a longer chain drops the engine
  MaxWarm      \* MAX_WARM_BATCH_EVENTS: a longer batch is replayed

ASSUME EgWalkerAssumption ==
  /\ Author \subseteq Nat \ {0}
  /\ Active \subseteq Author
  /\ Me \in Author
  /\ {MaxEvents, MaxDeletes, MaxBatch, MaxLive, MaxWarm} \subseteq Nat

VARIABLES
  pool,     \* the events written so far, with what the operators read of them
  replica,  \* graph, waiting (the events that wait, by a missing parent), text,
            \* engine and checkpoints of Me
  fresh     \* nothing has been received since the last edit of Me

vars == <<pool, replica, fresh>>

Init ==
  /\ pool \in Histories
  /\ replica = [graph |-> <<>>, waiting |-> <<>>, text |-> <<>>,
                engine |-> NoEngine, checkpoints |-> <<>>]
  /\ fresh = TRUE

-----------------------------------------------------------------------------
(* Checkpoints. *)

\* CriticalCheckpointStore.record: a version recorded again only moves its validation.
Recorded(checkpoints, c) ==
  IF checkpoints # <<>> /\ Last(checkpoints).version = c.version
  THEN [checkpoints EXCEPT ![Len(checkpoints)].validated =
          IF c.validated > @ THEN c.validated ELSE @]
  ELSE Append(checkpoints, c)

\* maybeAdvance: a single head is a critical version.
Checkpointed(h, r) ==
  LET heads == Heads(h, ToSet(r.graph))
      count == Len(r.graph)
  IN IF Cardinality(heads) # 1 THEN r
     ELSE [r EXCEPT !.checkpoints =
             Recorded(@, [version |-> heads, text |-> r.text, count |-> count,
                          validated |-> count])]

\* pickFor: the checkpoints left, the last one being the newest that is still critical.
Picked(h, graph, checkpoints) ==
  LET critical == {i \in DOMAIN checkpoints :
                     IsDominated(h, graph, checkpoints[i].version, checkpoints[i].count,
                                 checkpoints[i].validated)}
  IN IF critical = {} THEN <<>>
     ELSE LET newest == CHOOSE i \in critical : \A j \in critical : j <= i
          IN [SubSeq(checkpoints, 1, newest) EXCEPT ![newest].validated = Len(graph)]

-----------------------------------------------------------------------------
(* Replays. *)

\* applyPlainDocumentOperation: an event whose author had the same text.
Edited(h, text, e) ==
  IF h[e].insert THEN InsertAt(text, h[e].at + 1, e) ELSE RemoveAt(text, h[e].at + 1)

\* The sections between the critical cuts after the first k events.
SectionsAfter(h, graph, k) ==
  LET cuts == <<k>> \o CutsAfter(h, graph, k)
  IN [i \in 1 .. Len(cuts) - 1 |->
        [from |-> cuts[i], to |-> cuts[i + 1], linear |-> IsLinear(h, graph, cuts[i], cuts[i + 1])]]

\* What is left of a section: its text and, if it needed one, its engine.
AfterSection(h, graph, replayed, section, engine) ==
  LET text == IF engine = NoEngine THEN Edited(h, replayed.text, graph[section.to])
              ELSE TextOf(engine)
  IN [text |-> text, engine |-> engine,
      cuts |-> Append(replayed.cuts, [version |-> HeadsAt(h, graph, section.to), text |-> text,
                                      count |-> section.to, validated |-> Len(graph)])]

\* Sections in turn: a linear one edits the text, the others have an engine each.
Replayed(h, graph, text, sections) ==
  FoldLeft(LAMBDA replayed, s :
             AfterSection(h, graph, replayed, s,
               IF s.linear THEN NoEngine
               ELSE Integrate(h, EngineAt([version |-> HeadsAt(h, graph, s.from),
                                           text |-> replayed.text, count |-> s.from]),
                              ReplayOrder(h, ToSet(SubSeq(graph, s.from + 1, s.to))))),
           [text |-> text, engine |-> NoEngine, cuts |-> <<>>], sections)

\* replaySuffixAsObjects: the last section with concurrency and all that follows it have one
\* engine; without concurrency it has the whole suffix.
SuffixPlan(graph, sections) ==
  LET nonlinear == {i \in DOMAIN sections : ~sections[i].linear}
      kept == IF nonlinear = {} THEN 1
              ELSE CHOOSE i \in nonlinear : \A j \in nonlinear : j <= i
  IN Append(SubSeq(sections, 1, kept - 1),
            [from |-> sections[kept].from, to |-> Len(graph), linear |-> FALSE])

\* fullReplay keeps every cut and an engine that ends in concurrency;
\* partialReplayFromCheckpoint keeps its engine, and the cut it starts at.
AfterReplay(h, r, old, replayed, roomy) ==
  LET full == old = <<>>
      concurrent == Cardinality(Heads(h, ToSet(r.graph))) > 1
      base == Len(replayed.cuts) - 1
  IN [r EXCEPT !.text = replayed.text,
               !.engine = IF roomy /\ (full => concurrent) THEN replayed.engine ELSE NoEngine,
               !.checkpoints = old \o (IF full THEN replayed.cuts
                                       ELSE IF base = 0 THEN <<>> ELSE <<replayed.cuts[base]>>)]

Replay(h, r, old, roomy) ==
  LET from == IF old = <<>> THEN EmptyBase ELSE Last(old)
      sections == SectionsAfter(h, r.graph, from.count)
  IN AfterReplay(h, r, old,
       Replayed(h, r.graph, from.text,
                IF old = <<>> THEN sections ELSE SuffixPlan(r.graph, sections)), roomy)

-----------------------------------------------------------------------------
(* New events. *)

\* isOrderedLinearBatchFromVersion: a chain from the current version.
IsChain(h, graph, events) ==
  \A i \in DOMAIN events :
    h[events[i]].parents = IF i = 1 THEN Heads(h, ToSet(graph)) ELSE {events[i - 1]}

\* replayCacheCoversEventAt: the event follows the base of the engine.
Covers(h, graph, base, e) ==
  \/ base.version = {}
  \/ \E i \in base.count + 1 .. Len(graph) : graph[i] \in h[e].parents
  \/ base.version \subseteq h[e].parents

\* applyLinearBatch: a chain edits the text, and each of its events is a checkpoint.
ApplyChain(h, r, events) ==
  FoldLeft(LAMBDA n, i :
             LET text == Edited(h, n.text, events[i])
             IN [n EXCEPT !.text = text,
                          !.checkpoints = Recorded(@,
                            [version |-> {events[i]}, text |-> text, validated |-> Len(r.graph),
                             count |-> Len(r.graph) - Len(events) + i])],
           [r EXCEPT !.engine = NoEngine], [i \in DOMAIN events |-> i])

\* The engine after some events; evictReplayCacheIfNeeded may release it.
WithEngine(r, engine, roomy) ==
  [r EXCEPT !.text = TextOf(engine), !.engine = IF roomy THEN engine ELSE NoEngine]

\* advanceWithEvent, applyClosedRemoteBatch and tryApplyWarmBatch, for events just appended.
Advanced(h, r, events, roomy) ==
  LET live == r.engine # NoEngine /\ Len(events) <= MaxLive
      warm == r.engine # NoEngine /\ Len(events) <= MaxWarm
      old == SubSeq(r.graph, 1, Len(r.graph) - Len(events))
  IN CASE ~live /\ IsChain(h, old, events) -> ApplyChain(h, r, events)
       [] (live \/ ~IsChain(h, old, events)) /\ warm
            /\ \A i \in DOMAIN events : Covers(h, r.graph, r.engine.base, events[i]) ->
            Checkpointed(h, WithEngine(r, Integrate(h, r.engine, events), roomy))
       [] OTHER ->
            Checkpointed(h, Replay(h, r, Picked(h, r.graph, r.checkpoints), roomy))

\* Graph and replica with more events.
Extended(h, r, events, roomy) ==
  Advanced(h, [r EXCEPT !.graph = @ \o events], events, roomy)

\* A mutant: an event waits for its first parent, there or not.
FirstParent(h, graph, e) == FirstId(h[e].parents)

\* findMissingParent; the parents of an event are taken to be in the order of their ids.
FindMissingParent(h, graph, e) == FirstId(h[e].parents \ ToSet(graph))

\* bufferAgainst
BufferAgainst(r, e, parent) ==
  [r EXCEPT !.waiting =
     (parent :> Append(IF parent \in DOMAIN @ THEN @[parent] ELSE <<>>, e)) @@ @]

\* A mutant: the events stay in the queue they are taken from.
TakenNone(r, e) == r

\* takePendingChildrenOf
Taken(r, e) == [r EXCEPT !.waiting = Restrict(@, DOMAIN @ \ {e})]

\* A step of tryAcceptDetailed and flushPendingChildrenOf: an event is dropped if the graph
\* has it, waits if a parent is missing, or is integrated, and the events that waited for it
\* are next.
DrainStep(h, d, roomy) ==
  LET e == Head(d.todo)
      rest == Tail(d.todo)
      children == IF e \in DOMAIN d.r.waiting THEN d.r.waiting[e] ELSE <<>>
  IN CASE e \in ToSet(d.r.graph) -> [d EXCEPT !.todo = rest]
       [] ~h[e].parents \subseteq ToSet(d.r.graph) ->
            [r |-> BufferAgainst(d.r, e, FindMissingParent(h, d.r.graph, e)), todo |-> rest]
       [] OTHER -> [r |-> Taken(Extended(h, d.r, <<e>>, roomy), e), todo |-> children \o rest]

\* Every event is taken from the stack at most once for each of its parents.
Drain(h, r, events, roomy) ==
  FoldLeft(LAMBDA d, i : IF d.todo = <<>> THEN d ELSE DrainStep(h, d, roomy),
           [r |-> r, todo |-> events],
           [i \in 1 .. Cardinality(DOMAIN h) * Cardinality(Author) |-> i]).r

-----------------------------------------------------------------------------
(* Steps. *)

Events == DOMAIN pool

\* Events that wait for a parent.
Waiting == UNION {ToSet(replica.waiting[p]) : p \in DOMAIN replica.waiting}

Unknown == Events \ (ToSet(replica.graph) \cup Waiting)

Deletes == {e \in Events : ~pool[e].insert}

\* The next event of an author whose document has the events `seen'.
Record(a, seen, insert, at) ==
  LET parents == Heads(pool, seen)
      number == Cardinality({e \in Events : e[1] = a}) + 1
  IN pool @@ (<<a, number>> :> [parents |-> parents, past |-> Closure(pool, parents),
                                insert |-> insert, at |-> at])

\* The edits of a text.
Edits(text) ==
  {[insert |-> TRUE, at |-> at] : at \in 0 .. Len(text)}
  \cup {[insert |-> FALSE, at |-> at] : at \in IF Cardinality(Deletes) < MaxDeletes
                                              THEN 0 .. Len(text) - 1 ELSE {}}

\* Another author writes, having seen some of the events and all of its own.
Write(a) ==
  /\ a # Me
  /\ fresh
  /\ Cardinality(Events) < MaxEvents
  /\ \E seen \in SUBSET Events :
       /\ \A e \in seen : pool[e].past \subseteq seen
       /\ {e \in Events : e[1] = a} \subseteq seen
       /\ \E edit \in Edits(ScalarText(pool, seen)) :
            pool' = Record(a, seen, edit.insert, edit.at)
  /\ UNCHANGED <<replica, fresh>>

\* applyLocalOperation
LocalEdit(roomy) ==
  /\ Cardinality(Events) < MaxEvents
  /\ \E edit \in Edits(replica.text) :
       pool' = Record(Me, ToSet(replica.graph), edit.insert, edit.at)
  /\ \E e \in DOMAIN pool' \ Events : replica' = Extended(pool', replica, <<e>>, roomy)
  /\ fresh' = TRUE

\* applyRemoteEvent
Receive(e, roomy) ==
  /\ e \in Unknown
  /\ replica' = Drain(pool, replica, <<e>>, roomy)
  /\ fresh' = FALSE
  /\ UNCHANGED pool

\* isClosedReadyBatch
IsReady(events) ==
  /\ Waiting = {}
  /\ \A e \in ToSet(events) : pool[e].parents \subseteq ToSet(replica.graph) \cup ToSet(events)

\* applyRemoteEvents: a batch whose parents are all there is applied at once, another one
\* event by event.
ReceiveBatch(roomy) ==
  /\ \E batch \in SUBSET Unknown :
       /\ Cardinality(batch) \in 2 .. MaxBatch
       /\ \E events \in SetToSeqs(batch) :
            /\ \A i, j \in DOMAIN events : events[i] \in pool[events[j]].past => i < j
            /\ replica' = IF IsReady(events) THEN Extended(pool, replica, events, roomy)
                          ELSE Drain(pool, replica, events, roomy)
  /\ fresh' = FALSE
  /\ UNCHANGED pool

\* restoreRemoteBatchSnapshot: a batch failed; the engine, which it may have moved, is
\* rebuilt from its base.
ReceiveFails ==
  LET base == replica.engine.base
      events == ToSet(SubSeq(replica.graph, base.count + 1, Len(replica.graph)))
  IN /\ replica.engine # NoEngine
     /\ replica' = [replica EXCEPT !.engine =
                      Integrate(pool, EngineAt(base), ReplayOrder(pool, events))]
     /\ fresh' = FALSE
     /\ UNCHANGED pool

\* createNativeSnapshot and fromNativeSnapshot, with or without checkpoints: the payload has
\* the graph in an order of its own, and neither the engine nor the events that wait.
Restore(keep) ==
  /\ replica' = Checkpointed(pool,
       [graph |-> EncodingOrder(pool, ToSet(replica.graph)), waiting |-> <<>>,
        text |-> replica.text, engine |-> NoEngine,
        checkpoints |-> IF ~keep THEN <<>>
                        ELSE [i \in DOMAIN replica.checkpoints |->
                                [replica.checkpoints[i] EXCEPT
                                   !.validated = replica.checkpoints[i].count]]])
  /\ fresh' = FALSE
  /\ UNCHANGED pool

Next ==
  \/ \E a \in Active : Write(a)
  \/ \E roomy \in BOOLEAN :
       \/ LocalEdit(roomy)
       \/ \E e \in Events : Receive(e, roomy)
       \/ ReceiveBatch(roomy)
  \/ ReceiveFails
  \/ \E keep \in BOOLEAN : Restore(keep)

Spec == Init /\ [][Next]_vars

-----------------------------------------------------------------------------
(* Properties. *)

\* What the variables hold: a graph in causal order without repetition, waiters that are not
\* in it, checkpoints in the order of their cuts (applyLocalOperation, tryAccept, record).
TypeOK ==
  /\ Events \subseteq Author \X (Nat \ {0})
  /\ ToSet(replica.graph) \subseteq Events
  /\ IsInjective(replica.graph)
  /\ \A i \in DOMAIN replica.graph :
       pool[replica.graph[i]].parents \subseteq ToSet(SubSeq(replica.graph, 1, i - 1))
  /\ Waiting \subseteq Events \ ToSet(replica.graph)
  /\ \A i, j \in DOMAIN replica.checkpoints :
       i < j => replica.checkpoints[i].count < replica.checkpoints[j].count
  /\ fresh \in BOOLEAN

\* Whatever the replica applied its events with, in whatever order they came, and at whatever
\* point it was restored, its text is the one the scalar reference gives for its events, and so
\* is the text of every checkpoint for the events its version closes over (advanceWithEvent,
\* applyClosedRemoteBatch, fullReplay, partialReplayFromCheckpoint).
TextIsReplay ==
  /\ replica.text = ScalarText(pool, ToSet(replica.graph))
  /\ \A i \in DOMAIN replica.checkpoints :
       replica.checkpoints[i].text =
         ScalarText(pool, Closure(pool, replica.checkpoints[i].version))

\* An event waits at a parent it has and the graph lacks, so the arrival of that parent is
\* certain to wake it: no event whose parents have all come stays behind (flushPendingChildrenOf).
NothingReadyWaits ==
  \A p \in DOMAIN replica.waiting :
    /\ p \notin ToSet(replica.graph)
    /\ \A e \in ToSet(replica.waiting[p]) : p \in pool[e].parents

=============================================================================
