---------------------------- MODULE ReplayEngine ----------------------------
(***************************************************************************)
(* EgWalkerEngine: the characters of a stretch of history that starts at a *)
(* critical version, each with its origins and its prepare state.  To      *)
(* apply an event, the engine moves its prepare view to the event's        *)
(* parents (events are retreated and advanced), finds where the index      *)
(* falls in that view, and places the character among the concurrent ones. *)
(*                                                                         *)
(* The runs of characters the engine stores as one record, and splits when *)
(* an event lands inside, are modelled character by character.             *)
(***************************************************************************)
EXTENDS EventGraph

\* The null origin, and the engine that has been released.
NoItem == <<0, 0>>
NoEngine == [items |-> <<>>, targets |-> <<>>, version |-> {},
             base |-> [version |-> {}, text |-> <<>>, count |-> -1]]

\* The replica before any event.
EmptyBase == [version |-> {}, text |-> <<>>, count |-> 0]

\* resetState: the base text is one placeholder record, whose pieces have no origins.
EngineAt(base) ==
  [items |-> [i \in DOMAIN base.text |->
                [id |-> base.text[i], left |-> NoItem, right |-> NoItem,
                 prepare |-> 1, deleted |-> FALSE]],
   targets |-> <<>>, version |-> base.version, base |-> base]

\* Where an item is, with a value of its own for the null origin.
Position(items, id, none) ==
  IF id = NoItem THEN none ELSE CHOOSE p \in DOMAIN items : items[p].id = id

\* A mutant: events the target lacks are not retreated.
AdvanceOnly(h, engine, target) ==
  LET to == Closure(h, target)
      from == Closure(h, engine.version)
      touching(events, id) == {e \in events \cap DOMAIN engine.targets : engine.targets[e] = id}
  IN [i \in DOMAIN engine.items |->
        [engine.items[i] EXCEPT !.prepare = @ + Cardinality(touching(to \ from, engine.items[i].id))]]

\* transitionObjectPrepareView: the items in the prepare view of another version.  An insert
\* toggles its own character, a delete its target; the toggles commute.
Transition(h, engine, target) ==
  LET to == Closure(h, target)
      from == Closure(h, engine.version)
      touching(events, id) == {e \in events \cap DOMAIN engine.targets : engine.targets[e] = id}
  IN [i \in DOMAIN engine.items |->
        [engine.items[i] EXCEPT
           !.prepare = @ + Cardinality(touching(to \ from, engine.items[i].id))
                         - Cardinality(touching(from \ to, engine.items[i].id))]]

\* The positions of the characters the prepare view shows, in order.
Shown(items) == SelectSeq([p \in DOMAIN items |-> p], LAMBDA p : items[p].prepare = 1)

\* findIntegrationPosition: the scan crosses what is concurrent with the item.  It ends before
\* the right origin, an item of the prepare view, a sibling with a larger id, or an item whose
\* left origin is further left.  If the last siblings it crossed have nearer right origins, the
\* item goes before them.
IntegrationPosition(items, item) ==
  LET leftAt == Position(items, item.left, 0)
      rightAt == Position(items, item.right, Len(items) + 1)
      twin(other) == other.left = item.left /\ other.right = item.right
      stops == {p \in leftAt + 1 .. rightAt - 1 :
                  \/ items[p].prepare # 0
                  \/ twin(items[p]) /\ Before(item.id, items[p].id)
                  \/ items[p].left # item.left /\ Position(items, items[p].left, 0) < leftAt}
      end == IF stops = {} THEN rightAt ELSE CHOOSE p \in stops : \A q \in stops : p <= q
      siblings == {p \in leftAt + 1 .. end - 1 : items[p].left = item.left}
      nested(p) == ~twin(items[p]) /\ Position(items, items[p].right, Len(items) + 1) < rightAt
      region == {p \in siblings : \A q \in siblings : q >= p => nested(q)}
  IN IF region = {} THEN end ELSE CHOOSE p \in region : \A q \in region : p <= q

\* applyInsert: the left origin is the character before the index, the right one the next of
\* the prepare view, deleted or not, if it has the same left origin.
Inserted(items, e, at) ==
  LET leftAt == IF at = 0 THEN 0 ELSE Shown(items)[at]
      left == IF at = 0 THEN NoItem ELSE items[leftAt].id
      isNext(p) == /\ items[p].prepare # 0
                   /\ \A q \in leftAt + 1 .. p - 1 : items[q].prepare = 0
      next == {p \in leftAt + 1 .. Len(items) : isNext(p) /\ items[p].left = left}
      item == [id |-> e, left |-> left,
               right |-> IF next = {} THEN NoItem ELSE items[CHOOSE p \in next : TRUE].id,
               prepare |-> 1, deleted |-> FALSE]
  IN InsertAt(items, IntegrationPosition(items, item), item)

\* applyDelete
Deleted(items, at) ==
  [items EXCEPT ![Shown(items)[at + 1]] = [@ EXCEPT !.prepare = @ + 1, !.deleted = TRUE]]

\* processEvent
ProcessEvent(h, engine, e) ==
  LET view == Transition(h, engine, h[e].parents)
  IN [engine EXCEPT
        !.items = IF h[e].insert THEN Inserted(view, e, h[e].at) ELSE Deleted(view, h[e].at),
        !.targets = @ @@ (e :> IF h[e].insert THEN e ELSE view[Shown(view)[h[e].at + 1]].id),
        !.version = {e}]

\* generate, applyEventBatch: some events in turn.
Integrate(h, engine, events) ==
  FoldLeft(LAMBDA n, e : ProcessEvent(h, n, e), engine, events)

\* The text the engine has.
TextOf(engine) ==
  LET kept == SelectSeq(engine.items, LAMBDA item : ~item.deleted)
  IN [i \in DOMAIN kept |-> kept[i].id]

=============================================================================
