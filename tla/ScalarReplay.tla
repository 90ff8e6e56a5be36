---------------------------- MODULE ScalarReplay ----------------------------
(***************************************************************************)
(* scalarReferenceReplay, the oracle of the conformance tests: it replays  *)
(* a whole history from nothing, smallest id first, one character at a     *)
(* time.  It shares no operator with the engine but the reading of the     *)
(* graph.                                                                  *)
(***************************************************************************)
EXTENDS EventGraph

\* referenceTopologicalOrder
SmallestFirst(h, events) ==
  FoldLeft(LAMBDA order, i :
             Append(order, FirstId({e \in events \ ToSet(order) :
                                      h[e].parents \cap events \subseteq ToSet(order)})),
           <<>>, [i \in 1 .. Cardinality(events) |-> i])

\* Where a character is; <<0, 0>> is the null origin.
IndexFor(items, id, null) ==
  IF id = <<0, 0>> THEN null ELSE CHOOSE i \in DOMAIN items : items[i].id = id

\* transitionTo and togglePrepareState, for a character: the events on it in a version.
PrepareState(state, past, id) ==
  Cardinality({e \in past \cap DOMAIN state.target : state.target[e] = id})

\* findPrepareCursor: the shortest prefix that shows so many characters.
Cursor(state, past, width) ==
  CHOOSE c \in 0 .. Len(state.items) :
    LET shown(n) == Cardinality({i \in 1 .. n : PrepareState(state, past, state.items[i].id) = 1})
    IN shown(c) = width /\ \A n \in 0 .. c - 1 : shown(n) < width

\* referenceIntegrationPosition: the loop, with its break as a flag.
ScanStep(state, past, item, scan, i) ==
  LET other == state.items[i]
      left(x) == IndexFor(state.items, x.left, 0)
      right(x) == IndexFor(state.items, x.right, Len(state.items) + 1)
      sibling == left(other) = left(item)
      breaks == \/ PrepareState(state, past, other.id) # 0
                \/ left(other) < left(item)
                \/ sibling /\ right(other) = right(item) /\ Before(item.id, other.id)
      scanning == IF sibling THEN right(other) < right(item) ELSE scan.scanning
  IN IF scan.broken \/ breaks THEN [scan EXCEPT !.broken = TRUE]
     ELSE [broken |-> FALSE, scanning |-> scanning,
           candidate |-> IF scanning /\ ~scan.scanning THEN i ELSE scan.candidate,
           insertion |-> IF scanning THEN scan.insertion ELSE i + 1]

ReferencePosition(state, past, item, cursor) ==
  LET scan == FoldLeft(LAMBDA s, i : ScanStep(state, past, item, s, i),
                       [broken |-> FALSE, scanning |-> FALSE,
                        candidate |-> cursor + 1, insertion |-> cursor + 1],
                       [i \in 1 .. Len(state.items) - cursor |-> cursor + i])
  IN IF scan.scanning THEN scan.candidate ELSE scan.insertion

\* applyScalarReferenceEvent, an insert.
ReferenceInsert(state, past, e, cursor) ==
  LET left == IF cursor = 0 THEN <<0, 0>> ELSE state.items[cursor].id
      present == {i \in cursor + 1 .. Len(state.items) :
                    PrepareState(state, past, state.items[i].id) # 0}
      next == {i \in present : (\A k \in present : i <= k) /\ state.items[i].left = left}
      item == [id |-> e, left |-> left, deleted |-> FALSE,
               right |-> IF next = {} THEN <<0, 0>> ELSE state.items[CHOOSE i \in next : TRUE].id]
  IN [items |-> InsertAt(state.items, ReferencePosition(state, past, item, cursor), item),
      target |-> state.target @@ (e :> e)]

\* applyScalarReferenceEvent, a delete.
ReferenceDelete(state, past, e, cursor) ==
  LET i == CHOOSE i \in cursor + 1 .. Len(state.items) :
             /\ PrepareState(state, past, state.items[i].id) = 1
             /\ \A k \in cursor + 1 .. i - 1 : PrepareState(state, past, state.items[k].id) # 1
  IN [items |-> [state.items EXCEPT ![i].deleted = TRUE],
      target |-> state.target @@ (e :> state.items[i].id)]

\* The text of some events, by the characters' ids.
ScalarText(h, events) ==
  LET apply(state, e) ==
        LET past == h[e].past
            cursor == Cursor(state, past, h[e].at)
        IN IF h[e].insert THEN ReferenceInsert(state, past, e, cursor)
           ELSE ReferenceDelete(state, past, e, cursor)
      items == FoldLeft(apply, [items |-> <<>>, target |-> <<>>], SmallestFirst(h, events)).items
      kept == SelectSeq(items, LAMBDA item : ~item.deleted)
  IN [i \in DOMAIN kept |-> kept[i].id]

=============================================================================
