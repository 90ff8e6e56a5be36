----------------------------- MODULE BlockState -----------------------------
(***************************************************************************)
(* The block projection of packages/block-model.                           *)
(*                                                                         *)
(* ReplicaState keeps, next to the EG-walker sequence, a causal index over *)
(* the integrated events and, per block, what the events say of it.  Both  *)
(* are updated by each event; the visible blocks are cached and only those *)
(* an event touched are built again.  materializeBlockState computes the   *)
(* same document from the whole set of events at once: it is the reference *)
(* the incremental state is compared with.                                 *)
(*                                                                         *)
(* Event ids are numbers, ordered as compareIds orders them.  The raw      *)
(* sequence is abstracted to the order of the block markers (BlockOrder)   *)
(* and to the text events of each block; a mark covers whole blocks, and   *)
(* the marks are those of one kind.                                        *)
(***************************************************************************)
EXTENDS Integers, Sequences, FiniteSets, SequencesExt

CONSTANTS
  Event,         \* The ids of the rich-text events, numbers.
  BootEvent,     \* The event of the bootstrap batch.
  EventParents,  \* Event -> the set of its parent events.
  Effect,        \* Event -> its effect.
  Block,         \* The block ids.
  Root,          \* The bootstrap block.
  NoBlock,       \* The null of a source or parent block.
  BlockOrder     \* Block ids in the order of their markers in the raw sequence.

NoEvent == -1
Fields == {"type", "parentId"}
DefaultFields == [type |-> "paragraph", parentId |-> NoBlock]

-----------------------------------------------------------------------------
(* The causal index: events in integration order (lv), grouped in chains. *)

EmptyIndex == [nodes |-> <<>>, chains |-> <<>>]

\* A mutant: an event of several parents goes on with the chain of one of them.
AddToIndexAfterAnyParent(idx, e) ==
  LET parents == EventParents[e]
      lv == Cardinality(DOMAIN idx.nodes)
      chainOf(p) == idx.nodes[p].chain
      tails == {p \in parents : idx.nodes[p].index = idx.chains[chainOf(p)].length - 1}
      chain == IF tails = {} THEN e ELSE chainOf(CHOOSE p \in tails : TRUE)
      index == IF tails = {} THEN 0 ELSE idx.chains[chain].length
  IN [nodes |-> idx.nodes @@ (e :> [lv |-> lv, chain |-> chain, index |-> index]),
      chains |-> (chain :> [parents |-> IF tails = {} THEN parents ELSE idx.chains[chain].parents,
                            length |-> index + 1]) @@ idx.chains]

\* CausalIndex.add.  A chain is named by its first event.
AddToIndex(idx, e) ==
  LET parents == EventParents[e]
      lv == Cardinality(DOMAIN idx.nodes)
      chainOf(p) == idx.nodes[p].chain
      tails == {p \in parents : /\ parents = {p}
                                /\ idx.nodes[p].index = idx.chains[chainOf(p)].length - 1}
      chain == IF tails = {} THEN e ELSE chainOf(CHOOSE p \in tails : TRUE)
      index == IF tails = {} THEN 0 ELSE idx.chains[chain].length
  IN [nodes |-> idx.nodes @@ (e :> [lv |-> lv, chain |-> chain, index |-> index]),
      chains |-> (chain :> [parents |-> IF tails = {} THEN parents ELSE idx.chains[chain].parents,
                            length |-> index + 1]) @@ idx.chains]

\* searchAncestor: from the parents of the descendant's chain, chain by chain.
SearchAncestor(idx, a, d) ==
  LET from == idx.chains[idx.nodes[d].chain].parents
      search[stack \in SUBSET Event, visited \in SUBSET Event] ==
        LET late == {e \in stack : idx.nodes[e].lv >= idx.nodes[a].lv}
            chains == {idx.nodes[e].chain : e \in late} \ visited
        IN \/ \E e \in late : idx.nodes[e].chain = idx.nodes[a].chain
           \/ /\ chains # {}
              /\ search[UNION {idx.chains[c].parents : c \in chains}, visited \cup chains]
  IN search[from, {idx.nodes[d].chain}]

\* isAncestor: inside one chain, and against the integration order, no search is needed.
IsAncestor(idx, a, d) ==
  /\ a # d
  /\ {a, d} \subseteq DOMAIN idx.nodes
  /\ idx.nodes[a].lv < idx.nodes[d].lv
  /\ \/ idx.nodes[a].chain = idx.nodes[d].chain
     \/ SearchAncestor(idx, a, d)

-----------------------------------------------------------------------------
(* The incremental state. *)

NewMeta == [marker |-> NoEvent, source |-> NoBlock,
            fields |-> [f \in Fields |-> {}], causes |-> {}, joins |-> {}]

EmptyState ==
  [index |-> EmptyIndex, blocks |-> [b \in Block |-> NewMeta],
   text |-> [b \in Block |-> {}], marks |-> <<>>, unindexed |-> <<>>,
   dirty |-> {}, structureDirty |-> TRUE, everythingDirty |-> TRUE,
   visible |-> <<>>, failed |-> FALSE]

Children(m, b) == {c \in Block : m.blocks[c].marker # NoEvent /\ m.blocks[c].source = b}

\* The block and the blocks it was split from, as far as they are known.
Lineage(m, b) ==
  LET up[c \in Block \cup {NoBlock}, seen \in SUBSET Block] ==
        IF c = NoBlock \/ c \in seen THEN seen
        ELSE up[IF m.blocks[c].marker = NoEvent THEN NoBlock ELSE m.blocks[c].source, seen \cup {c}]
  IN up[b, {}]

\* A mutant: the removal reaches the block it names only.
AddOwnCause(m, block, cause) ==
  [m EXCEPT !.blocks[block].causes = @ \cup {cause}, !.structureDirty = TRUE]

\* addCause: the removal reaches the split children it did not observe.
AddCause(m, block, cause) ==
  LET reach[todo \in SUBSET Block, seen \in SUBSET Block] ==
        LET new == {b \in todo \ seen : cause \notin m.blocks[b].causes}
            next == {c \in UNION {Children(m, b) : b \in new} :
                       ~IsAncestor(m.index, m.blocks[c].marker, cause)}
        IN IF new = {} THEN seen ELSE reach[next, seen \cup new]
      reached == reach[{block}, {}]
  IN [m EXCEPT !.blocks = [b \in Block |->
                             IF b \in reached THEN [@[b] EXCEPT !.causes = @ \cup {cause}] ELSE @[b]],
               !.structureDirty = TRUE]

\* assignFields: the new assignment replaces those it follows.
AssignFields(m, block, e, patch) ==
  [m EXCEPT !.blocks[block].fields =
     [f \in Fields |->
        IF f \notin DOMAIN patch THEN @[f]
        ELSE {c \in @[f] : ~IsAncestor(m.index, c.event, e)} \cup {[event |-> e, value |-> patch[f]]}]]

\* createBlock; false is what the code throws.
CreateBlock(m, e, block, source, fields) ==
  LET placed == [m EXCEPT !.blocks[block].marker = e, !.blocks[block].source = source]
      assigned == AssignFields(placed, block, e, fields)
      inherited == IF source = NoBlock THEN {}
                   ELSE {c \in m.blocks[source].causes : ~IsAncestor(m.index, e, c)}
      caused == FoldLeft(LAMBDA n, c : AddCause(n, block, c), assigned, SetToSeq(inherited))
      cyclic == source # NoBlock /\ block \in Lineage(m, source)
  IN [caused EXCEPT !.structureDirty = TRUE,
                    !.everythingDirty = @ \/ Children(placed, block) # {},
                    !.failed = m.blocks[block].marker # NoEvent \/ cyclic]

\* integrateEvent and applyEffect for one event whose parents are integrated.
IntegrateEvent(m, e) ==
  LET effect == Effect[e]
      n == [m EXCEPT !.index = AddToIndex(m.index, e)]
  IN CASE m.failed -> m
       [] effect.type \in {"bootstrap", "block-create"} ->
            CreateBlock(n, e, effect.block,
                        IF effect.type = "bootstrap" THEN NoBlock ELSE effect.source, effect.fields)
       [] effect.type = "block-set" ->
            [AssignFields(n, effect.block, e, effect.fields) EXCEPT !.structureDirty = TRUE]
       [] effect.type = "block-delete" ->
            [AddCause(n, effect.block, e) EXCEPT !.failed = effect.block = Root]
       [] effect.type = "block-join" ->
            [n EXCEPT !.blocks[effect.block].joins = @ \cup {e}, !.structureDirty = TRUE,
                      !.failed = effect.block = Root]
       [] effect.type = "mark-set" -> [n EXCEPT !.unindexed = Append(@, e)]
       [] effect.type = "text-insert" ->
            [n EXCEPT !.text[effect.block] = @ \cup {e}, !.dirty = @ \cup {effect.block}]
       [] effect.type = "text-delete" ->
            [n EXCEPT !.text[effect.block] = @ \ effect.targets, !.dirty = @ \cup {effect.block}]

\* The blocks whose markers are in the sequence, in order.
Segments(m) == SelectSeq(BlockOrder, LAMBDA b : m.blocks[b].marker # NoEvent)

\* visibleAt and joinedAt: the block as the event e saw it.
VisibleAt(m, b, e) ==
  /\ IsAncestor(m.index, m.blocks[b].marker, e)
  /\ \A c \in m.blocks[b].causes : ~IsAncestor(m.index, c, e)
JoinedAt(m, b, e) == \E j \in m.blocks[b].joins : IsAncestor(m.index, j, e)

\* markOwners: the block the mark names and the visible blocks joined after it.
MarkOwners(m, e) ==
  LET own == Effect[e].block
      segments == Segments(m)
      position == CHOOSE i \in DOMAIN segments : segments[i] = own
      before == {i \in 1 .. position - 1 : VisibleAt(m, segments[i], e)}
      ends == {i \in position + 1 .. Len(segments) :
                 VisibleAt(m, segments[i], e) /\ ~JoinedAt(m, segments[i], e)}
      joined == {i \in position + 1 .. Len(segments) :
                   /\ VisibleAt(m, segments[i], e)
                   /\ \A j \in ends : i < j}
  IN IF \/ m.blocks[own].marker = NoEvent
        \/ ~VisibleAt(m, own, e)
        \/ JoinedAt(m, own, e) /\ before # {}
     THEN {own}
     ELSE {own} \cup {segments[i] : i \in joined}

\* settle: index the marks integrated since; not reached when an event threw.
Settle(m) ==
  IF m.failed THEN m ELSE
  FoldLeft(LAMBDA n, e : [n EXCEPT !.marks = @ @@ (e :> MarkOwners(n, e)),
                                   !.unindexed = Tail(@),
                                   !.dirty = @ \cup (Effect[e].range \cap ToSet(Segments(n)))],
           m, m.unindexed)

\* integrateBatches: every event in turn, then settle.
IntegrateEvents(m, events) ==
  Settle(FoldLeft(IntegrateEvent, m, events))

\* The state of a new replica: the bootstrap batch is integrated.
BootState == IntegrateEvents(EmptyState, <<BootEvent>>)

\* EgWalkerReplica.getFrontier, of the events it has: those no other one follows.
Frontier(events) ==
  {e \in events : \A d \in events : e \notin EventParents[d]}

-----------------------------------------------------------------------------
(* Reading the document. *)

Largest(S) == CHOOSE c \in S : \A d \in S : d.event <= c.event

\* resolveFields
ResolveFields(m, b) ==
  [f \in Fields |-> IF m.blocks[b].fields[f] = {} THEN DefaultFields[f]
                    ELSE Largest(m.blocks[b].fields[f]).value]

\* selectWinner: newest first, a mark is dropped when a maximal one follows it.
SelectWinner(m, marks) ==
  LET newestFirst == SetToSortSeq(marks, LAMBDA x, y : m.index.nodes[x].lv > m.index.nodes[y].lv)
      maximal == FoldLeft(LAMBDA found, e : IF \E d \in found : IsAncestor(m.index, e, d)
                                            THEN found ELSE found \cup {e},
                          {}, newestFirst)
  IN CHOOSE e \in maximal : \A d \in maximal : d <= e

\* computeMarks for one segment: the winner among the marks of its split lineage.
MarkOf(m, b) ==
  LET relevant == {e \in DOMAIN m.marks : /\ m.marks[e] \cap Lineage(m, b) # {}
                                          /\ b \in Effect[e].range}
  IN IF relevant = {} THEN "none" ELSE Effect[SelectWinner(m, relevant)].value

\* normalizeOutputAttributes: only a list item after its parent list keeps its parent.
NormalParent(fields, before) ==
  IF /\ fields.type = "list"
     /\ \E r \in ToSet(before) : r.id = fields.parentId /\ r.type = "list"
  THEN fields.parentId ELSE NoBlock

\* materialize: a visible block, its segments with their text and marks.
VisibleBlock(m, id, segments, type, parentId) ==
  [id |-> id, type |-> type, parentId |-> parentId, segments |-> segments,
   text |-> [i \in DOMAIN segments |-> m.text[segments[i]]],
   marks |-> [i \in DOMAIN segments |-> MarkOf(m, segments[i])]]

\* The visible blocks, each followed by the visible blocks joined into it.
Groups(m) ==
  FoldLeft(LAMBDA groups, b :
             CASE m.blocks[b].causes # {} -> groups
               [] m.blocks[b].causes = {} /\ m.blocks[b].joins # {} ->
                    IF groups = <<>> THEN groups
                    ELSE [groups EXCEPT ![Len(groups)] = Append(@, b)]
               [] OTHER -> Append(groups, <<b>>),
           <<>>, Segments(m))

\* refreshBlocks, after a structural change: an untouched block is reused.
Regroup(m) ==
  FoldLeft(LAMBDA records, group :
             LET fields == ResolveFields(m, group[1])
                 parentId == NormalParent(fields, records)
                 reusable == {r \in ToSet(m.visible) :
                                /\ r.id = group[1] /\ r.type = fields.type /\ r.parentId = parentId
                                /\ r.segments = group /\ ToSet(group) \cap m.dirty = {}
                                /\ ~m.everythingDirty}
             IN Append(records, IF reusable # {} THEN CHOOSE r \in reusable : TRUE
                                ELSE VisibleBlock(m, group[1], group, fields.type, parentId)),
           <<>>, Groups(m))

\* refreshBlocks, when only the content of segments changed.
Retouch(m) ==
  [i \in DOMAIN m.visible |->
     LET r == m.visible[i]
     IN IF ToSet(r.segments) \cap m.dirty = {} THEN r
        ELSE VisibleBlock(m, r.id, r.segments, r.type, r.parentId)]

\* refresh: what getDocument does before it returns the visible blocks.
Refresh(m) ==
  [m EXCEPT !.visible = IF m.structureDirty \/ m.everythingDirty THEN Regroup(m) ELSE Retouch(m),
            !.dirty = {}, !.structureDirty = FALSE, !.everythingDirty = FALSE]

-----------------------------------------------------------------------------
(* The reference: the document of a set of events. *)

\* The strict ancestors of an event.
Past[e \in Event] == EventParents[e] \cup UNION {Past[p] : p \in EventParents[e]}

EffectsOf(events, types) == {e \in events : Effect[e].type \in types}

\* The event that created the block, and the block it was split from.
MarkerEvent(events, b) ==
  CHOOSE e \in EffectsOf(events, {"bootstrap", "block-create"}) : Effect[e].block = b
SourceOf(events, b) ==
  LET e == MarkerEvent(events, b) IN IF Effect[e].type = "bootstrap" THEN NoBlock ELSE Effect[e].source

\* buildSplitLineages
SplitLineage(events, b) ==
  LET created == {Effect[e].block : e \in EffectsOf(events, {"bootstrap", "block-create"})}
      up[c \in Block \cup {NoBlock}] ==
        IF c = NoBlock THEN {}
        ELSE {c} \cup up[IF c \in created THEN SourceOf(events, c) ELSE NoBlock]
  IN up[b]

\* The removals of a block: its own, and those of a source it was split from unobserved.
RemovalCauses(events, b) ==
  {c \in EffectsOf(events, {"block-delete"}) :
     /\ Effect[c].block \in SplitLineage(events, b)
     /\ \A x \in SplitLineage(events, b) \ SplitLineage(events, Effect[c].block) :
          MarkerEvent(events, x) \notin Past[c]}

JoinsOf(events, b) == {e \in EffectsOf(events, {"block-join"}) : Effect[e].block = b}

\* selectCausalMaximal: the largest id among the events no other of them follows.
CausalWinner(events) ==
  CHOOSE e \in events : \A d \in events : /\ e \notin Past[d]
                                         /\ \/ d <= e
                                            \/ \E c \in events : d \in Past[c]

\* resolveBlockFields
FieldsOf(events, b) ==
  [f \in Fields |->
     LET assigning == {e \in EffectsOf(events, {"bootstrap", "block-create", "block-set"}) :
                         Effect[e].block = b /\ f \in DOMAIN Effect[e].fields}
     IN IF assigning = {} THEN DefaultFields[f] ELSE Effect[CausalWinner(assigning)].fields[f]]

CreatedInOrder(events) ==
  LET created == {Effect[e].block : e \in EffectsOf(events, {"bootstrap", "block-create"})}
  IN SelectSeq(BlockOrder, LAMBDA b : b \in created)

\* resolveMarkOwnership: scan the markers the mark's author saw.
MarkOwnership(events, e) ==
  LET seen == SelectSeq(CreatedInOrder(events), LAMBDA b :
                /\ MarkerEvent(events, b) \in Past[e]
                /\ RemovalCauses(events, b) \cap Past[e] = {})
      step(acc, b) ==
        LET owner == IF JoinsOf(events, b) \cap Past[e] = {} \/ acc.owner = NoBlock
                     THEN b ELSE acc.owner
        IN [owner |-> owner,
            owned |-> IF owner = Effect[e].block THEN acc.owned \cup {b} ELSE acc.owned]
      orOwn(owned) == IF owned = {} THEN {Effect[e].block} ELSE owned
  IN orOwn(FoldLeft(step, [owner |-> NoBlock, owned |-> {}], seen).owned)

\* materializeMarks for one segment.
ReferenceMark(events, b) ==
  LET winning(marks) == IF marks = {} THEN "none" ELSE Effect[CausalWinner(marks)].value
  IN winning({e \in EffectsOf(events, {"mark-set"}) :
                /\ b \in Effect[e].range
                /\ SplitLineage(events, b) \cap MarkOwnership(events, e) # {}})

ReferenceText(events, b) ==
  {e \in EffectsOf(events, {"text-insert"}) :
     /\ Effect[e].block = b
     /\ \A d \in EffectsOf(events, {"text-delete"}) : e \notin Effect[d].targets}

\* The blocks to show: a joined block continues the one before it.
ShownGroups(events) ==
  FoldLeft(LAMBDA groups, b :
             IF JoinsOf(events, b) = {} THEN Append(groups, <<b>>)
             ELSE IF groups = <<>> THEN groups
             ELSE [groups EXCEPT ![Len(groups)] = Append(@, b)],
           <<>>, SelectSeq(CreatedInOrder(events), LAMBDA b : RemovalCauses(events, b) = {}))

\* materializeBlockState
Materialize(events) ==
  LET blockOf(group, fields, before) ==
        [id |-> group[1], type |-> fields.type, parentId |-> NormalParent(fields, before),
         segments |-> group,
         text |-> [i \in DOMAIN group |-> ReferenceText(events, group[i])],
         marks |-> [i \in DOMAIN group |-> ReferenceMark(events, group[i])]]
  IN FoldLeft(LAMBDA blocks, group :
                Append(blocks, blockOf(group, FieldsOf(events, group[1]), blocks)),
              <<>>, ShownGroups(events))

=============================================================================
