--------------------------- MODULE MCBlockReplica ---------------------------
(***************************************************************************)
(* BlockReplica for TLC.  One author splits a block, writes in the half    *)
(* split off and marks the other; a second changes and marks the same      *)
(* block at the same time; a third has seen both, so that what this author *)
(* does, a join of the halves and a deletion, begins with an event of two  *)
(* parents.  A fourth deletes the block without having seen the split, and *)
(* a last one merges that with all the rest.  One more batch creates the   *)
(* split-off block a second time, out of a block its author has not seen,  *)
(* and marks it.                                                           *)
(***************************************************************************)
EXTENDS BlockReplica

CONSTANTS root, x, y, none

Created(block, source) == [type |-> "block-create", block |-> block, source |-> source,
                           fields |-> [type |-> "paragraph", parentId |-> none]]
Assigned(block, type, parentId) == [type |-> "block-set", block |-> block,
                                    fields |-> [type |-> type, parentId |-> parentId]]
Marked(block, range, value) ==
  [type |-> "mark-set", block |-> block, range |-> range, value |-> value]
Inserted(block) == [type |-> "text-insert", block |-> block]

Events == 0 .. 14

Blocks == {root, x, y}
Order == <<root, x, y>>

\* What happens, and after what.
History ==
  0 :> [after |-> {}, effect |-> [type |-> "bootstrap", block |-> root,
                                  fields |-> [type |-> "list", parentId |-> none]]]
  @@ 1 :> [after |-> {0}, effect |-> Created(x, root)]
  @@ 2 :> [after |-> {1}, effect |-> Created(y, x)]
  @@ 3 :> [after |-> {2}, effect |-> Inserted(y)]
  @@ 4 :> [after |-> {3}, effect |-> Assigned(x, "heading", none)]
  @@ 5 :> [after |-> {4}, effect |-> Marked(x, {x}, "bold")]
  @@ 6 :> [after |-> {1}, effect |-> Assigned(x, "list", root)]
  @@ 7 :> [after |-> {6}, effect |-> Marked(x, {x}, "off")]
  @@ 8 :> [after |-> {5, 7}, effect |-> [type |-> "block-join", block |-> y]]
  @@ 9 :> [after |-> {8}, effect |-> Marked(x, {x, y}, "italic")]
  @@ 10 :> [after |-> {9}, effect |-> [type |-> "text-delete", block |-> y, targets |-> {3}]]
  @@ 11 :> [after |-> {1}, effect |-> [type |-> "block-delete", block |-> x]]
  @@ 12 :> [after |-> {10, 11}, effect |-> Inserted(root)]
  @@ 13 :> [after |-> {0}, effect |-> Created(y, x)]
  @@ 14 :> [after |-> {13}, effect |-> Marked(root, {y}, "bold")]

Effects == [e \in Events |-> History[e].effect]
ParentEvents == [e \in Events |-> History[e].after]

\* The batches, by their first event.
EventsOfBatch ==
  1 :> <<1>> @@ 2 :> <<2, 3, 4, 5>> @@ 6 :> <<6, 7>> @@ 8 :> <<8, 9, 10>>
  @@ 11 :> <<11>> @@ 12 :> <<12>> @@ 13 :> <<13, 14>>
Batches == DOMAIN EventsOfBatch
ParentsOfBatch == [b \in Batches |-> ParentEvents[b]]

=============================================================================
