--------------------------- MODULE MCClientSession ---------------------------
(* ClientSession for TLC. *)
EXTENDS ClientSession

CONSTANTS tab1, tab2, ann, ben

\* Whose sessions they are.
OneUser == [c \in Client |-> ann]
TwoUsers == [c \in Client |-> IF c = tab1 THEN ann ELSE ben]

Budget(edits1, edits2, calls1, calls2) ==
  [edits |-> [c \in Client |-> IF c = tab1 THEN edits1 ELSE edits2],
   calls |-> [c \in Client |-> IF c = tab1 THEN calls1 ELSE calls2],
   faults |-> 0, reloads |-> 0, storageFaults |-> 0]

\* Two sessions that stay shared.
Sharing == {[Budget(1, 1, 1, 1) EXCEPT !.faults = 1]}

\* One page that shares or unshares its document, or asks for a save; or two tabs.
PageOrTabs ==
  {[Budget(3, 0, 2, 0) EXCEPT !.faults = 1, !.reloads = 1],
   [Budget(1, 1, 1, 1) EXCEPT !.reloads = 1]}

\* One page that is shared while it is edited; nothing fails.
Switching == {Budget(4, 0, 2, 0)}

\* One private document, whose local storage fails once.
StorageFailing == {[Budget(2, 0, 1, 0) EXCEPT !.storageFaults = 1]}

=============================================================================
