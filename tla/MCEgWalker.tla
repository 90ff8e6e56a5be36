----------------------------- MODULE MCEgWalker -----------------------------
(***************************************************************************)
(* EgWalker for TLC: the replica modelled is the second author, so that    *)
(* its ids are neither the smallest nor the largest.  The others           *)
(* have written nothing yet, or one of three histories long enough to have *)
(* several critical versions: concurrent edits, their merge and concurrent *)
(* edits again; two runs typed at one place, with a deletion; and a        *)
(* version of two events that two authors follow and a third only in part. *)
(***************************************************************************)
EXTENDS EgWalker

Event(parents, past, insert, at) ==
  [parents |-> parents, past |-> past, insert |-> insert, at |-> at]

\* The ids of the others.
A(n) == <<1, n>>
C(n) == <<3, n>>
D(n) == <<4, n>>

Merged ==
  A(1) :> Event({}, {}, TRUE, 0)
  @@ A(2) :> Event({A(1)}, {A(1)}, TRUE, 0)
  @@ C(1) :> Event({A(1)}, {A(1)}, TRUE, 1)
  @@ A(3) :> Event({A(2), C(1)}, {A(1), A(2), C(1)}, TRUE, 1)
  @@ A(4) :> Event({A(3)}, {A(1), A(2), C(1), A(3)}, FALSE, 1)
  @@ C(2) :> Event({A(3)}, {A(1), A(2), C(1), A(3)}, TRUE, 2)

TwoRuns ==
  A(1) :> Event({}, {}, TRUE, 0)
  @@ A(2) :> Event({A(1)}, {A(1)}, TRUE, 0)
  @@ C(1) :> Event({}, {}, TRUE, 0)
  @@ C(2) :> Event({C(1)}, {C(1)}, TRUE, 1)
  @@ C(3) :> Event({A(1), C(2)}, {A(1), C(1), C(2)}, FALSE, 1)
  @@ A(3) :> Event({A(2), C(1)}, {A(1), A(2), C(1)}, TRUE, 2)

Followed ==
  A(1) :> Event({}, {}, TRUE, 0)
  @@ A(2) :> Event({A(1)}, {A(1)}, TRUE, 0)
  @@ C(1) :> Event({A(1)}, {A(1)}, TRUE, 0)
  @@ A(3) :> Event({A(2), C(1)}, {A(1), A(2), C(1)}, TRUE, 1)
  @@ C(2) :> Event({A(2), C(1)}, {A(1), A(2), C(1)}, TRUE, 1)
  @@ D(1) :> Event({C(1)}, {A(1), C(1)}, TRUE, 1)

History == {<<>>, Merged, TwoRuns, Followed}

\* The histories are ones their authors can have written.
ASSUME HistoriesAreWritten ==
  \A h \in History : \A e \in DOMAIN h :
    /\ h[e].past = Closure(h, h[e].parents)
    /\ h[e].parents = Heads(h, h[e].past)
    /\ \A n \in 1 .. e[2] - 1 : <<e[1], n>> \in h[e].past
    /\ h[e].at \in 0 .. Len(ScalarText(h, h[e].past)) - IF h[e].insert THEN 0 ELSE 1

=============================================================================
