----------------------------- MODULE EventGraph -----------------------------
(***************************************************************************)
(* The event graph of packages/eg-walker, for the operators that need it.  *)
(*                                                                         *)
(* An event is an edit at an index of the document its author had: it      *)
(* inserts one character or deletes one.  `h' gives, for every event, its  *)
(* parents, the events before it (what expandVersion computes) and its     *)
(* operation.  A graph is the sequence of the events a replica holds, in   *)
(* the order it added them (the insertion ranks).                          *)
(***************************************************************************)
EXTENDS Integers, Sequences, FiniteSets, SequencesExt

\* compareEventIds, for ids <<author, number>>.
Before(a, b) == a[1] < b[1] \/ (a[1] = b[1] /\ a[2] < b[2])

InOrder(S) == SetToSortSeq(S, Before)

\* The smallest of some ids.
FirstId(S) == CHOOSE a \in S : \A b \in S : a = b \/ Before(a, b)

\* expandVersion: a version with everything before it.
Closure(h, version) == version \cup UNION {h[e].past : e \in version}

\* The frontier of a set of events: those nothing in it follows.
Heads(h, events) == {e \in events : \A d \in events : e \notin h[d].past}

\* The frontier of the first k events of a graph.
HeadsAt(h, graph, k) == Heads(h, ToSet(SubSeq(graph, 1, k)))

-----------------------------------------------------------------------------
(* Orders. *)

\* moveIdRunContinuationFirst: the same author's next event, if it is ready.
RunsFirst(ready, last) ==
  LET next == <<last[1], last[2] + 1>>
  IN IF next \in ready THEN <<next>> \o InOrder(ready \ {next}) ELSE InOrder(ready)

\* orderMembers and branchPreservingOrderOffsets: a branch is followed until it merges or
\* ends.  The order EGW4 payloads use follows, where branches start, the last author first.
BranchOrder(h, events, keepRuns) ==
  LET step(walk, i) ==
        LET e == Head(walk.stack)
            order == Append(walk.order, e)
            ready == {c \in events : /\ e \in h[c].parents
                                     /\ h[c].parents \cap events \subseteq ToSet(order)}
        IN [order |-> order,
            stack |-> (IF keepRuns THEN RunsFirst(ready, e) ELSE InOrder(ready)) \o Tail(walk.stack)]
      roots == {e \in events : h[e].parents \cap events = {}}
  IN FoldLeft(step, [order |-> <<>>, stack |-> InOrder(roots)],
              [i \in 1 .. Cardinality(events) |-> i]).order

ReplayOrder(h, events) == BranchOrder(h, events, FALSE)
EncodingOrder(h, events) == BranchOrder(h, events, TRUE)

-----------------------------------------------------------------------------
(* Critical versions. *)

\* planInsertionSuffixSections: the first k events are a critical cut when every event whose
\* parents are all among them has their whole frontier as parents.
IsCut(h, graph, k) ==
  LET prefix == ToSet(SubSeq(graph, 1, k))
      heads == Heads(h, prefix)
  IN \A i \in k + 1 .. Len(graph) :
       h[graph[i]].parents \subseteq prefix => heads \subseteq h[graph[i]].parents

\* The cuts after the first k events, in order; the last one is the whole graph.
CutsAfter(h, graph, k) == SelectSeq([i \in 1 .. Len(graph) |-> i],
                                    LAMBDA c : c > k /\ IsCut(h, graph, c))

\* A section between two cuts without concurrency: one event, as each event of a chain is a cut.
IsLinear(h, graph, from, to) ==
  /\ to = from + 1
  /\ h[graph[to]].parents = HeadsAt(h, graph, from)

\* isInsertionSuffixDominatedBy: the version is the frontier of the first `count' events,
\* and the events not validated yet, after `validated', all follow the whole of it.
IsDominated(h, graph, version, count, validated) ==
  /\ version \subseteq ToSet(SubSeq(graph, 1, count))
  /\ graph[count] \in version
  /\ \A i \in validated + 1 .. Len(graph) :
       \/ \E j \in count + 1 .. i - 1 : graph[j] \in h[graph[i]].parents
       \/ version \subseteq h[graph[i]].parents

=============================================================================
