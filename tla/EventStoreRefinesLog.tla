------------------------ MODULE EventStoreRefinesLog ------------------------
(***************************************************************************)
(* EventStore implements EventLog: a document's log is its committed rows  *)
(* in the order of their ids.                                              *)
(***************************************************************************)
EXTENDS EventStore

RowAt(rows, i) == CHOOSE row \in rows : Cardinality({r \in rows : r.id < row.id}) = i - 1

LogOf(d) ==
  [i \in 1 .. Cardinality(committed[d]) |-> RowAt(committed[d], i).batch]

AnswerOf(c) ==
  IF call[c].phase # "idle" THEN "pending"
  ELSE IF call[c].result \in {"none", "ok"} THEN call[c].result
  ELSE "failed"

Log == INSTANCE EventLog WITH
  log    <- [d \in Docs |-> LogOf(d)],
  asked  <- [c \in Calls |-> [doc |-> call[c].doc, batches |-> call[c].batches]],
  answer <- [c \in Calls |-> AnswerOf(c)],
  seen   <- [x \in Readers |-> [doc |-> reader[x].doc, length |-> Cardinality(reader[x].got)]]

\* Whatever the hosts interleave, lose or retry, their callers see one log:
\* appends that are atomic, idempotent and in causal order, and pages that
\* are prefixes of it (the DocumentEventStore contract of event-store.ts).
ImplementsEventLog == Log!Spec
=============================================================================
