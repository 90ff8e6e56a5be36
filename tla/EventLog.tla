------------------------------ MODULE EventLog ------------------------------
(***************************************************************************)
(* What the DocumentEventStore interface of packages/collab-runtime        *)
(* promises its callers: one log per document.  An append takes effect at  *)
(* once and as a whole between its call and its return, adds only what the *)
(* log does not hold yet, and only at the end; it may take effect and      *)
(* still fail for its caller.  A reader sees ever longer prefixes.         *)
(***************************************************************************)
EXTENDS Integers, Sequences, Queues

CONSTANTS Docs, Calls, Readers, RequestPool, PageSize, Bootstrap

VARIABLES
  log,     \* the batches of each document, in durable order
  asked,   \* the request of each call
  answer,  \* how each call ended
  seen     \* how much of its document's log each reader holds

vars == <<log, asked, answer, seen>>

Answers == {"none", "pending", "ok", "failed"}

EventIds(batch) == {batch.events[i].id : i \in DOMAIN batch.events}

ExternalParents(batch) ==
  batch.parentVersion \cup
  UNION {batch.events[i].parents \ {batch.events[j].id : j \in 1 .. (i - 1)} :
           i \in DOMAIN batch.events}

\* A sequence of batches a replica can apply one after the other: parents come
\* before children, and no batch id or event id occurs twice.
Applicable(sequence) ==
  \A i \in DOMAIN sequence :
    LET before == {sequence[j] : j \in 1 .. (i - 1)}
        ids == UNION {EventIds(batch) : batch \in before}
    IN  /\ ExternalParents(sequence[i]) \subseteq {Bootstrap} \cup ids
        /\ EventIds(sequence[i]) \cap ids = {}
        /\ \A batch \in before : batch.batchId # sequence[i].batchId

Init ==
  /\ log = [d \in Docs |-> <<>>]
  /\ asked = [c \in Calls |-> [doc |-> CHOOSE d \in Docs : TRUE, batches |-> <<>>]]
  /\ answer = [c \in Calls |-> "none"]
  /\ \E d \in Docs : seen = [x \in Readers |-> [doc |-> d, length |-> 0]]

Ask(c, d, batches) ==
  /\ answer[c] # "pending"
  /\ asked' = [asked EXCEPT ![c] = [doc |-> d, batches |-> batches]]
  /\ answer' = [answer EXCEPT ![c] = "pending"]
  /\ UNCHANGED <<log, seen>>

\* The whole request is in the log from here on.
AppendAll(c) ==
  LET d == asked[c].doc
      longer == With(log[d], asked[c].batches)
  IN  /\ answer[c] = "pending"
      /\ Applicable(longer)
      /\ log' = [log EXCEPT ![d] = longer]
      /\ \E result \in {"ok", "failed"} : answer' = [answer EXCEPT ![c] = result]
      /\ UNCHANGED <<asked, seen>>

Fail(c) ==
  /\ answer[c] = "pending"
  /\ answer' = [answer EXCEPT ![c] = "failed"]
  /\ UNCHANGED <<log, asked, seen>>

Read(x) ==
  LET length == Len(log[seen[x].doc])
  IN  /\ seen' = [seen EXCEPT ![x].length =
                    IF @ + PageSize <= length THEN @ + PageSize ELSE length]
      /\ UNCHANGED <<log, asked, answer>>

Next ==
  \/ \E c \in Calls :
       \/ \E d \in Docs, batches \in RequestPool : Ask(c, d, batches)
       \/ AppendAll(c)
       \/ Fail(c)
  \/ \E x \in Readers : Read(x)

Spec == Init /\ [][Next]_vars
=============================================================================
