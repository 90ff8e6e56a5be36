----------------------------- MODULE EventStore -----------------------------
(***************************************************************************)
(* The durable event log of a document: appendEventBatches and             *)
(* readEventPage of the Nitro host, and the append_document_event_batches  *)
(* and read_document_event_page functions that the Cloudflare host calls.  *)
(* Both write the same tables, so requests of both hosts interleave here.  *)
(*                                                                         *)
(* One append call is a Postgres transaction that takes several steps; the *)
(* transactions of different hosts interleave between those steps.  A      *)
(* batch is a record of its id, its parents and its events; its payload    *)
(* hash is the record itself (SHA-256 taken to be injective).              *)
(***************************************************************************)
EXTENDS Integers, Sequences, FiniteSets

CONSTANTS
  Docs,          \* document ids
  Actors,        \* user ids
  NitroCalls,    \* append calls in progress on Nitro hosts
  RpcCalls,      \* append calls in progress on Cloudflare hosts
  Readers,       \* clients that page through the history
  BatchPool,     \* the event batches clients may submit
  RequestPool,   \* the sequences of batches one request may carry
  Bootstrap,     \* BOOTSTRAP_EVENT_ID, the parent every replica knows
  NoCall,        \* the advisory lock is free
  PageSize,      \* REPAIR_PAGE_SIZE, 100 in the code
  VerifyAttempts,\* CONFLICT_VERIFY_ATTEMPTS, 3 in the code
  MaxCalls,      \* bound: append calls a behaviour may start
  MaxRoleChanges \* bound: membership changes a behaviour may make

Calls == NitroCalls \cup RpcCalls

Roles == {"OWNER", "EDITOR", "VIEWER"}

EventIds(batch) == {batch.events[i].id : i \in DOMAIN batch.events}

\* Every parent the batch names that it does not itself produce earlier.
ExternalParents(batch) ==
  batch.parentVersion \cup
  UNION {batch.events[i].parents \ {batch.events[j].id : j \in 1 .. (i - 1)} :
           i \in DOMAIN batch.events}

ASSUME CallsAssumption ==
  /\ NitroCalls \cap RpcCalls = {}
  /\ NoCall \notin Calls
ASSUME PoolAssumption ==
  /\ Docs # {}
  /\ Actors # {}
  /\ RequestPool \subseteq Seq(BatchPool)
  /\ \A batch \in BatchPool : EventIds(batch) # {}   \* parseBatch refuses the others
ASSUME BoundAssumption ==
  /\ PageSize \in Nat \ {0}
  /\ VerifyAttempts \in Nat \ {0}
  /\ MaxCalls \in Nat
  /\ MaxRoleChanges \in Nat

Row == [id : Nat \ {0}, batch : BatchPool]

Phases == {"idle", "check", "lock", "authorize", "hashes", "scan", "verify"}

Results == {"none", "ok", "unavailable", "authorization",
            "duplicate-incoming-event-id", "missing-parent-history",
            "batch-payload-conflict", "stored-event-id-conflict"}

VARIABLES
  committed,   \* document_event_batches and document_event_ids, committed rows
  nextId,      \* document_event_batches_id_seq, shared by all documents
  lockHolder,  \* pg_advisory_xact_lock of each document
  role,        \* workspace_members.role
  call,        \* the local state of each append call
  reader,      \* the cursor of each client and the batches it has received
  started,     \* append calls started so far
  roleChanges  \* membership changes made so far

vars == <<committed, nextId, lockHolder, role, call, reader, started, roleChanges>>

\* The state of a call that starts with this request.
NewCall(d, a, batches) ==
  [phase |-> "check", doc |-> d, actor |-> a, batches |-> batches, index |-> 1,
   hashes |-> {}, available |-> {}, inserted |-> {}, shared |-> FALSE,
   attempt |-> 0, result |-> "none"]

NeverCalled ==
  [NewCall(CHOOSE d \in Docs : TRUE, CHOOSE a \in Actors : TRUE, <<>>)
     EXCEPT !.phase = "idle"]

-----------------------------------------------------------------------------
(* Derived state. *)

EventsOf(rows) == UNION {EventIds(row.batch) : row \in rows}

\* The rows a transaction sees: what is committed and what it wrote itself.
Visible(c) == committed[call[c].doc] \cup call[c].inserted

InTransaction(c) == call[c].phase \in {"authorize", "hashes", "scan"}

Batch(c) == call[c].batches[call[c].index]

\* The stored batch with this batch id, as the call knows it: Nitro looks all
\* of them up once, the RPC looks each up when its turn comes.
Stored(c) ==
  LET known == IF c \in NitroCalls
               THEN call[c].hashes
               ELSE {row.batch : row \in Visible(c)}
  IN  {batch \in known : batch.batchId = Batch(c).batchId}

\* Mutant: events of later batches of the request count as known.
MissingParentsOfRequest(c) ==
  ExternalParents(Batch(c)) \
    ({Bootstrap} \cup EventsOf(Visible(c)) \cup
     UNION {EventIds(call[c].batches[i]) : i \in DOMAIN call[c].batches})

MissingParents(c) ==
  ExternalParents(Batch(c)) \
    ({Bootstrap} \cup call[c].available \cup EventsOf(Visible(c)))

\* Mutant: no unique index on event ids.
ClashesOfBatchIds(batch, rows) == \E row \in rows : row.batch.batchId = batch.batchId

\* The unique indexes on (document_id, batch_id) and (document_id, event_id).
Clashes(batch, rows) ==
  \/ \E row \in rows : row.batch.batchId = batch.batchId
  \/ EventIds(batch) \cap EventsOf(rows) # {}

-----------------------------------------------------------------------------
Init ==
  /\ committed = [d \in Docs |-> {}]
  /\ nextId = 1
  /\ lockHolder = [d \in Docs |-> NoCall]
  /\ role \in [Actors -> Roles]
  /\ call = [c \in Calls |-> NeverCalled]
  /\ \E d \in Docs :
       reader = [x \in Readers |-> [doc |-> d, cursor |-> 0, got |-> {}, complete |-> FALSE]]
  /\ started = 0
  /\ roleChanges = 0

Becomes(c, callRecord) == call' = [call EXCEPT ![c] = callRecord]

Unlock(c) == lockHolder' = [d \in Docs |-> IF lockHolder[d] = c THEN NoCall ELSE lockHolder[d]]

\* The call ends without a transaction of its own left open: an open one is
\* rolled back, which releases its locks and drops its rows.
Finish(c, result) ==
  /\ Becomes(c, [call[c] EXCEPT !.phase = "idle", !.result = result,
                                !.inserted = {}, !.shared = FALSE])
  /\ Unlock(c)

Submit(c, d, a, batches) ==
  /\ call[c].phase = "idle"
  /\ started < MaxCalls
  /\ started' = started + 1
  /\ Becomes(c, NewCall(d, a, batches))
  /\ UNCHANGED <<committed, nextId, lockHolder, role, reader, roleChanges>>

\* Event ids must be unique in the request: checked before any transaction.  The requests
\* of the model have the size and the shape that the checks before this one ask for.
CheckIncoming(c) ==
  /\ call[c].phase = "check"
  /\ LET batches == call[c].batches
         distinct == \A i, j \in DOMAIN batches :
                       /\ i # j => EventIds(batches[i]) \cap EventIds(batches[j]) = {}
                       /\ Cardinality(EventIds(batches[i])) = Len(batches[i].events)
     IN  IF distinct
         THEN /\ Becomes(c, [call[c] EXCEPT !.phase = "lock"])
              /\ UNCHANGED lockHolder
         ELSE Finish(c, "duplicate-incoming-event-id")
  /\ UNCHANGED <<committed, nextId, role, reader, started, roleChanges>>

\* Mutant: the two hosts hash the document id to different lock keys.
AcquireLockOfHost(c) ==
  /\ call[c].phase = "lock"
  /\ lockHolder[call[c].doc] \notin IF c \in NitroCalls THEN NitroCalls ELSE RpcCalls
  /\ lockHolder' = [lockHolder EXCEPT ![call[c].doc] = c]
  /\ Becomes(c, [call[c] EXCEPT !.phase = "authorize"])
  /\ UNCHANGED <<committed, nextId, role, reader, started, roleChanges>>

\* lockDocumentEventLog: held until the transaction ends.
AcquireLock(c) ==
  /\ call[c].phase = "lock"
  /\ lockHolder[call[c].doc] = NoCall
  /\ lockHolder' = [lockHolder EXCEPT ![call[c].doc] = c]
  /\ Becomes(c, [call[c] EXCEPT !.phase = "authorize"])
  /\ UNCHANGED <<committed, nextId, role, reader, started, roleChanges>>

\* Only Nitro asks for the stored hashes of the whole request beforehand.
AfterAuthorization(c) == IF c \in NitroCalls THEN "hashes" ELSE "scan"

\* Mutant: the membership row is read without FOR SHARE.
AuthorizeWithoutShare(c) ==
  /\ call[c].phase = "authorize"
  /\ IF role[call[c].actor] \in {"OWNER", "EDITOR"}
     THEN /\ Becomes(c, [call[c] EXCEPT !.phase = AfterAuthorization(c)])
          /\ UNCHANGED lockHolder
     ELSE Finish(c, "authorization")
  /\ UNCHANGED <<committed, nextId, role, reader, started, roleChanges>>

\* The role is read under FOR SHARE, so it cannot change before the commit.
AuthorizeWrite(c) ==
  /\ call[c].phase = "authorize"
  /\ IF role[call[c].actor] \in {"OWNER", "EDITOR"}
     THEN /\ Becomes(c, [call[c] EXCEPT !.phase = AfterAuthorization(c), !.shared = TRUE])
          /\ UNCHANGED lockHolder
     ELSE Finish(c, "authorization")
  /\ UNCHANGED <<committed, nextId, role, reader, started, roleChanges>>

\* existingBatchHashes, one query for the whole request (Nitro).
LoadHashes(c) ==
  /\ call[c].phase = "hashes"
  /\ Becomes(c, [call[c] EXCEPT !.phase = "scan",
                                !.hashes = {row.batch : row \in committed[call[c].doc]}])
  /\ UNCHANGED <<committed, nextId, lockHolder, role, reader, started, roleChanges>>

NextBatch(c, rows) ==
  Becomes(c, [call[c] EXCEPT !.index = @ + 1,
                             !.inserted = @ \cup rows,
                             !.available = @ \cup EventIds(Batch(c))])

\* What the caller learns, or does next, when an insert clashes: Nitro looks
\* whether the request is in fact stored already, the RPC reports the conflict.
Violated(c) ==
  IF c \in NitroCalls
  THEN [call[c] EXCEPT !.phase = "verify", !.inserted = {}, !.shared = FALSE]
  ELSE [call[c] EXCEPT !.phase = "idle", !.inserted = {}, !.shared = FALSE,
          !.result = IF \E row \in Visible(c) : row.batch.batchId = Batch(c).batchId
                     THEN "batch-payload-conflict" ELSE "stored-event-id-conflict"]

\* Mutant: a session lock (pg_advisory_lock) outlives the failed transaction.
UniqueViolationKeepsLock(c) == Becomes(c, Violated(c)) /\ UNCHANGED lockHolder

\* A unique violation ends the transaction.
UniqueViolation(c) == Becomes(c, Violated(c)) /\ Unlock(c)

\* One iteration of the loop over the request's batches.
ScanBatch(c) ==
  /\ call[c].phase = "scan"
  /\ call[c].index \in DOMAIN call[c].batches
  /\ \/ /\ MissingParents(c) # {}
        /\ Finish(c, "missing-parent-history")
        /\ UNCHANGED nextId
     \/ /\ MissingParents(c) = {}
        /\ Stored(c) \notin {{}, {Batch(c)}}
        /\ Finish(c, "batch-payload-conflict")
        /\ UNCHANGED nextId
     \/ /\ MissingParents(c) = {}
        /\ Stored(c) = {Batch(c)}
        /\ NextBatch(c, {})
        /\ UNCHANGED <<nextId, lockHolder>>
     \/ /\ MissingParents(c) = {}
        /\ Stored(c) = {}
        \* an index entry another open transaction holds makes the insert wait
        /\ \A other \in Calls \ {c} :
             call[other].doc = call[c].doc => ~Clashes(Batch(c), call[other].inserted)
        /\ IF Clashes(Batch(c), Visible(c))
           THEN UniqueViolation(c)
           ELSE /\ NextBatch(c, {[id |-> nextId, batch |-> Batch(c)]})
                /\ UNCHANGED lockHolder
        /\ nextId' = nextId + 1   \* nextval is not undone by a rollback
  /\ UNCHANGED <<committed, role, reader, started, roleChanges>>

\* The transaction commits.  The reply may be lost after that, and the caller
\* then learns no more than that the store was unavailable.
Commit(c) ==
  /\ call[c].phase = "scan"
  /\ call[c].index \notin DOMAIN call[c].batches
  /\ committed' = [committed EXCEPT ![call[c].doc] = @ \cup call[c].inserted]
  /\ \E result \in {"ok", "unavailable"} : Finish(c, result)
  /\ UNCHANGED <<nextId, role, reader, started, roleChanges>>

\* Mutant: the rows were written outside the transaction and stay.
AbortKeepsRows(c) ==
  /\ InTransaction(c) \/ call[c].phase = "lock"
  /\ committed' = [committed EXCEPT ![call[c].doc] = @ \cup call[c].inserted]
  /\ Finish(c, "unavailable")
  /\ UNCHANGED <<nextId, role, reader, started, roleChanges>>

\* APPEND_TRANSACTION_TIMEOUT_MS, a lost connection or a crashed host: what
\* the transaction did is rolled back.  The queries that verify after a
\* unique violation may throw as well.
AbortTransaction(c) ==
  /\ InTransaction(c) \/ call[c].phase \in {"lock", "verify"}
  /\ Finish(c, "unavailable")
  /\ UNCHANGED <<committed, nextId, role, reader, started, roleChanges>>

\* Mutant: one attempt too many.
VerifyOnceMore(c) ==
  /\ call[c].phase = "verify"
  /\ LET stored == {row.batch : row \in committed[call[c].doc]}
     IN  IF \A i \in DOMAIN call[c].batches : call[c].batches[i] \in stored
         THEN Finish(c, "ok")
         ELSE IF call[c].attempt = VerifyAttempts
              THEN Finish(c, "stored-event-id-conflict")
              ELSE /\ Becomes(c, [call[c] EXCEPT !.attempt = @ + 1])
                   /\ UNCHANGED lockHolder
  /\ UNCHANGED <<committed, nextId, role, reader, started, roleChanges>>

\* Mutant: the stored ids are compared, not the payload hashes.
VerifyBatchIds(c) ==
  /\ call[c].phase = "verify"
  /\ LET stored == {row.batch.batchId : row \in committed[call[c].doc]}
     IN  IF \A i \in DOMAIN call[c].batches : call[c].batches[i].batchId \in stored
         THEN Finish(c, "ok")
         ELSE Finish(c, "stored-event-id-conflict")
  /\ UNCHANGED <<committed, nextId, role, reader, started, roleChanges>>

\* verifyExistingBatchesWithRetry, one attempt, outside any transaction.
VerifyStored(c) ==
  /\ call[c].phase = "verify"
  /\ LET stored == {row.batch : row \in committed[call[c].doc]}
     IN  IF \A i \in DOMAIN call[c].batches : call[c].batches[i] \in stored
         THEN Finish(c, "ok")
         ELSE IF call[c].attempt + 1 = VerifyAttempts
              THEN Finish(c, "stored-event-id-conflict")
              ELSE /\ Becomes(c, [call[c] EXCEPT !.attempt = @ + 1])
                   /\ UNCHANGED lockHolder
  /\ UNCHANGED <<committed, nextId, role, reader, started, roleChanges>>

\* A member's role is edited.  The update waits for transactions that hold
\* the row FOR SHARE.
ChangeRole(a, newRole) ==
  /\ roleChanges < MaxRoleChanges
  /\ newRole # role[a]
  /\ ~\E c \in Calls : call[c].shared /\ call[c].actor = a
  /\ role' = [role EXCEPT ![a] = newRole]
  /\ roleChanges' = roleChanges + 1
  /\ UNCHANGED <<committed, nextId, lockHolder, call, reader, started>>

-----------------------------------------------------------------------------
(* Repair reads: rows strictly after the cursor, lowest ids first.         *)

RowsAfter(d, cursor) == {row \in committed[d] : row.id > cursor}

\* The first PageSize of these rows, or all of them when there are fewer.
IsPage(page, rows) ==
  /\ \A row \in page, later \in rows \ page : row.id < later.id
  /\ Cardinality(page) <= PageSize
  /\ page = rows \/ Cardinality(page) = PageSize

Received(x, page, last, rows) ==
  [reader[x] EXCEPT !.cursor = last.id, !.got = @ \cup page, !.complete = (page = rows)]

ReadPage(x) ==
  LET rows == RowsAfter(reader[x].doc, reader[x].cursor)
  IN  \E page \in SUBSET rows :
        /\ IsPage(page, rows)
        /\ \/ /\ page = {}
              /\ reader' = [reader EXCEPT ![x] = [@ EXCEPT !.complete = TRUE]]
           \/ \E last \in page :
                /\ \A row \in page : row.id <= last.id
                /\ reader' = [reader EXCEPT ![x] = Received(x, page, last, rows)]
        /\ UNCHANGED <<committed, nextId, lockHolder, role, call, started, roleChanges>>

AppendStep(c) ==
  \/ CheckIncoming(c)
  \/ AcquireLock(c)
  \/ AuthorizeWrite(c)
  \/ LoadHashes(c)
  \/ ScanBatch(c)
  \/ Commit(c)
  \/ VerifyStored(c)

Next ==
  \/ \E c \in Calls :
       \/ \E d \in Docs, a \in Actors, batches \in RequestPool : Submit(c, d, a, batches)
       \/ AppendStep(c)
       \/ AbortTransaction(c)
  \/ \E a \in Actors, newRole \in Roles : ChangeRole(a, newRole)
  \/ \E x \in Readers : ReadPage(x)

Spec == Init /\ [][Next]_vars

\* A host runs its append to the end; Postgres grants the advisory lock in
\* turn, so a waiting transaction is not overtaken for ever.
FairSpec ==
  /\ Spec
  /\ \A c \in Calls : WF_vars(AppendStep(c)) /\ SF_vars(AcquireLock(c))

-----------------------------------------------------------------------------
(* Properties. *)

CallRecord ==
  [phase : Phases, doc : Docs, actor : Actors,
   batches : RequestPool \cup {<<>>}, index : Nat \ {0},
   hashes : SUBSET BatchPool,
   available : SUBSET UNION {EventIds(b) : b \in BatchPool},
   inserted : SUBSET Row, shared : BOOLEAN,
   attempt : 0 .. (VerifyAttempts - 1), result : Results]

ReaderRecord == [doc : Docs, cursor : Nat, got : SUBSET Row, complete : BOOLEAN]

\* Every variable holds values the code can produce: in particular a call
\* verifies a failed insert at most VerifyAttempts times.
TypeOK ==
  /\ committed \in [Docs -> SUBSET Row]
  /\ nextId \in Nat \ {0}
  /\ lockHolder \in [Docs -> Calls \cup {NoCall}]
  /\ role \in [Actors -> Roles]
  /\ call \in [Calls -> CallRecord]
  /\ reader \in [Readers -> ReaderRecord]
  /\ started \in Nat
  /\ roleChanges \in Nat

\* Read in cursor order, a document's history names no event before the batch
\* that produces it: whatever page a client stops at, it can apply what it
\* has.  (MissingParentHistory; the parent check, the order of ids and the
\* atomicity of a request all carry it.)
CausalHistory ==
  \A d \in Docs : \A row \in committed[d] :
    ExternalParents(row.batch) \subseteq
      {Bootstrap} \cup EventsOf({r \in committed[d] : r.id < row.id})

\* A batch id stands for one payload and an event id for one batch, for ever.
UniqueHistory ==
  \A d \in Docs : \A r, s \in committed[d] :
    \/ r.batch.batchId = s.batch.batchId
    \/ EventIds(r.batch) \cap EventIds(s.batch) # {}
    => r = s

\* A client that pages through the history with its cursor has received every
\* committed row up to the cursor: no transaction commits a row behind it.
\* (The id sequence is not transactional; only the per-document lock orders
\* the ids of one document like its commits.)
NoRowBehindCursor ==
  \A x \in Readers :
    reader[x].got = {row \in committed[reader[x].doc] : row.id <= reader[x].cursor}

\* append resolves only when every batch of the request is durable with
\* exactly the payload that was sent.
AcknowledgedIsDurable ==
  \A c \in Calls : call[c].result = "ok" =>
    \A i \in DOMAIN call[c].batches :
      \E row \in committed[call[c].doc] : row.batch = call[c].batches[i]

\* History grows only by what its writer may write: the rows a step adds are
\* one open transaction's, whose actor is an owner or an editor at that moment.
CommitIsAuthorized ==
  [][\A d \in Docs : committed'[d] # committed[d] =>
       \E c \in Calls : /\ call[c].doc = d
                        /\ committed'[d] = committed[d] \cup call[c].inserted
                        /\ role[call[c].actor] \in {"OWNER", "EDITOR"}]_vars

\* Every append call returns, whoever holds the lock when it starts.
AppendReturns ==
  \A c \in Calls : call[c].phase # "idle" ~> call[c].phase = "idle"
=============================================================================
