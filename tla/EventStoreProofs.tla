-------------------------- MODULE EventStoreProofs --------------------------
(***************************************************************************)
(* Proofs about EventStore, for any set of documents, actors, hosts,       *)
(* readers, batches and requests.                                          *)
(***************************************************************************)
EXTENDS EventStoreRefinesLog, QueueProofs, TLAPS, FiniteSetTheorems

-----------------------------------------------------------------------------
(* The inductive invariant, in parts. *)

\* The holder of a document's lock is the one call in a transaction on it.
LockInv ==
  /\ \A c \in Calls : InTransaction(c) => lockHolder[call[c].doc] = c
  /\ \A d \in Docs : lockHolder[d] # NoCall =>
       InTransaction(lockHolder[d]) /\ call[lockHolder[d]].doc = d

\* The loop over the batches has not begun.
Unscanned(r) == r.index = 1 /\ r.available = {} /\ r.hashes = {}

\* What an open transaction relies on until it commits.
TransactionInv(c) ==
  /\ call[c].inserted # {} => call[c].phase = "scan"
  /\ call[c].shared => InTransaction(c)
  /\ call[c].phase \in {"hashes", "scan"} =>
       call[c].shared /\ role[call[c].actor] \in {"OWNER", "EDITOR"}
  /\ call[c].phase \in {"check", "lock"} => Unscanned(call[c])

\* A transaction's rows come after every row of the document committed so far.
IdInv(c) ==
  \A row \in call[c].inserted :
    /\ row.id < nextId
    /\ \A old \in committed[call[c].doc] : old.id < row.id

\* What a transaction sees is causal and unique, not only what is committed.
VisibleInv(c) ==
  /\ \A row \in call[c].inserted :
       ExternalParents(row.batch) \subseteq
         {Bootstrap} \cup EventsOf({r \in Visible(c) : r.id < row.id})
  /\ \A r, s \in Visible(c) :
       \/ r.batch.batchId = s.batch.batchId
       \/ EventIds(r.batch) \cap EventIds(s.batch) # {}
       => r = s

\* What the loop has already gone over is stored.
ScanInv(c) ==
  InTransaction(c) =>
    /\ call[c].available \subseteq EventsOf(Visible(c))
    /\ call[c].hashes \subseteq {row.batch : row \in committed[call[c].doc]}
    /\ \A i \in DOMAIN call[c].batches : i < call[c].index =>
         \E row \in Visible(c) : row.batch = call[c].batches[i]

DurableInv(c) ==
  call[c].result = "ok" =>
    \A i \in DOMAIN call[c].batches :
      \E row \in committed[call[c].doc] : row.batch = call[c].batches[i]

CallInv(c) ==
  TransactionInv(c) /\ IdInv(c) /\ VisibleInv(c) /\ ScanInv(c) /\ DurableInv(c)

\* Committed ids come from the sequence.
RowIdInv == \A d \in Docs : \A row \in committed[d] : row.id < nextId

\* A cursor is 0 or the id of a row.
CursorInv ==
  \A x \in Readers :
    \/ reader[x].cursor = 0
    \/ \E row \in committed[reader[x].doc] : row.id = reader[x].cursor

IInv ==
  /\ TypeOK
  /\ LockInv
  /\ \A c \in Calls : CallInv(c)
  /\ RowIdInv
  /\ CausalHistory
  /\ UniqueHistory
  /\ CursorInv
  /\ NoRowBehindCursor

-----------------------------------------------------------------------------
(* Type correctness. *)

\* A request is a sequence of batches of the pool.
LEMMA BatchesType ==
  ASSUME TypeOK, NEW c \in Calls
  PROVE  call[c].batches \in Seq(BatchPool)
  <1>1. call[c].batches \in RequestPool \cup {<<>>}
    BY DEF TypeOK, CallRecord
  <1>2. <<>> \in Seq(BatchPool)
    OBVIOUS
  <1>3. ASSUME NEW batches, batches \in RequestPool \cup {<<>>} PROVE batches \in Seq(BatchPool)
    BY <1>2, <1>3, PoolAssumption
  <1> QED
    BY <1>1, <1>3

\* The batch whose turn it is comes from the pool.
LEMMA BatchInPool ==
  ASSUME TypeOK, NEW c \in Calls, call[c].index \in DOMAIN call[c].batches
  PROVE  Batch(c) \in BatchPool
  BY BatchesType DEF Batch

\* A new call has the shape of a call.
LEMMA NewCallType ==
  ASSUME NEW d \in Docs, NEW a \in Actors, NEW batches \in RequestPool \cup {<<>>}
  PROVE  NewCall(d, a, batches) \in CallRecord
  BY BoundAssumption DEF NewCall, CallRecord, Phases, Results

\* The initial states are well typed.
LEMMA TypeInit == Init => TypeOK
  <1> SUFFICES ASSUME Init PROVE TypeOK
    OBVIOUS
  <1>1. NeverCalled \in CallRecord
    <2>1. (CHOOSE d \in Docs : TRUE) \in Docs /\ (CHOOSE a \in Actors : TRUE) \in Actors
      BY PoolAssumption
    <2>2. NewCall(CHOOSE d \in Docs : TRUE, CHOOSE a \in Actors : TRUE, <<>>) \in CallRecord
      BY <2>1, NewCallType
    <2> QED
      BY <2>2 DEF NeverCalled, CallRecord, Phases
  <1>2. call \in [Calls -> CallRecord]
    BY <1>1 DEF Init
  <1>3. reader \in [Readers -> ReaderRecord]
    BY DEF Init, ReaderRecord
  <1>4. committed \in [Docs -> SUBSET Row] /\ lockHolder \in [Docs -> Calls \cup {NoCall}]
    BY DEF Init
  <1> QED
    <2>1. nextId \in Nat \ {0} /\ started \in Nat /\ roleChanges \in Nat /\ role \in [Actors -> Roles]
      BY DEF Init
    <2> QED
      BY <1>2, <1>3, <1>4, <2>1 DEF TypeOK

\* A call that becomes a call record stays one.
LEMMA BecomesType ==
  ASSUME TypeOK, NEW c \in Calls, NEW r \in CallRecord, Becomes(c, r)
  PROVE  call' \in [Calls -> CallRecord] /\ call'[c] = r
  BY DEF TypeOK, Becomes

\* The end of a call keeps the types.
LEMMA FinishType ==
  ASSUME TypeOK, NEW c \in Calls, NEW result \in Results, Finish(c, result)
  PROVE  call' \in [Calls -> CallRecord] /\ lockHolder' \in [Docs -> Calls \cup {NoCall}]
  <1>1. [call[c] EXCEPT !.phase = "idle", !.result = result, !.inserted = {}, !.shared = FALSE]
          \in CallRecord
    <2>1. call[c] \in CallRecord
      BY DEF TypeOK
    <2> QED
      BY <2>1 DEF CallRecord, Phases
  <1>2. lockHolder' \in [Docs -> Calls \cup {NoCall}]
    BY DEF TypeOK, Finish, Unlock
  <1> QED
    BY <1>1, <1>2, BecomesType DEF Finish

\* Every step keeps the types.
LEMMA TypeNext == TypeOK /\ [Next]_vars => TypeOK'
  <1> SUFFICES ASSUME TypeOK, [Next]_vars PROVE TypeOK'
    OBVIOUS
  <1>0. \A c \in Calls : call[c] \in CallRecord
    BY DEF TypeOK
  <1>1. ASSUME NEW c \in Calls, NEW d \in Docs, NEW a \in Actors, NEW batches \in RequestPool,
               Submit(c, d, a, batches)
        PROVE  TypeOK'
    BY <1>1, NewCallType, BecomesType DEF Submit, TypeOK
  <1>2. ASSUME NEW c \in Calls, CheckIncoming(c) PROVE TypeOK'
    <2>1. CASE Finish(c, "duplicate-incoming-event-id")
      BY <1>2, <2>1, FinishType DEF CheckIncoming, TypeOK, Results
    <2>2. CASE Becomes(c, [call[c] EXCEPT !.phase = "lock"]) /\ UNCHANGED lockHolder
      <3>1. [call[c] EXCEPT !.phase = "lock"] \in CallRecord
        BY <1>0 DEF CallRecord, Phases
      <3> QED
        BY <1>2, <2>2, <3>1, BecomesType DEF CheckIncoming, TypeOK
    <2> QED
      BY <1>2, <2>1, <2>2 DEF CheckIncoming
  <1>3. ASSUME NEW c \in Calls, AcquireLock(c) PROVE TypeOK'
    <2>1. [call[c] EXCEPT !.phase = "authorize"] \in CallRecord
      BY <1>0 DEF CallRecord, Phases
    <2> QED
      BY <1>3, <2>1, BecomesType DEF AcquireLock, TypeOK
  <1>4. ASSUME NEW c \in Calls, AuthorizeWrite(c) PROVE TypeOK'
    <2>1. CASE Finish(c, "authorization")
      BY <1>4, <2>1, FinishType DEF AuthorizeWrite, TypeOK, Results
    <2>2. CASE /\ Becomes(c, [call[c] EXCEPT !.phase = AfterAuthorization(c), !.shared = TRUE])
               /\ UNCHANGED lockHolder
      <3>1. [call[c] EXCEPT !.phase = AfterAuthorization(c), !.shared = TRUE] \in CallRecord
        <4>1. AfterAuthorization(c) \in Phases
          BY DEF AfterAuthorization, Phases
        <4> QED
          BY <4>1, <1>0 DEF CallRecord
      <3> QED
        BY <1>4, <2>2, <3>1, BecomesType DEF AuthorizeWrite, TypeOK
    <2> QED
      BY <1>4, <2>1, <2>2 DEF AuthorizeWrite
  <1>5. ASSUME NEW c \in Calls, LoadHashes(c) PROVE TypeOK'
    <2> DEFINE stored == {row.batch : row \in committed[call[c].doc]}
    <2>1. stored \subseteq BatchPool
      <3>1. call[c].doc \in Docs
        BY <1>0 DEF CallRecord
      <3>2. committed[call[c].doc] \subseteq Row
        BY <3>1 DEF TypeOK
      <3> QED
        BY <3>2 DEF Row
    <2> HIDE DEF stored
    <2>2. [call[c] EXCEPT !.phase = "scan", !.hashes = stored] \in CallRecord
      BY <2>1, <1>0 DEF CallRecord, Phases
    <2>3. Becomes(c, [call[c] EXCEPT !.phase = "scan", !.hashes = stored])
      BY <1>5 DEF LoadHashes, stored
    <2> QED
      BY <1>5, <2>2, <2>3, BecomesType DEF LoadHashes, TypeOK
  <1>6. ASSUME NEW c \in Calls, ScanBatch(c) PROVE TypeOK'
    <2>1. Batch(c) \in BatchPool
      BY <1>6, BatchInPool DEF ScanBatch
    <2>2. EventIds(Batch(c)) \subseteq UNION {EventIds(b) : b \in BatchPool}
      BY <2>1
    <2>3. ASSUME NEW rows \in SUBSET Row, NextBatch(c, rows) PROVE call' \in [Calls -> CallRecord]
      <3>1. [call[c] EXCEPT !.index = @ + 1, !.inserted = @ \cup rows,
                            !.available = @ \cup EventIds(Batch(c))] \in CallRecord
        <4>1. call[c].index + 1 \in Nat \ {0}
          BY <1>0 DEF CallRecord
        <4>2. call[c].inserted \cup rows \in SUBSET Row
          BY <1>0 DEF CallRecord
        <4>3. call[c].available \cup EventIds(Batch(c)) \in SUBSET UNION {EventIds(b) : b \in BatchPool}
          BY <2>2, <1>0 DEF CallRecord
        <4> QED
          BY <4>1, <4>2, <4>3, <1>0 DEF CallRecord
      <3> QED
        BY <2>3, <3>1, BecomesType DEF NextBatch
    <2>4. ASSUME UniqueViolation(c)
          PROVE  call' \in [Calls -> CallRecord] /\ lockHolder' \in [Docs -> Calls \cup {NoCall}]
      <3>1. Violated(c) \in CallRecord
        BY <1>0 DEF Violated, CallRecord, Phases, Results
      <3>2. lockHolder' \in [Docs -> Calls \cup {NoCall}]
        BY <2>4 DEF UniqueViolation, Unlock, TypeOK
      <3> QED
        BY <2>4, <3>1, <3>2, BecomesType DEF UniqueViolation
    <2>5. nextId' \in Nat \ {0}
      BY <1>6 DEF ScanBatch, TypeOK
    <2>6. call' \in [Calls -> CallRecord] /\ lockHolder' \in [Docs -> Calls \cup {NoCall}]
      <3>1. CASE Finish(c, "missing-parent-history") \/ Finish(c, "batch-payload-conflict")
        BY <3>1, FinishType DEF Results
      <3>2. CASE NextBatch(c, {}) /\ UNCHANGED lockHolder
        BY <3>2, <2>3 DEF TypeOK
      <3>3. CASE UniqueViolation(c)
        BY <3>3, <2>4
      <3>4. CASE NextBatch(c, {[id |-> nextId, batch |-> Batch(c)]}) /\ UNCHANGED lockHolder
        <4>1. {[id |-> nextId, batch |-> Batch(c)]} \in SUBSET Row
          BY <2>1 DEF Row, TypeOK
        <4> QED
          BY <4>1, <3>4, <2>3 DEF TypeOK
      <3> QED
        BY <1>6, <3>1, <3>2, <3>3, <3>4 DEF ScanBatch
    <2> QED
      BY <1>6, <2>5, <2>6 DEF ScanBatch, TypeOK
  <1>7. ASSUME NEW c \in Calls, Commit(c) PROVE TypeOK'
    <2>1. PICK result \in {"ok", "unavailable"} : Finish(c, result)
      BY <1>7 DEF Commit
    <2>2. call' \in [Calls -> CallRecord] /\ lockHolder' \in [Docs -> Calls \cup {NoCall}]
      BY <2>1, FinishType DEF Results
    <2>3. call[c].inserted \subseteq Row
      BY <1>0 DEF CallRecord
    <2>4. committed' \in [Docs -> SUBSET Row]
      BY <1>7, <2>3 DEF Commit, TypeOK
    <2> QED
      BY <1>7, <2>2, <2>4 DEF Commit, TypeOK
  <1>8. ASSUME NEW c \in Calls, VerifyStored(c) PROVE TypeOK'
    <2>1. CASE Finish(c, "ok") \/ Finish(c, "stored-event-id-conflict")
      BY <1>8, <2>1, FinishType DEF VerifyStored, TypeOK, Results
    <2>2. CASE /\ call[c].attempt + 1 # VerifyAttempts
               /\ Becomes(c, [call[c] EXCEPT !.attempt = @ + 1])
               /\ UNCHANGED lockHolder
      <3>1. call[c].attempt + 1 \in 0 .. (VerifyAttempts - 1)
        BY <2>2, <1>0, BoundAssumption DEF CallRecord
      <3>2. [call[c] EXCEPT !.attempt = @ + 1] \in CallRecord
        BY <3>1, <1>0 DEF CallRecord
      <3> QED
        BY <1>8, <2>2, <3>2, BecomesType DEF VerifyStored, TypeOK
    <2> QED
      BY <1>8, <2>1, <2>2 DEF VerifyStored
  <1>9. ASSUME NEW c \in Calls, AbortTransaction(c) PROVE TypeOK'
    BY <1>9, FinishType DEF AbortTransaction, TypeOK, Results
  <1>10. ASSUME NEW a \in Actors, NEW newRole \in Roles, ChangeRole(a, newRole) PROVE TypeOK'
    BY <1>10 DEF ChangeRole, TypeOK
  <1>11. ASSUME NEW x \in Readers, ReadPage(x) PROVE TypeOK'
    <2> DEFINE rows == RowsAfter(reader[x].doc, reader[x].cursor)
    <2>1. reader[x] \in ReaderRecord
      BY DEF TypeOK
    <2>2. rows \subseteq Row
      <3>1. reader[x].doc \in Docs
        BY <2>1 DEF ReaderRecord
      <3> QED
        BY <3>1 DEF RowsAfter, TypeOK
    <2>3. PICK page \in SUBSET rows :
            \/ reader' = [reader EXCEPT ![x] = [@ EXCEPT !.complete = TRUE]]
            \/ \E last \in page :
                 reader' = [reader EXCEPT ![x] = Received(x, page, last, rows)]
      BY <1>11 DEF ReadPage
    <2>4. [reader[x] EXCEPT !.complete = TRUE] \in ReaderRecord
      BY <2>1 DEF ReaderRecord
    <2>5. ASSUME NEW last \in page
          PROVE  Received(x, page, last, rows) \in ReaderRecord
      <3>1. last.id \in Nat /\ page \subseteq Row
        BY <2>2 DEF Row
      <3> HIDE DEF rows
      <3>2. (page = rows) \in BOOLEAN
        OBVIOUS
      <3> QED
        BY <2>1, <3>1, <3>2 DEF ReaderRecord, Received
    <2> HIDE DEF rows
    <2>6. reader' \in [Readers -> ReaderRecord]
      <3>1. ASSUME NEW r \in ReaderRecord, reader' = [reader EXCEPT ![x] = r]
            PROVE  reader' \in [Readers -> ReaderRecord]
        BY <3>1 DEF TypeOK
      <3>2. CASE reader' = [reader EXCEPT ![x] = [@ EXCEPT !.complete = TRUE]]
        BY <3>2, <3>1, <2>4
      <3>3. CASE \E last \in page :
                   reader' = [reader EXCEPT ![x] = Received(x, page, last, rows)]
        BY <3>3, <3>1, <2>5
      <3> QED
        BY <2>3, <3>2, <3>3
    <2> QED
      BY <1>11, <2>6 DEF ReadPage, TypeOK
  <1>12. CASE UNCHANGED vars
    BY <1>12 DEF vars, TypeOK
  <1> QED
    BY <1>1, <1>2, <1>3, <1>4, <1>5, <1>6, <1>7, <1>8, <1>9, <1>10, <1>11, <1>12
    DEF Next, AppendStep

\* Type correctness of the event store: every state of an append call, of a
\* page reader and of the tables is one the code can name.
THEOREM TypeCorrect == Spec => []TypeOK
  BY TypeInit, TypeNext, PTL DEF Spec

-----------------------------------------------------------------------------
(* The inductive invariant. *)

LEMMA InvInit == Init => IInv
  <1> SUFFICES ASSUME Init PROVE IInv
    OBVIOUS
  <1>1. TypeOK
    BY TypeInit
  <1>2. \A c \in Calls : /\ call[c].phase = "idle" /\ call[c].inserted = {}
                         /\ call[c].shared = FALSE /\ call[c].result = "none"
                         /\ call[c].doc \in Docs
    BY <1>1 DEF Init, NeverCalled, NewCall, TypeOK, CallRecord
  <1>3. \A d \in Docs : committed[d] = {} /\ lockHolder[d] = NoCall
    BY DEF Init
  <1>4. LockInv
    BY <1>2, <1>3 DEF LockInv, InTransaction
  <1>5. \A c \in Calls : CallInv(c)
    BY <1>2, <1>3 DEF CallInv, TransactionInv, Unscanned, IdInv, VisibleInv, ScanInv, DurableInv,
                      InTransaction, Visible
  <1>6. RowIdInv /\ CausalHistory /\ UniqueHistory
    BY <1>3 DEF RowIdInv, CausalHistory, UniqueHistory
  <1>7. CursorInv /\ NoRowBehindCursor
    BY <1>3 DEF Init, CursorInv, NoRowBehindCursor
  <1> QED
    BY <1>1, <1>4, <1>5, <1>6, <1>7 DEF IInv

\* A step of one call that commits nothing disturbs no other call.
LEMMA LocalStep ==
  ASSUME IInv, TypeOK', NEW c \in Calls, NEW r \in CallRecord, Becomes(c, r),
         UNCHANGED <<committed, role, reader>>, nextId' >= nextId,
         LockInv', CallInv(c)'
  PROVE  IInv'
  <1>1. \A other \in Calls : other # c => call'[other] = call[other]
    BY DEF Becomes, IInv, TypeOK
  <1>2. ASSUME NEW other \in Calls, other # c PROVE CallInv(other)'
    <2>1. call'[other] = call[other]
      BY <1>1, <1>2
    <2>2. CallInv(other)
      BY DEF IInv
    <2>a. TransactionInv(other)'
      BY <2>1, <2>2 DEF CallInv, TransactionInv, InTransaction, Unscanned
    <2>b. Visible(other)' = Visible(other)
      BY <2>1 DEF Visible
    <2>c. ScanInv(other)'
      BY <2>1, <2>2, <2>b DEF CallInv, ScanInv, InTransaction
    <2>d. VisibleInv(other)'
      BY <2>1, <2>2, <2>b DEF CallInv, VisibleInv
    <2>e. DurableInv(other)'
      BY <2>1, <2>2 DEF CallInv, DurableInv
    <2>4. IdInv(other)'
      <3>1. call[other].inserted \subseteq Row
        BY DEF IInv, TypeOK, CallRecord
      <3>2. nextId \in Int /\ nextId' \in Int
        BY DEF IInv, TypeOK
      <3> QED
        BY <2>1, <2>2, <3>1, <3>2 DEF CallInv, IdInv, Row
    <2> QED
      BY <2>a, <2>c, <2>d, <2>e, <2>4 DEF CallInv
  <1>3. RowIdInv'
    <2>1. nextId \in Int /\ nextId' \in Int /\ \A d \in Docs : committed[d] \subseteq Row
      BY DEF IInv, TypeOK
    <2> QED
      BY <2>1 DEF IInv, RowIdInv, Row
  <1>4. CausalHistory' /\ UniqueHistory'
    BY DEF IInv, CausalHistory, UniqueHistory
  <1>5. CursorInv' /\ NoRowBehindCursor'
    BY DEF IInv, CursorInv, NoRowBehindCursor
  <1> QED
    BY <1>2, <1>3, <1>4, <1>5 DEF IInv

\* A call that is left outside a transaction gives up its lock and its rows.
LEMMA LeaveStep ==
  ASSUME IInv, TypeOK', NEW c \in Calls, NEW r \in CallRecord, Becomes(c, r),
         UNCHANGED <<committed, role, reader>>, nextId' >= nextId, Unlock(c),
         r.phase \notin {"authorize", "hashes", "scan"}, r.inserted = {}, r.shared = FALSE,
         r.phase \in {"check", "lock"} => Unscanned(r),
         r.result = "ok" => \A i \in DOMAIN r.batches :
                              \E row \in committed[r.doc] : row.batch = r.batches[i]
  PROVE  IInv'
  <1>1. call'[c] = r /\ \A other \in Calls : other # c => call'[other] = call[other]
    BY DEF Becomes, IInv, TypeOK
  <1>2. r.doc \in Docs
    BY DEF CallRecord
  <1>3. LockInv'
    <2>1. ASSUME NEW other \in Calls, InTransaction(other)'
          PROVE  (lockHolder[call[other].doc] = other)'
      <3>1. other # c
        BY <1>1, <2>1 DEF InTransaction
      <3>2. InTransaction(other) /\ call'[other] = call[other]
        BY <1>1, <2>1, <3>1 DEF InTransaction
      <3>3. lockHolder[call[other].doc] = other /\ call[other].doc \in Docs
        BY <3>2 DEF IInv, LockInv, TypeOK, CallRecord
      <3> QED
        BY <3>1, <3>2, <3>3 DEF Unlock
    <2>2. ASSUME NEW d \in Docs, lockHolder'[d] # NoCall
          PROVE  (InTransaction(lockHolder[d]) /\ call[lockHolder[d]].doc = d)'
      <3>1. lockHolder[d] # c /\ lockHolder'[d] = lockHolder[d]
        BY <2>2 DEF Unlock
      <3>2. InTransaction(lockHolder[d]) /\ call[lockHolder[d]].doc = d /\ lockHolder[d] \in Calls
        BY <2>2, <3>1 DEF IInv, LockInv, TypeOK
      <3> QED
        BY <1>1, <3>1, <3>2 DEF InTransaction
    <2> QED
      BY <2>1, <2>2 DEF LockInv
  <1>4. CallInv(c)'
    <2>1. TransactionInv(c)' /\ IdInv(c)' /\ ScanInv(c)' /\ DurableInv(c)'
      BY <1>1 DEF TransactionInv, IdInv, ScanInv, DurableInv, InTransaction
    <2>2. VisibleInv(c)'
      <3>1. Visible(c)' = committed[r.doc]
        BY <1>1 DEF Visible
      <3> QED
        BY <1>1, <1>2, <3>1 DEF VisibleInv, IInv, UniqueHistory
    <2> QED
      BY <2>1, <2>2 DEF CallInv
  <1> QED
    BY <1>3, <1>4, LocalStep

\* Only the holder of a lock has a lock to give up.
LEMMA NothingToUnlock ==
  ASSUME IInv, NEW c \in Calls, ~InTransaction(c), UNCHANGED lockHolder
  PROVE  Unlock(c)
  <1>1. \A d \in Docs : lockHolder[d] # c
    BY CallsAssumption DEF IInv, LockInv
  <1>2. lockHolder \in [Docs -> Calls \cup {NoCall}]
    BY DEF IInv, TypeOK
  <1> QED
    BY <1>1, <1>2 DEF Unlock

\* A call that stays in its transaction keeps its lock.
LEMMA StayStep ==
  ASSUME IInv, NEW c \in Calls, NEW r \in CallRecord, Becomes(c, r), InTransaction(c),
         r.phase \in {"authorize", "hashes", "scan"}, r.doc = call[c].doc, UNCHANGED lockHolder
  PROVE  LockInv'
  <1>1. call'[c] = r /\ \A other \in Calls : other # c => call'[other] = call[other]
    BY DEF Becomes, IInv, TypeOK
  <1>2. \A other \in Calls : /\ InTransaction(other)' <=> InTransaction(other)
                             /\ call'[other].doc = call[other].doc
    BY <1>1 DEF InTransaction
  <1>3. \A d \in Docs : lockHolder[d] # NoCall => lockHolder[d] \in Calls
    BY DEF IInv, TypeOK
  <1> QED
    BY <1>2, <1>3 DEF IInv, LockInv, InTransaction

\* A finished call acknowledges only what is durable.
LEMMA FinishStep ==
  ASSUME IInv, TypeOK', NEW c \in Calls, NEW result \in Results, Finish(c, result),
         UNCHANGED <<committed, role, reader>>, nextId' >= nextId,
         result = "ok" => \A i \in DOMAIN call[c].batches :
                            \E row \in committed[call[c].doc] : row.batch = call[c].batches[i]
  PROVE  IInv'
  <1> DEFINE r == [call[c] EXCEPT !.phase = "idle", !.result = result,
                                  !.inserted = {}, !.shared = FALSE]
  <1>1. r \in CallRecord
    <2>1. call[c] \in CallRecord
      BY DEF IInv, TypeOK
    <2> QED
      BY <2>1 DEF CallRecord, Phases
  <1>2. /\ r.phase = "idle" /\ r.inserted = {} /\ r.shared = FALSE /\ r.result = result
        /\ r.batches = call[c].batches /\ r.doc = call[c].doc
    BY DEF IInv, TypeOK, CallRecord
  <1>3. Becomes(c, r) /\ Unlock(c)
    BY DEF Finish
  <1> HIDE DEF r
  <1> QED
    BY <1>1, <1>2, <1>3, LeaveStep

LEMMA SubmitStep ==
  ASSUME IInv, TypeOK', NEW c \in Calls, NEW d \in Docs, NEW a \in Actors,
         NEW batches \in RequestPool, Submit(c, d, a, batches)
  PROVE  IInv'
  <1> DEFINE r == NewCall(d, a, batches)
  <1>1. r \in CallRecord
    BY NewCallType
  <1>2. /\ r.phase = "check" /\ r.inserted = {} /\ r.shared = FALSE /\ r.result = "none"
        /\ Unscanned(r)
    BY DEF NewCall, Unscanned
  <1>3. Becomes(c, r) /\ UNCHANGED <<committed, role, reader>> /\ nextId' >= nextId
    BY DEF Submit, IInv, TypeOK
  <1>4. Unlock(c)
    BY NothingToUnlock DEF Submit, InTransaction
  <1> HIDE DEF r
  <1> QED
    BY <1>1, <1>2, <1>3, <1>4, LeaveStep

LEMMA CheckStep ==
  ASSUME IInv, TypeOK', NEW c \in Calls, CheckIncoming(c)
  PROVE  IInv'
  <1>0. UNCHANGED <<committed, role, reader>> /\ nextId' >= nextId /\ call[c] \in CallRecord
    BY DEF CheckIncoming, IInv, TypeOK
  <1>1. CASE Finish(c, "duplicate-incoming-event-id")
    BY <1>0, <1>1, FinishStep DEF Results
  <1>2. CASE Becomes(c, [call[c] EXCEPT !.phase = "lock"]) /\ UNCHANGED lockHolder
    <2> DEFINE r == [call[c] EXCEPT !.phase = "lock"]
    <2>1. r \in CallRecord
      BY <1>0 DEF CallRecord, Phases
    <2>2. TransactionInv(c) /\ DurableInv(c)
      BY DEF IInv, CallInv
    <2>3. ~InTransaction(c) /\ call[c].inserted = {} /\ call[c].shared = FALSE /\ Unscanned(call[c])
      BY <1>0, <2>2 DEF CheckIncoming, TransactionInv, InTransaction, CallRecord
    <2>4. /\ r.phase = "lock" /\ r.inserted = {} /\ r.shared = FALSE /\ Unscanned(r)
          /\ r.result = call[c].result /\ r.batches = call[c].batches /\ r.doc = call[c].doc
      BY <1>0, <2>3 DEF CallRecord, Unscanned
    <2>5. Unlock(c)
      BY <1>2, <2>3, NothingToUnlock
    <2> HIDE DEF r
    <2>6. Becomes(c, r)
      BY <1>2 DEF r
    <2> QED
      BY <1>0, <2>1, <2>2, <2>4, <2>5, <2>6, LeaveStep DEF DurableInv
  <1> QED
    BY <1>1, <1>2 DEF CheckIncoming

LEMMA AcquireStep ==
  ASSUME IInv, TypeOK', NEW c \in Calls, AcquireLock(c)
  PROVE  IInv'
  <1> DEFINE r == [call[c] EXCEPT !.phase = "authorize"]
  <1>0. UNCHANGED <<committed, role, reader>> /\ nextId' >= nextId /\ call[c] \in CallRecord
    BY DEF AcquireLock, IInv, TypeOK
  <1>1. r \in CallRecord
    BY <1>0 DEF CallRecord, Phases
  <1>2. /\ r.phase = "authorize" /\ r.doc = call[c].doc /\ r.inserted = call[c].inserted
        /\ r.shared = call[c].shared /\ r.result = call[c].result /\ r.batches = call[c].batches
        /\ r.index = call[c].index /\ r.available = call[c].available /\ r.hashes = call[c].hashes
        /\ r.doc \in Docs
    BY <1>0 DEF CallRecord
  <1>3. Becomes(c, r)
    BY DEF AcquireLock
  <1> HIDE DEF r
  <1>4. call'[c] = r /\ \A other \in Calls : other # c => call'[other] = call[other]
    BY <1>3 DEF Becomes, IInv, TypeOK
  <1>5. TransactionInv(c) /\ DurableInv(c)
    BY DEF IInv, CallInv
  <1>6. call[c].inserted = {} /\ call[c].shared = FALSE /\ Unscanned(call[c])
    BY <1>0, <1>5 DEF AcquireLock, TransactionInv, InTransaction, CallRecord
  <1>7. LockInv'
    <2>1. /\ lockHolder[r.doc] = NoCall /\ lockHolder'[r.doc] = c
          /\ \A d \in Docs : d # r.doc => lockHolder'[d] = lockHolder[d]
      BY <1>2 DEF AcquireLock, IInv, TypeOK
    <2>2. ASSUME NEW other \in Calls, InTransaction(other)'
          PROVE  (lockHolder[call[other].doc] = other)'
      <3>1. CASE other = c
        BY <3>1, <1>4, <2>1
      <3>2. CASE other # c
        <4>1. InTransaction(other) /\ call'[other] = call[other]
          BY <3>2, <2>2, <1>4 DEF InTransaction
        <4>2. lockHolder[call[other].doc] = other /\ call[other].doc \in Docs
          BY <4>1 DEF IInv, LockInv, TypeOK, CallRecord
        <4> QED
          BY <4>1, <4>2, <2>1, CallsAssumption
      <3> QED
        BY <3>1, <3>2
    <2>3. ASSUME NEW d \in Docs, lockHolder'[d] # NoCall
          PROVE  (InTransaction(lockHolder[d]) /\ call[lockHolder[d]].doc = d)'
      <3>1. CASE d = r.doc
        BY <3>1, <2>1, <1>2, <1>4 DEF InTransaction
      <3>2. CASE d # r.doc
        <4>1. lockHolder'[d] = lockHolder[d] /\ lockHolder[d] \in Calls
          BY <3>2, <2>1, <2>3 DEF IInv, TypeOK
        <4>2. InTransaction(lockHolder[d]) /\ call[lockHolder[d]].doc = d
          BY <4>1, <2>3 DEF IInv, LockInv
        <4>3. lockHolder[d] # c
          BY <4>2 DEF AcquireLock, InTransaction
        <4> QED
          BY <4>1, <4>2, <4>3, <1>4 DEF InTransaction
      <3> QED
        BY <3>1, <3>2
    <2> QED
      BY <2>2, <2>3 DEF LockInv
  <1>8. CallInv(c)'
    <2>1. TransactionInv(c)' /\ IdInv(c)'
      BY <1>2, <1>4, <1>6 DEF TransactionInv, IdInv
    <2>2. VisibleInv(c)'
      <3>1. Visible(c)' = committed[r.doc]
        BY <1>0, <1>2, <1>4, <1>6 DEF Visible
      <3>2. \A p, q \in committed[r.doc] :
              \/ p.batch.batchId = q.batch.batchId
              \/ EventIds(p.batch) \cap EventIds(q.batch) # {}
              => p = q
        BY <1>2 DEF IInv, UniqueHistory
      <3>3. call'[c].inserted = {}
        BY <1>2, <1>4, <1>6
      <3> QED
        BY <3>1, <3>2, <3>3 DEF VisibleInv
    <2>3. ScanInv(c)'
      <3>1. \A i \in DOMAIN r.batches : ~(i < r.index)
        <4>1. r.batches \in Seq(BatchPool)
          BY <1>2, BatchesType DEF IInv
        <4> QED
          BY <4>1, <1>2, <1>6 DEF Unscanned
      <3> QED
        BY <1>2, <1>4, <1>6, <3>1 DEF ScanInv, Unscanned
    <2>4. DurableInv(c)'
      BY <1>0, <1>2, <1>4, <1>5 DEF DurableInv
    <2> QED
      BY <2>1, <2>2, <2>3, <2>4 DEF CallInv
  <1> QED
    BY <1>0, <1>1, <1>3, <1>7, <1>8, LocalStep

LEMMA AuthorizeStep ==
  ASSUME IInv, TypeOK', NEW c \in Calls, AuthorizeWrite(c)
  PROVE  IInv'
  <1>0. UNCHANGED <<committed, role, reader>> /\ nextId' >= nextId /\ call[c] \in CallRecord
    BY DEF AuthorizeWrite, IInv, TypeOK
  <1>1. CASE Finish(c, "authorization")
    BY <1>0, <1>1, FinishStep DEF Results
  <1>2. CASE /\ role[call[c].actor] \in {"OWNER", "EDITOR"}
             /\ Becomes(c, [call[c] EXCEPT !.phase = AfterAuthorization(c), !.shared = TRUE])
             /\ UNCHANGED lockHolder
    <2> DEFINE r == [call[c] EXCEPT !.phase = AfterAuthorization(c), !.shared = TRUE]
    <2>1. AfterAuthorization(c) \in {"hashes", "scan"}
      BY DEF AfterAuthorization
    <2>2. r \in CallRecord
      BY <1>0, <2>1 DEF CallRecord, Phases
    <2>3. /\ r.phase \in {"hashes", "scan"} /\ r.shared /\ r.doc = call[c].doc
          /\ r.inserted = call[c].inserted /\ r.result = call[c].result
          /\ r.batches = call[c].batches /\ r.index = call[c].index
          /\ r.available = call[c].available /\ r.hashes = call[c].hashes
          /\ r.actor = call[c].actor
      BY <1>0, <2>1 DEF CallRecord
    <2>4. Becomes(c, r)
      BY <1>2
    <2> HIDE DEF r
    <2>5. call'[c] = r
      BY <2>4 DEF Becomes, IInv, TypeOK
    <2>6. CallInv(c) /\ InTransaction(c) /\ call[c].phase = "authorize"
      BY DEF IInv, AuthorizeWrite, InTransaction
    <2>7. call[c].inserted = {}
      BY <2>6 DEF CallInv, TransactionInv
    <2>8. LockInv'
      BY <1>2, <2>2, <2>3, <2>4, <2>6, StayStep
    <2>9. Visible(c)' = Visible(c)
      BY <1>0, <2>3, <2>5 DEF Visible
    <2>10. TransactionInv(c)' /\ IdInv(c)'
      BY <1>0, <1>2, <2>3, <2>5, <2>7 DEF TransactionInv, IdInv, InTransaction
    <2>11. VisibleInv(c)'
      BY <2>3, <2>5, <2>6, <2>9 DEF CallInv, VisibleInv
    <2>12. ScanInv(c)'
      BY <1>0, <2>3, <2>5, <2>6, <2>9 DEF CallInv, ScanInv
    <2>13. DurableInv(c)'
      BY <1>0, <2>3, <2>5, <2>6 DEF CallInv, DurableInv
    <2> QED
      BY <1>0, <2>2, <2>4, <2>8, <2>10, <2>11, <2>12, <2>13, LocalStep DEF CallInv
  <1> QED
    BY <1>1, <1>2 DEF AuthorizeWrite

LEMMA LoadStep ==
  ASSUME IInv, TypeOK', NEW c \in Calls, LoadHashes(c)
  PROVE  IInv'
  <1> DEFINE stored == {row.batch : row \in committed[call[c].doc]}
             r == [call[c] EXCEPT !.phase = "scan", !.hashes = stored]
  <1>0. UNCHANGED <<committed, role, reader, lockHolder>> /\ nextId' >= nextId /\ call[c] \in CallRecord
    BY DEF LoadHashes, IInv, TypeOK
  <1>1. stored \subseteq BatchPool
    <2>1. committed[call[c].doc] \subseteq Row
      BY <1>0 DEF IInv, TypeOK, CallRecord
    <2> QED
      BY <2>1 DEF Row
  <1>2. Becomes(c, r)
    BY DEF LoadHashes
  <1>3. stored = {row.batch : row \in committed[call[c].doc]}
    OBVIOUS
  <1> HIDE DEF stored
  <1>4. r \in CallRecord
    BY <1>0, <1>1 DEF CallRecord, Phases
  <1>5. /\ r.phase = "scan" /\ r.shared = call[c].shared /\ r.doc = call[c].doc
        /\ r.inserted = call[c].inserted /\ r.result = call[c].result
        /\ r.batches = call[c].batches /\ r.index = call[c].index
        /\ r.available = call[c].available /\ r.hashes = stored /\ r.actor = call[c].actor
    BY <1>0 DEF CallRecord
  <1> HIDE DEF r
  <1>6. call'[c] = r
    BY <1>2 DEF Becomes, IInv, TypeOK
  <1>7. CallInv(c) /\ InTransaction(c) /\ call[c].phase = "hashes"
    BY DEF IInv, LoadHashes, InTransaction
  <1>8. LockInv'
    BY <1>0, <1>2, <1>4, <1>5, <1>7, StayStep
  <1>9. Visible(c)' = Visible(c)
    BY <1>0, <1>5, <1>6 DEF Visible
  <1>10. TransactionInv(c)' /\ IdInv(c)'
    BY <1>0, <1>5, <1>6, <1>7 DEF CallInv, TransactionInv, IdInv, InTransaction
  <1>11. VisibleInv(c)'
    BY <1>5, <1>6, <1>7, <1>9 DEF CallInv, VisibleInv
  <1>12. ScanInv(c)'
    BY <1>0, <1>3, <1>5, <1>6, <1>7, <1>9 DEF CallInv, ScanInv
  <1>13. DurableInv(c)'
    BY <1>0, <1>5, <1>6, <1>7 DEF CallInv, DurableInv
  <1> QED
    BY <1>0, <1>2, <1>4, <1>8, <1>10, <1>11, <1>12, <1>13, LocalStep DEF CallInv

\* The loop moves on.  The batch is stored already, with its very payload, or
\* it is inserted with the next id, its parents known and its ids unused.
LEMMA NextBatchStep ==
  ASSUME IInv, TypeOK', NEW c \in Calls, NEW rows \in SUBSET Row, NextBatch(c, rows),
         call[c].phase = "scan", call[c].index \in DOMAIN call[c].batches,
         UNCHANGED <<committed, role, reader, lockHolder>>,
         \/ rows = {} /\ nextId' = nextId
            /\ Batch(c) \in {row.batch : row \in Visible(c)}
         \/ /\ rows = {[id |-> nextId, batch |-> Batch(c)]}
            /\ nextId' = nextId + 1
            /\ MissingParents(c) = {}
            /\ ~Clashes(Batch(c), Visible(c))
  PROVE  IInv'
  <1> DEFINE r == [call[c] EXCEPT !.index = @ + 1, !.inserted = @ \cup rows,
                                  !.available = @ \cup EventIds(Batch(c))]
  <1>0. call[c] \in CallRecord /\ nextId \in Nat \ {0} /\ nextId' >= nextId
    BY DEF IInv, TypeOK
  <1>1. Becomes(c, r)
    BY DEF NextBatch
  <1>2. call' [c] = r
    BY <1>1 DEF Becomes, IInv, TypeOK
  <1>3. r \in CallRecord
    BY <1>2 DEF TypeOK
  <1>4. /\ r.phase = "scan" /\ r.shared = call[c].shared /\ r.doc = call[c].doc
        /\ r.inserted = call[c].inserted \cup rows /\ r.result = call[c].result
        /\ r.batches = call[c].batches /\ r.index = call[c].index + 1
        /\ r.available = call[c].available \cup EventIds(Batch(c))
        /\ r.hashes = call[c].hashes /\ r.actor = call[c].actor
    BY <1>0 DEF CallRecord
  <1> HIDE DEF r
  <1>5. CallInv(c) /\ InTransaction(c)
    BY DEF IInv, InTransaction
  <1>6. LockInv'
    BY <1>1, <1>3, <1>4, <1>5, StayStep
  <1>7. Visible(c)' = Visible(c) \cup rows
    BY <1>2, <1>4 DEF Visible
  <1>8. TransactionInv(c)'
    BY <1>2, <1>4, <1>5 DEF CallInv, TransactionInv, InTransaction
  <1>9. committed[call[c].doc] \subseteq Row /\ call[c].inserted \subseteq Row
        /\ call[c].doc \in Docs
    BY <1>0 DEF IInv, TypeOK, CallRecord
  <1>10. \A row \in Visible(c) : row.id < nextId /\ row \in Row
    BY <1>5, <1>9 DEF Visible, CallInv, IdInv, IInv, RowIdInv
  <1>11. IdInv(c)'
    <2>1. ASSUME NEW row \in call[c].inserted \cup rows
          PROVE  row.id < nextId' /\ \A old \in committed[call[c].doc] : old.id < row.id
      <3>1. CASE row \in call[c].inserted
        BY <3>1, <1>0, <1>5, <1>9 DEF CallInv, IdInv, Row
      <3>2. CASE row \notin call[c].inserted
        <4>1. row.id = nextId /\ nextId' = nextId + 1
          BY <3>2, <2>1
        <4> QED
          BY <4>1, <1>0, <1>10 DEF Visible
      <3> QED
        BY <3>1, <3>2
    <2> QED
      BY <2>1, <1>2, <1>4 DEF IdInv
  <1>12. PICK stored \in Visible(c) \cup rows : stored.batch = Batch(c)
    <2>1. CASE Batch(c) \in {row.batch : row \in Visible(c)}
      BY <2>1
    <2>2. CASE rows = {[id |-> nextId, batch |-> Batch(c)]}
      <3>1. [id |-> nextId, batch |-> Batch(c)] \in rows
        BY <2>2
      <3> QED
        BY <3>1
    <2> QED
      BY <2>1, <2>2
  <1>13. VisibleInv(c)'
    <2>1. ASSUME NEW row \in call[c].inserted \cup rows
          PROVE  ExternalParents(row.batch) \subseteq
                   {Bootstrap} \cup EventsOf({p \in Visible(c) \cup rows : p.id < row.id})
      <3>1. CASE row \in call[c].inserted
        <4>1. ExternalParents(row.batch) \subseteq
                {Bootstrap} \cup EventsOf({p \in Visible(c) : p.id < row.id})
          BY <3>1, <1>5 DEF CallInv, VisibleInv
        <4>2. EventsOf({p \in Visible(c) : p.id < row.id})
                \subseteq EventsOf({p \in Visible(c) \cup rows : p.id < row.id})
          BY DEF EventsOf
        <4> QED
          BY <4>1, <4>2
      <3>2. CASE row \notin call[c].inserted
        <4>1. row.id = nextId /\ row.batch = Batch(c) /\ MissingParents(c) = {}
          BY <3>2, <2>1
        <4>2. {p \in Visible(c) \cup rows : p.id < row.id} = Visible(c)
          BY <4>1, <3>2, <2>1, <1>0, <1>10
        <4>3. call[c].available \subseteq EventsOf(Visible(c))
          BY <1>5 DEF CallInv, ScanInv
        <4> QED
          BY <4>1, <4>2, <4>3 DEF MissingParents
      <3> QED
        BY <3>1, <3>2
    <2>2. ASSUME NEW p \in Visible(c) \cup rows, NEW q \in Visible(c) \cup rows,
                 \/ p.batch.batchId = q.batch.batchId
                 \/ EventIds(p.batch) \cap EventIds(q.batch) # {}
          PROVE  p = q
      <3>1. CASE p \in Visible(c) /\ q \in Visible(c)
        BY <3>1, <2>2, <1>5 DEF CallInv, VisibleInv
      <3>2. CASE p \in rows /\ q \in rows
        BY <3>2
      <3>3. CASE (p \in rows /\ q \in Visible(c)) \/ (q \in rows /\ p \in Visible(c))
        <4>1. ~Clashes(Batch(c), Visible(c)) /\ \A row \in rows : row.batch = Batch(c)
          BY <3>3
        <4> QED
          BY <4>1, <3>3, <2>2 DEF Clashes, EventsOf
      <3> QED
        BY <3>1, <3>2, <3>3
    <2> QED
      BY <2>1, <2>2, <1>2, <1>4, <1>7 DEF VisibleInv
  <1>14. ScanInv(c)'
    <2>1. \E row \in Visible(c) \cup rows : row.batch = Batch(c)
      BY <1>12
    <2>2. call[c].available \cup EventIds(Batch(c)) \subseteq EventsOf(Visible(c) \cup rows)
      <3>1. call[c].available \subseteq EventsOf(Visible(c))
        BY <1>5 DEF CallInv, ScanInv
      <3>2. EventsOf(Visible(c)) \subseteq EventsOf(Visible(c) \cup rows)
        BY DEF EventsOf
      <3>3. EventIds(Batch(c)) \subseteq EventsOf(Visible(c) \cup rows)
        BY <1>12 DEF EventsOf
      <3> QED
        BY <3>1, <3>2, <3>3
    <2>3. ASSUME NEW i \in DOMAIN call[c].batches, i < call[c].index + 1
          PROVE  \E row \in Visible(c) \cup rows : row.batch = call[c].batches[i]
      <3>1. CASE i < call[c].index
        BY <3>1, <1>5 DEF CallInv, ScanInv
      <3>2. CASE ~(i < call[c].index)
        <4>1. call[c].batches \in Seq(BatchPool)
          BY BatchesType DEF IInv
        <4>2. i = call[c].index
          BY <4>1, <3>2, <2>3, <1>0 DEF CallRecord
        <4> QED
          BY <4>2, <2>1 DEF Batch
      <3> QED
        BY <3>1, <3>2
    <2>4. call[c].hashes \subseteq {row.batch : row \in committed[call[c].doc]}
      BY <1>5 DEF CallInv, ScanInv
    <2> QED
      BY <2>2, <2>3, <2>4, <1>2, <1>4, <1>7 DEF ScanInv
  <1>15. DurableInv(c)'
    BY <1>2, <1>4, <1>5 DEF CallInv, DurableInv
  <1> QED
    BY <1>0, <1>1, <1>3, <1>6, <1>8, <1>11, <1>13, <1>14, <1>15, LocalStep DEF CallInv

LEMMA ScanStep ==
  ASSUME IInv, TypeOK', NEW c \in Calls, ScanBatch(c)
  PROVE  IInv'
  <1>0. /\ UNCHANGED <<committed, role, reader>> /\ nextId \in Nat /\ call[c] \in CallRecord
        /\ call[c].phase = "scan" /\ call[c].index \in DOMAIN call[c].batches
    BY DEF ScanBatch, IInv, TypeOK
  <1>1. CASE /\ Finish(c, "missing-parent-history") \/ Finish(c, "batch-payload-conflict")
             /\ UNCHANGED nextId
    BY <1>0, <1>1, FinishStep DEF Results
  <1>2. CASE /\ Stored(c) = {Batch(c)} /\ NextBatch(c, {}) /\ UNCHANGED <<nextId, lockHolder>>
    <2>1. Batch(c) \in {row.batch : row \in Visible(c)}
      <3>1. call[c].hashes \subseteq {row.batch : row \in committed[call[c].doc]}
        BY <1>0 DEF IInv, CallInv, ScanInv, InTransaction
      <3> QED
        BY <1>2, <3>1 DEF Stored, Visible
    <2> QED
      BY <1>0, <1>2, <2>1, NextBatchStep
  <1>3. CASE UniqueViolation(c) /\ nextId' = nextId + 1
    <2>1. Violated(c) \in CallRecord
      BY <1>0 DEF Violated, CallRecord, Phases, Results
    <2>2. /\ Violated(c).phase \in {"verify", "idle"} /\ Violated(c).inserted = {}
          /\ Violated(c).shared = FALSE
          /\ Violated(c).result \in {call[c].result, "batch-payload-conflict", "stored-event-id-conflict"}
          /\ Violated(c).batches = call[c].batches /\ Violated(c).doc = call[c].doc
      BY <1>0 DEF Violated, CallRecord
    <2>3. DurableInv(c)
      BY DEF IInv, CallInv
    <2>4. Becomes(c, Violated(c)) /\ Unlock(c)
      BY <1>3 DEF UniqueViolation
    <2>5. Violated(c).result = "ok" => \A i \in DOMAIN Violated(c).batches :
            \E row \in committed[Violated(c).doc] : row.batch = Violated(c).batches[i]
      BY <2>2, <2>3 DEF DurableInv
    <2>6. nextId' >= nextId
      BY <1>0, <1>3
    <2> QED
      BY <1>0, <2>1, <2>2, <2>4, <2>5, <2>6, LeaveStep
  <1>4. CASE /\ MissingParents(c) = {} /\ ~Clashes(Batch(c), Visible(c))
             /\ NextBatch(c, {[id |-> nextId, batch |-> Batch(c)]})
             /\ UNCHANGED lockHolder /\ nextId' = nextId + 1
    <2>1. {[id |-> nextId, batch |-> Batch(c)]} \in SUBSET Row
      <3>1. Batch(c) \in BatchPool /\ nextId \in Nat \ {0}
        BY <1>0, BatchInPool DEF IInv, TypeOK
      <3> QED
        BY <3>1 DEF Row
    <2> QED
      BY <1>0, <1>4, <2>1, NextBatchStep
  <1> QED
    BY <1>1, <1>2, <1>3, <1>4 DEF ScanBatch

\* The one step that grows the history.  Other calls of the document are not
\* in a transaction, so nothing they rely on changes.
LEMMA CommitStep ==
  ASSUME IInv, TypeOK', NEW c \in Calls, Commit(c)
  PROVE  IInv'
  <1> DEFINE d == call[c].doc
             added == call[c].inserted
  <1>0. /\ UNCHANGED <<nextId, role, reader>> /\ call[c] \in CallRecord /\ d \in Docs
        /\ call[c].phase = "scan" /\ call[c].index \notin DOMAIN call[c].batches
        /\ committed[d] \subseteq Row /\ added \subseteq Row /\ nextId \in Nat
    BY DEF Commit, IInv, TypeOK, CallRecord
  <1>1. /\ committed'[d] = committed[d] \cup added
        /\ \A other \in Docs : other # d => committed'[other] = committed[other]
    BY <1>0 DEF Commit, IInv, TypeOK
  <1>2. Visible(c) = committed[d] \cup added
    BY DEF Visible
  <1>3. PICK result \in {"ok", "unavailable"} : Finish(c, result)
    BY DEF Commit
  <1>4. /\ call'[c].phase = "idle" /\ call'[c].result = result /\ call'[c].inserted = {}
        /\ call'[c].shared = FALSE /\ call'[c].doc = d /\ call'[c].batches = call[c].batches
        /\ \A other \in Calls : other # c => call'[other] = call[other]
    <2>1. call' = [call EXCEPT ![c] = [call[c] EXCEPT !.phase = "idle", !.result = result,
                                                      !.inserted = {}, !.shared = FALSE]]
      BY <1>3 DEF Finish, Becomes
    <2> QED
      BY <2>1, <1>0 DEF IInv, TypeOK, CallRecord
  <1>5. CallInv(c) /\ InTransaction(c) /\ lockHolder[d] = c
    BY <1>0 DEF IInv, LockInv, InTransaction
  <1> HIDE DEF d, added
  <1>6. LockInv'
    <2>1. ASSUME NEW other \in Calls, InTransaction(other)'
          PROVE  (lockHolder[call[other].doc] = other)'
      <3>1. other # c /\ InTransaction(other) /\ call'[other] = call[other]
        BY <1>4, <2>1 DEF InTransaction
      <3>2. lockHolder[call[other].doc] = other /\ call[other].doc \in Docs
        BY <3>1 DEF IInv, LockInv, TypeOK, CallRecord
      <3> QED
        BY <3>1, <3>2, <1>3 DEF Finish, Unlock
    <2>2. ASSUME NEW e \in Docs, lockHolder'[e] # NoCall
          PROVE  (InTransaction(lockHolder[e]) /\ call[lockHolder[e]].doc = e)'
      <3>1. lockHolder[e] # c /\ lockHolder'[e] = lockHolder[e]
        BY <1>3, <2>2 DEF Finish, Unlock
      <3>2. InTransaction(lockHolder[e]) /\ call[lockHolder[e]].doc = e /\ lockHolder[e] \in Calls
        BY <2>2, <3>1 DEF IInv, LockInv, TypeOK
      <3> QED
        BY <1>4, <3>1, <3>2 DEF InTransaction
    <2> QED
      BY <2>1, <2>2 DEF LockInv
  <1>7. CausalHistory'
    <2>1. ASSUME NEW e \in Docs, NEW row \in committed'[e]
          PROVE  ExternalParents(row.batch) \subseteq
                   {Bootstrap} \cup EventsOf({p \in committed'[e] : p.id < row.id})
      <3>1. CASE e # d
        BY <3>1, <2>1, <1>1 DEF IInv, CausalHistory
      <3>2. CASE e = d /\ row \in committed[d]
        <4>1. ExternalParents(row.batch) \subseteq
                {Bootstrap} \cup EventsOf({p \in committed[d] : p.id < row.id})
          BY <3>2, <1>0 DEF IInv, CausalHistory
        <4>2. EventsOf({p \in committed[d] : p.id < row.id})
                \subseteq EventsOf({p \in committed'[d] : p.id < row.id})
          BY <1>1 DEF EventsOf
        <4> QED
          BY <3>2, <4>1, <4>2
      <3>3. CASE e = d /\ row \in added
        BY <3>3, <1>1, <1>2, <1>5 DEF CallInv, VisibleInv, added
      <3> QED
        BY <3>1, <3>2, <3>3, <2>1, <1>1
    <2> QED
      BY <2>1 DEF CausalHistory
  <1>8. ASSUME NEW p \in committed'[d], NEW q \in committed'[d],
               \/ p.batch.batchId = q.batch.batchId
               \/ EventIds(p.batch) \cap EventIds(q.batch) # {}
        PROVE  p = q
    BY <1>1, <1>2, <1>5, <1>8 DEF CallInv, VisibleInv
  <1>9. UniqueHistory'
    BY <1>1, <1>8 DEF IInv, UniqueHistory
  <1>10. RowIdInv'
    BY <1>0, <1>1, <1>5 DEF IInv, RowIdInv, CallInv, IdInv, added
  <1>11. CallInv(c)'
    <2>1. TransactionInv(c)' /\ IdInv(c)' /\ ScanInv(c)'
      BY <1>4 DEF TransactionInv, IdInv, ScanInv, InTransaction
    <2>2. Visible(c)' = committed'[d]
      BY <1>4 DEF Visible
    <2>3. VisibleInv(c)'
      BY <2>2, <1>4, <1>8 DEF VisibleInv
    <2>4. DurableInv(c)'
      <3>1. call[c].batches \in Seq(BatchPool) /\ call[c].index \in Nat \ {0}
        BY <1>0, BatchesType DEF IInv, CallRecord
      <3>2. \A i \in DOMAIN call[c].batches : i < call[c].index
        BY <3>1, <1>0
      <3>3. \A i \in DOMAIN call[c].batches :
              \E row \in committed'[d] : row.batch = call[c].batches[i]
        BY <3>2, <1>1, <1>2, <1>5 DEF CallInv, ScanInv
      <3> QED
        BY <3>3, <1>4 DEF DurableInv
    <2> QED
      BY <2>1, <2>3, <2>4 DEF CallInv
  <1>12. ASSUME NEW other \in Calls, other # c PROVE CallInv(other)'
    <2>1. call'[other] = call[other] /\ CallInv(other) /\ call[other].doc \in Docs
      BY <1>4, <1>12 DEF IInv, TypeOK, CallRecord
    <2>2. TransactionInv(other)'
      BY <1>0, <2>1 DEF CallInv, TransactionInv, InTransaction, Unscanned
    <2>3. DurableInv(other)'
      BY <1>1, <2>1 DEF CallInv, DurableInv
    <2>4. CASE call[other].doc # d
      <3>1. committed'[call[other].doc] = committed[call[other].doc]
        BY <1>1, <2>1, <2>4
      <3>2. Visible(other)' = Visible(other)
        BY <2>1, <3>1 DEF Visible
      <3>3. IdInv(other)' /\ VisibleInv(other)'
        BY <1>0, <2>1, <3>1, <3>2 DEF CallInv, IdInv, VisibleInv
      <3>4. ScanInv(other)'
        BY <2>1, <3>1, <3>2 DEF CallInv, ScanInv, InTransaction
      <3> QED
        BY <2>2, <2>3, <3>3, <3>4 DEF CallInv
    <2>5. CASE call[other].doc = d
      <3>1. ~InTransaction(other)
        BY <1>5, <1>12, <2>5 DEF IInv, LockInv
      <3>2. call[other].inserted = {}
        BY <2>1, <3>1 DEF CallInv, TransactionInv, InTransaction
      <3>3. Visible(other)' = committed'[d]
        BY <2>1, <2>5, <3>2 DEF Visible
      <3>4. IdInv(other)' /\ ScanInv(other)'
        BY <2>1, <3>1, <3>2 DEF IdInv, ScanInv, InTransaction
      <3>5. VisibleInv(other)'
        BY <2>1, <3>2, <3>3, <1>8 DEF VisibleInv
      <3> QED
        BY <2>2, <2>3, <3>4, <3>5 DEF CallInv
    <2> QED
      BY <2>4, <2>5
  <1>13. CursorInv'
    <2>1. \A e \in Docs : committed[e] \subseteq committed'[e]
      BY <1>1
    <2>2. \A x \in Readers : reader[x].doc \in Docs
      BY DEF IInv, TypeOK, ReaderRecord
    <2>3. reader' = reader
      BY <1>0
    <2>4. CursorInv
      BY DEF IInv
    <2> QED
      BY <2>1, <2>2, <2>3, <2>4 DEF CursorInv
  <1>14. NoRowBehindCursor'
    <2>1. ASSUME NEW x \in Readers
          PROVE  reader[x].got = {row \in committed'[reader[x].doc] : row.id <= reader[x].cursor}
      <3>1. reader[x].got = {row \in committed[reader[x].doc] : row.id <= reader[x].cursor}
        BY DEF IInv, NoRowBehindCursor
      <3>2. reader[x].doc \in Docs /\ reader[x].cursor \in Nat
        BY DEF IInv, TypeOK, ReaderRecord
      <3>3. CASE reader[x].doc # d
        BY <3>1, <3>2, <3>3, <1>1
      <3>4. CASE reader[x].doc = d
        <4>1. \A row \in added : ~(row.id <= reader[x].cursor)
          <5>1. CASE reader[x].cursor = 0
            BY <5>1, <1>0 DEF Row
          <5>2. CASE \E old \in committed[d] : old.id = reader[x].cursor
            BY <5>2, <1>0, <1>5, <3>2 DEF CallInv, IdInv, Row, d, added
          <5> QED
            BY <5>1, <5>2, <3>4 DEF IInv, CursorInv
        <4> QED
          BY <3>1, <3>4, <4>1, <1>1
      <3> QED
        BY <3>3, <3>4
    <2> QED
      BY <2>1, <1>0 DEF NoRowBehindCursor
  <1> QED
    BY <1>6, <1>7, <1>9, <1>10, <1>11, <1>12, <1>13, <1>14 DEF IInv

LEMMA VerifyStep ==
  ASSUME IInv, TypeOK', NEW c \in Calls, VerifyStored(c)
  PROVE  IInv'
  <1>0. UNCHANGED <<committed, role, reader>> /\ nextId' >= nextId /\ call[c] \in CallRecord
    BY DEF VerifyStored, IInv, TypeOK
  <1>1. CASE /\ Finish(c, "ok")
             /\ \A i \in DOMAIN call[c].batches :
                  call[c].batches[i] \in {row.batch : row \in committed[call[c].doc]}
    BY <1>0, <1>1, FinishStep DEF Results
  <1>2. CASE Finish(c, "stored-event-id-conflict")
    BY <1>0, <1>2, FinishStep DEF Results
  <1>3. CASE Becomes(c, [call[c] EXCEPT !.attempt = @ + 1]) /\ UNCHANGED lockHolder
    <2> DEFINE r == [call[c] EXCEPT !.attempt = @ + 1]
    <2>1. Becomes(c, r)
      BY <1>3
    <2>2. call'[c] = r
      BY <2>1 DEF Becomes, IInv, TypeOK
    <2>3. r \in CallRecord
      BY <2>2 DEF TypeOK
    <2>4. /\ r.phase = "verify" /\ r.inserted = call[c].inserted /\ r.shared = call[c].shared
          /\ r.result = call[c].result /\ r.batches = call[c].batches /\ r.doc = call[c].doc
      BY <1>0 DEF VerifyStored, CallRecord
    <2> HIDE DEF r
    <2>5. TransactionInv(c) /\ DurableInv(c) /\ call[c].phase = "verify"
      BY DEF IInv, CallInv, VerifyStored
    <2>6. call[c].inserted = {} /\ call[c].shared = FALSE /\ ~InTransaction(c)
      BY <1>0, <2>5 DEF TransactionInv, InTransaction, CallRecord
    <2>7. Unlock(c)
      BY <1>3, <2>6, NothingToUnlock
    <2> QED
      BY <1>0, <2>1, <2>3, <2>4, <2>5, <2>6, <2>7, LeaveStep DEF DurableInv
  <1> QED
    BY <1>1, <1>2, <1>3 DEF VerifyStored

LEMMA AbortStep ==
  ASSUME IInv, TypeOK', NEW c \in Calls, AbortTransaction(c)
  PROVE  IInv'
  <1>1. UNCHANGED <<committed, role, reader>> /\ nextId' >= nextId
    BY DEF AbortTransaction, IInv, TypeOK
  <1> QED
    BY <1>1, FinishStep DEF AbortTransaction, Results

\* FOR SHARE keeps the role of every open writer as it was read.
LEMMA RoleStep ==
  ASSUME IInv, TypeOK', NEW a \in Actors, NEW newRole \in Roles, ChangeRole(a, newRole)
  PROVE  IInv'
  <1>0. UNCHANGED <<committed, nextId, lockHolder, call, reader>>
    BY DEF ChangeRole
  <1>1. ASSUME NEW c \in Calls PROVE CallInv(c)'
    <2>1. CallInv(c) /\ call[c].actor \in Actors
      BY DEF IInv, TypeOK, CallRecord
    <2>2. call[c].shared => role'[call[c].actor] = role[call[c].actor]
      BY <2>1 DEF ChangeRole, IInv, TypeOK
    <2>3. TransactionInv(c)'
      BY <1>0, <2>1, <2>2 DEF CallInv, TransactionInv, InTransaction, Unscanned
    <2>4. IdInv(c)' /\ VisibleInv(c)' /\ ScanInv(c)' /\ DurableInv(c)'
      BY <1>0, <2>1 DEF CallInv, IdInv, VisibleInv, ScanInv, DurableInv, Visible, InTransaction
    <2> QED
      BY <2>3, <2>4 DEF CallInv
  <1>2. LockInv' /\ RowIdInv' /\ CausalHistory' /\ UniqueHistory' /\ CursorInv' /\ NoRowBehindCursor'
    BY <1>0 DEF IInv, LockInv, InTransaction, RowIdInv, CausalHistory, UniqueHistory,
                CursorInv, NoRowBehindCursor
  <1> QED
    BY <1>1, <1>2 DEF IInv

\* A step that only reads leaves the calls and the tables as they are.
LEMMA ReadOnly ==
  ASSUME IInv, UNCHANGED <<committed, nextId, lockHolder, role, call>>
  PROVE  /\ LockInv' /\ RowIdInv' /\ CausalHistory' /\ UniqueHistory'
         /\ \A c \in Calls : CallInv(c)'
  <1>1. LockInv' /\ RowIdInv' /\ CausalHistory' /\ UniqueHistory'
    BY DEF IInv, LockInv, InTransaction, RowIdInv, CausalHistory, UniqueHistory
  <1>2. ASSUME NEW c \in Calls PROVE CallInv(c)'
    <2>1. CallInv(c) /\ Visible(c)' = Visible(c) /\ (InTransaction(c)' <=> InTransaction(c))
      BY DEF IInv, Visible, InTransaction
    <2>2. TransactionInv(c)' /\ IdInv(c)'
      BY <2>1 DEF CallInv, TransactionInv, Unscanned, IdInv
    <2>3. VisibleInv(c)'
      BY <2>1 DEF CallInv, VisibleInv
    <2>4. ScanInv(c)' /\ DurableInv(c)'
      BY <2>1 DEF CallInv, ScanInv, DurableInv
    <2> QED
      BY <2>2, <2>3, <2>4 DEF CallInv
  <1> QED
    BY <1>1, <1>2

\* A page and the cursor after it take in exactly the rows up to the cursor.
LEMMA ReadStep ==
  ASSUME IInv, TypeOK', NEW x \in Readers, ReadPage(x)
  PROVE  IInv'
  <1>0. UNCHANGED <<committed, nextId, lockHolder, role, call>>
    BY DEF ReadPage
  <1>1. LockInv' /\ RowIdInv' /\ CausalHistory' /\ UniqueHistory' /\ \A c \in Calls : CallInv(c)'
    BY <1>0, ReadOnly
  <1> DEFINE d == reader[x].doc
             rows == RowsAfter(d, reader[x].cursor)
  <1>3. d \in Docs /\ reader[x].cursor \in Nat /\ reader[x] \in ReaderRecord
        /\ committed[d] \subseteq Row
    BY DEF IInv, TypeOK, ReaderRecord
  <1>4. reader[x].got = {row \in committed[d] : row.id <= reader[x].cursor}
    BY DEF IInv, NoRowBehindCursor
  <1>5. \A y \in Readers : y # x => reader'[y] = reader[y]
    BY DEF ReadPage, IInv, TypeOK
  <1>6. /\ reader'[x].doc = d
        /\ \/ reader'[x].cursor = 0
           \/ \E row \in committed[d] : row.id = reader'[x].cursor
        /\ reader'[x].got = {row \in committed[d] : row.id <= reader'[x].cursor}
    <2>1. PICK page \in SUBSET rows :
            /\ IsPage(page, rows)
            /\ \/ reader' = [reader EXCEPT ![x] = [@ EXCEPT !.complete = TRUE]]
               \/ \E last \in page :
                    /\ \A row \in page : row.id <= last.id
                    /\ reader' = [reader EXCEPT ![x] = Received(x, page, last, rows)]
      BY DEF ReadPage
    <2>2. CASE reader' = [reader EXCEPT ![x] = [@ EXCEPT !.complete = TRUE]]
      <3>1. reader'[x] = [reader[x] EXCEPT !.complete = TRUE]
        BY <2>2 DEF IInv, TypeOK
      <3>2. /\ reader'[x].doc = d /\ reader'[x].cursor = reader[x].cursor
            /\ reader'[x].got = reader[x].got
        BY <3>1, <1>3 DEF ReaderRecord
      <3> QED
        BY <3>2, <1>4 DEF IInv, CursorInv
    <2>3. CASE \E last \in page :
                 /\ \A row \in page : row.id <= last.id
                 /\ reader' = [reader EXCEPT ![x] = Received(x, page, last, rows)]
      <3>1. PICK last \in page :
              /\ \A row \in page : row.id <= last.id
              /\ reader' = [reader EXCEPT ![x] = Received(x, page, last, rows)]
        BY <2>3
      <3>2. reader'[x] = Received(x, page, last, rows)
        BY <3>1 DEF IInv, TypeOK
      <3>3. /\ reader'[x].doc = d /\ reader'[x].cursor = last.id
            /\ reader'[x].got = reader[x].got \cup page
        BY <3>2, <1>3 DEF Received, ReaderRecord
      <3>4. page \subseteq committed[d] /\ \A row \in page : row.id > reader[x].cursor
        BY DEF RowsAfter
      <3>5. \A row \in committed[d] :
              row.id <= last.id <=> row.id <= reader[x].cursor \/ row \in page
        <4>1. ASSUME NEW row \in committed[d], row.id <= last.id, row.id > reader[x].cursor
              PROVE  row \in page
          <5>1. row \in rows
            BY <4>1 DEF RowsAfter
          <5>2. row \notin page => last.id < row.id
            BY <5>1, <2>1 DEF IsPage
          <5> QED
            BY <4>1, <5>2, <1>3, <3>4 DEF Row
        <4>2. \A row \in committed[d] : row.id <= reader[x].cursor => row.id <= last.id
          BY <1>3, <3>4 DEF Row
        <4>3. \A row \in committed[d] : row.id <= reader[x].cursor \/ row.id > reader[x].cursor
          BY <1>3 DEF Row
        <4> QED
          BY <4>1, <4>2, <4>3, <3>1
      <3> QED
        BY <3>3, <3>4, <3>5, <1>4
    <2> QED
      BY <2>1, <2>2, <2>3
  <1>7. CursorInv' /\ NoRowBehindCursor'
    BY <1>0, <1>5, <1>6 DEF IInv, CursorInv, NoRowBehindCursor
  <1> QED
    BY <1>1, <1>7 DEF IInv

LEMMA InvNext == IInv /\ [Next]_vars => IInv'
  <1> SUFFICES ASSUME IInv, [Next]_vars PROVE IInv'
    OBVIOUS
  <1>0. TypeOK'
    BY TypeNext DEF IInv
  <1>1. CASE UNCHANGED vars
    BY <1>0, <1>1, ReadOnly DEF vars, IInv, CursorInv, NoRowBehindCursor
  <1>2. CASE Next
    BY <1>0, <1>2, SubmitStep, CheckStep, AcquireStep, AuthorizeStep, LoadStep, ScanStep,
       CommitStep, VerifyStep, AbortStep, RoleStep, ReadStep
    DEF Next, AppendStep
  <1> QED
    BY <1>1, <1>2

LEMMA Invariance == Spec => []IInv
  BY InvInit, InvNext, PTL DEF Spec

-----------------------------------------------------------------------------
(* The properties. *)

\* Whatever both hosts interleave, in the order of its ids a document's
\* history names no event before the batch that produces it.
THEOREM HistoryIsCausal == Spec => []CausalHistory
  <1>1. IInv => CausalHistory
    BY DEF IInv
  <1> QED
    BY <1>1, Invariance, PTL

\* A batch id never stands for two payloads, an event id never for two batches.
THEOREM HistoryIsUnique == Spec => []UniqueHistory
  <1>1. IInv => UniqueHistory
    BY DEF IInv
  <1> QED
    BY <1>1, Invariance, PTL

\* A repair cursor never passes a row that is committed later: pages give a
\* client every row up to its cursor.
THEOREM CursorSkipsNothing == Spec => []NoRowBehindCursor
  <1>1. IInv => NoRowBehindCursor
    BY DEF IInv
  <1> QED
    BY <1>1, Invariance, PTL

\* An append that resolves has made every batch of its request durable.
THEOREM AcknowledgementIsDurable == Spec => []AcknowledgedIsDurable
  <1>1. IInv => AcknowledgedIsDurable
    BY DEF IInv, CallInv, DurableInv, AcknowledgedIsDurable
  <1> QED
    BY <1>1, Invariance, PTL

\* The history grows only by a transaction whose actor may write when it
\* commits: a revocation never slips in between the check and the commit.
THEOREM CommitsAreAuthorized == Spec => CommitIsAuthorized
  <1> DEFINE Authorized(d) ==
        \E c \in Calls : /\ call[c].doc = d
                         /\ committed'[d] = committed[d] \cup call[c].inserted
                         /\ role[call[c].actor] \in {"OWNER", "EDITOR"}
  <1>1. IInv /\ [Next]_vars => [\A d \in Docs : committed'[d] # committed[d] => Authorized(d)]_vars
    <2> SUFFICES ASSUME IInv, [Next]_vars, NEW d \in Docs, committed'[d] # committed[d]
                 PROVE  Authorized(d)
      OBVIOUS
    <2>1. PICK c \in Calls : Commit(c)
      BY DEF Next, AppendStep, vars, Submit, CheckIncoming, AcquireLock, AuthorizeWrite, LoadHashes,
             ScanBatch, VerifyStored, AbortTransaction, ChangeRole, ReadPage
    <2>2. call[c].doc = d /\ committed'[d] = committed[d] \cup call[c].inserted
      BY <2>1 DEF Commit, IInv, TypeOK
    <2>3. role[call[c].actor] \in {"OWNER", "EDITOR"}
      BY <2>1 DEF Commit, IInv, CallInv, TransactionInv
    <2> QED
      BY <2>2, <2>3
  <1> QED
    BY <1>1, Invariance, PTL DEF Spec, CommitIsAuthorized

-----------------------------------------------------------------------------
(* A document's log: its rows in the order of their ids.                   *)

\* The sequence lists exactly these rows, lowest ids first.
Enumerates(q, rows) ==
  /\ q \in Seq(Row)
  /\ rows = {q[i] : i \in 1 .. Len(q)}
  /\ \A i, j \in 1 .. Len(q) : i < j => q[i].id < q[j].id

BatchesOf(q) == [i \in 1 .. Len(q) |-> q[i].batch]

LEMMA EnumeratesType ==
  ASSUME NEW q, NEW rows, Enumerates(q, rows)
  PROVE  /\ Len(q) \in Nat /\ rows \subseteq Row
         /\ \A i \in 1 .. Len(q) : q[i] \in Row /\ q[i].id \in Nat /\ q[i].batch \in BatchPool
         /\ BatchesOf(q) \in Seq(BatchPool) /\ Len(BatchesOf(q)) = Len(q)
  <1>1. Len(q) \in Nat /\ \A i \in 1 .. Len(q) : q[i] \in Row
    BY DEF Enumerates
  <1>2. \A row \in Row : row.id \in Nat /\ row.batch \in BatchPool
    BY DEF Row
  <1>3. rows \subseteq Row
    BY <1>1 DEF Enumerates
  <1>4. BatchesOf(q) \in Seq(BatchPool) /\ Len(BatchesOf(q)) = Len(q)
    BY <1>1, <1>2 DEF BatchesOf
  <1> QED
    BY <1>1, <1>2, <1>3, <1>4

\* There are as many rows as the sequence is long.
LEMMA EnumeratesCounts ==
  ASSUME NEW q, NEW rows, Enumerates(q, rows)
  PROVE  IsFiniteSet(rows) /\ Cardinality(rows) = Len(q)
  <1>1. Len(q) \in Nat /\ \A i \in 1 .. Len(q) : q[i] \in Row /\ q[i].id \in Nat
    BY EnumeratesType
  <1> DEFINE f == [i \in 1 .. Len(q) |-> q[i]]
  <1>2. ASSUME NEW i \in 1 .. Len(q), NEW j \in 1 .. Len(q), f[i] = f[j] PROVE i = j
    <2>1. q[i].id = q[j].id
      BY <1>2
    <2>2. ~ (i < j) /\ ~ (j < i)
      BY <2>1, <1>1 DEF Enumerates
    <2> QED
      BY <1>1, <2>2
  <1>3. f \in [1 .. Len(q) -> rows] /\ \A row \in rows : \E i \in 1 .. Len(q) : f[i] = row
    BY DEF Enumerates
  <1>4. f \in Bijection(1 .. Len(q), rows)
    BY <1>2, <1>3 DEF Bijection, Injection, IsInjective, Surjection
  <1>5. ExistsBijection(1 .. Len(q), rows)
    BY <1>4 DEF ExistsBijection
  <1> QED
    BY <1>1, <1>5, FS_NatBijection, FS_CountingElements

\* The rows before the i-th are listed by the first i - 1.
LEMMA EnumeratesBelow ==
  ASSUME NEW q, NEW rows, Enumerates(q, rows), NEW i \in 1 .. Len(q)
  PROVE  Cardinality({r \in rows : r.id < q[i].id}) = i - 1
  <1> DEFINE p == [j \in 1 .. i - 1 |-> q[j]]
             below == {r \in rows : r.id < q[i].id}
  <1>1. Len(q) \in Nat /\ \A j \in 1 .. Len(q) : q[j] \in Row /\ q[j].id \in Nat
    BY EnumeratesType
  <1>2. \A j \in 1 .. Len(q) : q[j].id < q[i].id <=> j < i
    <2> TAKE j \in 1 .. Len(q)
    <2>1. CASE j < i
      BY <2>1 DEF Enumerates
    <2>2. CASE j = i
      BY <2>2, <1>1
    <2>3. CASE i < j
      <3>1. q[i].id < q[j].id
        BY <2>3 DEF Enumerates
      <3> QED
        BY <3>1, <2>3, <1>1
    <2> QED
      BY <2>1, <2>2, <2>3
  <1>3. p \in Seq(Row) /\ Len(p) = i - 1
    <2>1. i - 1 \in Nat /\ p \in [1 .. i - 1 -> Row]
      BY <1>1
    <2> HIDE DEF p
    <2> QED
      BY <2>1
  <1>4. below = {p[j] : j \in 1 .. i - 1}
    BY <1>1, <1>2 DEF Enumerates
  <1>5. \A j, k \in 1 .. i - 1 : j < k => p[j].id < p[k].id
    BY <1>1 DEF Enumerates
  <1> HIDE DEF p, below
  <1>6. Enumerates(p, below)
    BY <1>3, <1>4, <1>5 DEF Enumerates
  <1> QED
    BY <1>3, <1>6, EnumeratesCounts DEF below

LEMMA EnumeratesRow ==
  ASSUME NEW q, NEW rows, Enumerates(q, rows), NEW i \in 1 .. Len(q)
  PROVE  RowAt(rows, i) = q[i]
  <1>1. q[i] \in rows /\ Cardinality({r \in rows : r.id < q[i].id}) = i - 1
    BY EnumeratesBelow DEF Enumerates
  <1>2. ASSUME NEW row \in rows, Cardinality({r \in rows : r.id < row.id}) = i - 1
        PROVE  row = q[i]
    <2>1. PICK j \in 1 .. Len(q) : row = q[j]
      BY DEF Enumerates
    <2>2. Cardinality({r \in rows : r.id < row.id}) = j - 1
      BY <2>1, EnumeratesBelow
    <2> QED
      BY <1>2, <2>1, <2>2
  <1> QED
    BY <1>1, <1>2 DEF RowAt

\* The log of the refinement mapping is the batches of that sequence.
LEMMA LogIs ==
  ASSUME NEW q, NEW rows, Enumerates(q, rows)
  PROVE  [i \in 1 .. Cardinality(rows) |-> RowAt(rows, i).batch] = BatchesOf(q)
  <1>1. Cardinality(rows) = Len(q)
    BY EnumeratesCounts
  <1>2. \A i \in 1 .. Len(q) : RowAt(rows, i) = q[i]
    BY EnumeratesRow
  <1> QED
    BY <1>1, <1>2 DEF BatchesOf

LEMMA EnumeratesNothing == Enumerates(<<>>, {}) /\ BatchesOf(<<>>) = <<>>
  BY DEF Enumerates, BatchesOf

\* Rows that all come later are listed after the others.
LEMMA EnumeratesBoth ==
  ASSUME NEW q, NEW rows, Enumerates(q, rows), NEW p, NEW more, Enumerates(p, more),
         \A old \in rows, new \in more : old.id < new.id
  PROVE  Enumerates(q \o p, rows \cup more) /\ BatchesOf(q \o p) = BatchesOf(q) \o BatchesOf(p)
  <1>1. /\ q \in Seq(Row) /\ p \in Seq(Row) /\ Len(q) \in Nat /\ Len(p) \in Nat
        /\ q \o p \in Seq(Row) /\ Len(q \o p) = Len(q) + Len(p)
        /\ \A i \in 1 .. Len(q) : (q \o p)[i] = q[i]
        /\ \A i \in 1 .. Len(p) : (q \o p)[Len(q) + i] = p[i]
    BY DEF Enumerates
  <1> DEFINE both == q \o p
  <1>2. ASSUME NEW i \in 1 .. Len(q) + Len(p), i > Len(q)
        PROVE  i - Len(q) \in 1 .. Len(p) /\ both[i] = p[i - Len(q)]
    BY <1>1, <1>2
  <1>3. rows \cup more = {both[i] : i \in 1 .. Len(both)}
    <2>1. ASSUME NEW row \in rows \cup more PROVE \E i \in 1 .. Len(both) : row = both[i]
      <3>1. CASE row \in rows
        BY <3>1, <1>1 DEF Enumerates
      <3>2. CASE row \in more
        <4>1. PICK i \in 1 .. Len(p) : row = p[i]
          BY <3>2 DEF Enumerates
        <4>2. Len(q) + i \in 1 .. Len(both)
          BY <1>1
        <4> QED
          BY <4>1, <4>2, <1>1
      <3> QED
        BY <3>1, <3>2
    <2>2. ASSUME NEW i \in 1 .. Len(both) PROVE both[i] \in rows \cup more
      <3>1. CASE i <= Len(q)
        BY <3>1, <1>1 DEF Enumerates
      <3>2. CASE i > Len(q)
        BY <3>2, <1>1, <1>2 DEF Enumerates
      <3> QED
        BY <3>1, <3>2, <1>1
    <2> QED
      BY <2>1, <2>2
  <1>4. ASSUME NEW i \in 1 .. Len(both), NEW j \in 1 .. Len(both), i < j
        PROVE  both[i].id < both[j].id
    <2>1. CASE j <= Len(q)
      <3>1. i \in 1 .. Len(q) /\ j \in 1 .. Len(q)
        BY <2>1, <1>1, <1>4
      <3> QED
        BY <3>1, <1>1, <1>4 DEF Enumerates
    <2>2. CASE i > Len(q)
      <3>1. /\ i - Len(q) \in 1 .. Len(p) /\ both[i] = p[i - Len(q)]
            /\ j - Len(q) \in 1 .. Len(p) /\ both[j] = p[j - Len(q)]
            /\ i - Len(q) < j - Len(q)
        BY <2>2, <1>1, <1>2, <1>4
      <3> QED
        BY <3>1 DEF Enumerates
    <2>3. CASE i <= Len(q) /\ j > Len(q)
      <3>1. i \in 1 .. Len(q) /\ both[i] = q[i] /\ both[i] \in rows
        BY <2>3, <1>1 DEF Enumerates
      <3>2. both[j] \in more
        BY <2>3, <1>1, <1>2 DEF Enumerates
      <3> QED
        BY <3>1, <3>2
    <2> QED
      BY <2>1, <2>2, <2>3, <1>1
  <1> HIDE DEF both
  <1>5. Enumerates(both, rows \cup more)
    BY <1>1, <1>3, <1>4 DEF Enumerates, both
  <1>6. BatchesOf(both) = BatchesOf(q) \o BatchesOf(p)
    <2>1. /\ \A i \in 1 .. Len(q) : both[i] = q[i]
          /\ Len(both) = Len(q) + Len(p)
          /\ \A i \in 1 .. Len(q) + Len(p) : i > Len(q) =>
               i - Len(q) \in 1 .. Len(p) /\ both[i] = p[i - Len(q)]
      BY <1>1, <1>2 DEF both
    <2>2. BatchesOf(both) = [i \in 1 .. Len(q) + Len(p) |-> both[i].batch]
      BY <2>1 DEF BatchesOf
    <2> DEFINE s == BatchesOf(q)
               t == BatchesOf(p)
    <2>3. /\ s \in Seq(BatchPool) /\ Len(s) = Len(q) /\ t \in Seq(BatchPool) /\ Len(t) = Len(p)
          /\ \A i \in 1 .. Len(q) : s[i] = q[i].batch
          /\ \A i \in 1 .. Len(p) : t[i] = p[i].batch
      BY EnumeratesType DEF BatchesOf
    <2> HIDE DEF s, t
    <2>4. /\ s \o t \in Seq(BatchPool) /\ Len(s \o t) = Len(s) + Len(t)
          /\ \A i \in 1 .. Len(s) : (s \o t)[i] = s[i]
          /\ \A i \in 1 .. Len(t) : (s \o t)[Len(s) + i] = t[i]
      <3>1. s \in Seq(BatchPool) /\ t \in Seq(BatchPool)
        BY <2>3
      <3> QED
        BY <3>1
    <2> DEFINE u == s \o t
               v == BatchesOf(both)
    <2>5. ASSUME NEW i \in 1 .. Len(q) + Len(p) PROVE v[i] = u[i]
      <3>1. CASE i <= Len(q)
        <4>1. i \in 1 .. Len(q) /\ Len(s) = Len(q)
          BY <3>1, <2>3, <1>1
        <4>2. u[i] = s[i] /\ s[i] = q[i].batch
          BY <4>1, <2>3, <2>4
        <4>3. v[i] = q[i].batch
          BY <4>1, <2>1, <2>2
        <4> QED
          BY <4>2, <4>3
      <3>2. CASE i > Len(q)
        <4>1. i - Len(q) \in 1 .. Len(p) /\ Len(q) + (i - Len(q)) = i
          BY <3>2, <1>1
        <4>2. u[Len(q) + (i - Len(q))] = t[i - Len(q)]
          BY <4>1, <2>3, <2>4
        <4>3. v[i] = p[i - Len(q)].batch
          BY <3>2, <2>1, <2>2
        <4> QED
          BY <4>1, <4>2, <4>3, <2>3
      <3>3. i <= Len(q) \/ i > Len(q)
        BY <1>1
      <3> HIDE DEF u, v
      <3> QED
        BY <3>1, <3>2, <3>3
    <2>6. v \in Seq(BatchPool) /\ Len(v) = Len(q) + Len(p)
      BY <1>5, <2>1, EnumeratesType
    <2>7. u \in Seq(BatchPool) /\ Len(u) = Len(q) + Len(p)
      BY <2>3, <2>4
    <2> HIDE DEF u, v
    <2>8. u = v
      BY <2>5, <2>6, <2>7
    <2> QED
      BY <2>8 DEF u, v, s, t
  <1> QED
    BY <1>5, <1>6 DEF both

\* One row with a higher id is listed last.
LEMMA EnumeratesOneMore ==
  ASSUME NEW p, NEW rows, Enumerates(p, rows), NEW new \in Row,
         \A old \in rows : old.id < new.id
  PROVE  /\ Enumerates(Append(p, new), rows \cup {new})
         /\ BatchesOf(Append(p, new)) = Append(BatchesOf(p), new.batch)
  <1>1. Enumerates(<<new>>, {new})
    <2>1. <<new>> \in Seq(Row) /\ Len(<<new>>) = 1 /\ <<new>>[1] = new
      OBVIOUS
    <2> QED
      BY <2>1 DEF Enumerates
  <1>2. Append(p, new) = p \o <<new>>
    BY DEF Enumerates
  <1>3. BatchesOf(<<new>>) = <<new.batch>>
    BY DEF BatchesOf
  <1>4. Append(BatchesOf(p), new.batch) = BatchesOf(p) \o <<new.batch>>
    <2>1. BatchesOf(p) \in Seq(BatchPool) /\ new.batch \in BatchPool
      BY EnumeratesType DEF Row
    <2> QED
      BY <2>1
  <1> DEFINE last == <<new>>
             more == {new}
  <1>5. /\ Enumerates(p \o last, rows \cup more)
        /\ BatchesOf(p \o last) = BatchesOf(p) \o BatchesOf(last)
    <2>1. Enumerates(last, more) /\ \A old \in rows, row \in more : old.id < row.id
      BY <1>1
    <2> HIDE DEF last, more
    <2> QED
      BY <2>1, EnumeratesBoth
  <1> QED
    BY <1>2, <1>3, <1>4, <1>5

-----------------------------------------------------------------------------
(* What an open transaction is about to append to the log.                 *)

DistinctRequest(batches) ==
  \A i, j \in DOMAIN batches : i # j => EventIds(batches[i]) \cap EventIds(batches[j]) = {}

StoredBatches(d) == {row.batch : row \in committed[d]}

\* Its rows are what the loop has gone over and the log does not hold, in the
\* order of the request.
Ordered(r, stored) ==
  /\ r.phase \in {"lock", "authorize", "hashes", "scan"} => DistinctRequest(r.batches)
  /\ r.phase \in {"authorize", "hashes", "scan"} =>
       /\ r.index \in 1 .. Len(r.batches) + 1
       /\ \E p : /\ Enumerates(p, r.inserted)
                 /\ BatchesOf(p) = Without(SubSeq(r.batches, 1, r.index - 1), stored)

LogInv ==
  /\ \A d \in Docs : \E q : Enumerates(q, committed[d])
  /\ \A c \in Calls : Ordered(call[c], StoredBatches(call[c].doc))

LEMMA LogInit == Init => LogInv
  <1> SUFFICES ASSUME Init PROVE LogInv
    OBVIOUS
  <1>1. \A d \in Docs : \E q : Enumerates(q, committed[d])
    <2>1. \A d \in Docs : committed[d] = {}
      BY DEF Init
    <2> QED
      BY <2>1, EnumeratesNothing
  <1>2. \A c \in Calls : call[c].phase = "idle"
    BY DEF Init, NeverCalled, NewCall
  <1> QED
    BY <1>1, <1>2 DEF LogInv, Ordered

\* What one call does to its own record decides; the log stays.
LEMMA OrderLocal ==
  ASSUME IInv, LogInv, NEW c \in Calls, UNCHANGED committed,
         \A other \in Calls : other # c => call'[other] = call[other],
         Ordered(call'[c], StoredBatches(call'[c].doc))
  PROVE  LogInv'
  <1>1. \A d : StoredBatches(d)' = StoredBatches(d)
    BY DEF StoredBatches
  <1>2. \A d \in Docs : \E q : Enumerates(q, committed[d])
    BY DEF LogInv
  <1>3. \A other \in Calls : Ordered(call'[other], StoredBatches(call'[other].doc))
    BY DEF LogInv
  <1> QED
    BY <1>1, <1>2, <1>3 DEF LogInv

LEMMA OrderOutside ==
  ASSUME IInv, LogInv, NEW c \in Calls, NEW r, Becomes(c, r), UNCHANGED committed,
         r.phase \notin {"lock", "authorize", "hashes", "scan"}
  PROVE  LogInv'
  <1>1. call'[c] = r /\ \A other \in Calls : other # c => call'[other] = call[other]
    BY DEF Becomes, IInv, TypeOK
  <1>2. Ordered(r, StoredBatches(r.doc))
    BY DEF Ordered
  <1> QED
    BY <1>1, <1>2, OrderLocal

LEMMA OrderFinish ==
  ASSUME IInv, LogInv, NEW c \in Calls, NEW result, Finish(c, result), UNCHANGED committed
  PROVE  LogInv'
  <1> DEFINE r == [call[c] EXCEPT !.phase = "idle", !.result = result,
                                  !.inserted = {}, !.shared = FALSE]
  <1>1. r.phase = "idle" /\ Becomes(c, r)
    BY DEF Finish, IInv, TypeOK, CallRecord
  <1> HIDE DEF r
  <1> QED
    BY <1>1, OrderOutside

LEMMA OrderCheck ==
  ASSUME IInv, LogInv, NEW c \in Calls, CheckIncoming(c)
  PROVE  LogInv'
  <1>1. CASE Finish(c, "duplicate-incoming-event-id")
    BY <1>1, OrderFinish DEF CheckIncoming
  <1>2. CASE /\ DistinctRequest(call[c].batches)
             /\ Becomes(c, [call[c] EXCEPT !.phase = "lock"])
    <2> DEFINE r == [call[c] EXCEPT !.phase = "lock"]
    <2>1. r.phase = "lock" /\ r.batches = call[c].batches
      BY DEF IInv, TypeOK, CallRecord
    <2>2. Becomes(c, r)
      BY <1>2
    <2> HIDE DEF r
    <2>3. call'[c] = r /\ \A other \in Calls : other # c => call'[other] = call[other]
      BY <2>2 DEF Becomes, IInv, TypeOK
    <2>4. Ordered(r, StoredBatches(r.doc))
      BY <1>2, <2>1 DEF Ordered
    <2> QED
      BY <2>3, <2>4, OrderLocal DEF CheckIncoming
  <1> QED
    BY <1>1, <1>2 DEF CheckIncoming, DistinctRequest

LEMMA OrderAcquire ==
  ASSUME IInv, LogInv, NEW c \in Calls, AcquireLock(c)
  PROVE  LogInv'
  <1> DEFINE r == [call[c] EXCEPT !.phase = "authorize"]
  <1>1. /\ r.phase = "authorize" /\ r.batches = call[c].batches /\ r.index = call[c].index
        /\ r.inserted = call[c].inserted /\ r.doc = call[c].doc
    BY DEF IInv, TypeOK, CallRecord
  <1>2. Becomes(c, r)
    BY DEF AcquireLock
  <1> HIDE DEF r
  <1>3. call'[c] = r /\ \A other \in Calls : other # c => call'[other] = call[other]
    BY <1>2 DEF Becomes, IInv, TypeOK
  <1>4. call[c].inserted = {} /\ call[c].index = 1
    BY DEF AcquireLock, IInv, CallInv, TransactionInv, Unscanned
  <1>5. call[c].batches \in Seq(BatchPool)
    BY BatchesType DEF IInv
  <1>6. SubSeq(r.batches, 1, r.index - 1) = <<>>
    BY <1>1, <1>4, <1>5
  <1>7. Without(<<>>, StoredBatches(r.doc)) = <<>>
    <2>1. <<>> \in Seq(BatchPool) /\ ToSet(<<>>) \subseteq StoredBatches(r.doc)
      BY DEF ToSet
    <2> QED
      BY <2>1, WithoutAll
  <1>8. DistinctRequest(call[c].batches)
    BY DEF LogInv, Ordered, AcquireLock
  <1>9. r.index \in 1 .. Len(r.batches) + 1
    BY <1>1, <1>4, <1>5
  <1>10. Ordered(r, StoredBatches(r.doc))
    BY <1>1, <1>4, <1>6, <1>7, <1>8, <1>9, EnumeratesNothing DEF Ordered
  <1> QED
    BY <1>3, <1>10, OrderLocal DEF AcquireLock

\* Inside its transaction a call changes other parts of its record.
LEMMA OrderStay ==
  ASSUME IInv, LogInv, NEW c \in Calls, NEW r, Becomes(c, r), UNCHANGED committed,
         InTransaction(c), r.batches = call[c].batches, r.index = call[c].index,
         r.inserted = call[c].inserted, r.doc = call[c].doc
  PROVE  LogInv'
  <1>1. call'[c] = r /\ \A other \in Calls : other # c => call'[other] = call[other]
    BY DEF Becomes, IInv, TypeOK
  <1>2. Ordered(r, StoredBatches(r.doc))
    BY DEF LogInv, Ordered, InTransaction
  <1> QED
    BY <1>1, <1>2, OrderLocal

LEMMA OrderAuthorize ==
  ASSUME IInv, LogInv, NEW c \in Calls, AuthorizeWrite(c)
  PROVE  LogInv'
  <1>1. CASE Finish(c, "authorization")
    BY <1>1, OrderFinish DEF AuthorizeWrite
  <1>2. CASE Becomes(c, [call[c] EXCEPT !.phase = AfterAuthorization(c), !.shared = TRUE])
    <2> DEFINE r == [call[c] EXCEPT !.phase = AfterAuthorization(c), !.shared = TRUE]
    <2>1. /\ r.batches = call[c].batches /\ r.index = call[c].index
          /\ r.inserted = call[c].inserted /\ r.doc = call[c].doc
      BY DEF IInv, TypeOK, CallRecord
    <2>2. Becomes(c, r) /\ InTransaction(c)
      BY <1>2 DEF AuthorizeWrite, InTransaction
    <2> HIDE DEF r
    <2> QED
      BY <2>1, <2>2, OrderStay DEF AuthorizeWrite
  <1> QED
    BY <1>1, <1>2 DEF AuthorizeWrite

LEMMA OrderLoad ==
  ASSUME IInv, LogInv, NEW c \in Calls, LoadHashes(c)
  PROVE  LogInv'
  <1> DEFINE r == [call[c] EXCEPT !.phase = "scan",
                                  !.hashes = {row.batch : row \in committed[call[c].doc]}]
  <1>1. /\ r.batches = call[c].batches /\ r.index = call[c].index
        /\ r.inserted = call[c].inserted /\ r.doc = call[c].doc
    BY DEF IInv, TypeOK, CallRecord
  <1>2. Becomes(c, r) /\ InTransaction(c)
    BY DEF LoadHashes, InTransaction
  <1> HIDE DEF r
  <1> QED
    BY <1>1, <1>2, OrderStay DEF LoadHashes

\* The loop moves on: the batch is in the log already, or its row is the last
\* of the transaction's.
LEMMA OrderNextBatch ==
  ASSUME IInv, LogInv, NEW c \in Calls, NEW rows, NextBatch(c, rows), UNCHANGED committed,
         call[c].phase = "scan", call[c].index \in DOMAIN call[c].batches,
         \/ rows = {} /\ Batch(c) \in {row.batch : row \in Visible(c)}
         \/ /\ rows = {[id |-> nextId, batch |-> Batch(c)]}
            /\ ~Clashes(Batch(c), Visible(c))
  PROVE  LogInv'
  <1> DEFINE r == [call[c] EXCEPT !.index = @ + 1, !.inserted = @ \cup rows,
                                  !.available = @ \cup EventIds(Batch(c))]
             b == call[c].batches
             n == call[c].index
             stored == StoredBatches(call[c].doc)
  <1>1. /\ r.phase = "scan" /\ r.doc = call[c].doc /\ r.inserted = call[c].inserted \cup rows
        /\ r.batches = call[c].batches /\ r.index = call[c].index + 1
    BY DEF IInv, TypeOK, CallRecord
  <1>2. Becomes(c, r)
    BY DEF NextBatch
  <1> HIDE DEF r
  <1>3. call'[c] = r /\ \A other \in Calls : other # c => call'[other] = call[other]
    BY <1>2 DEF Becomes, IInv, TypeOK
  <1>4. /\ b \in Seq(BatchPool) /\ n \in 1 .. Len(b) /\ Len(b) \in Nat /\ b[n] = Batch(c)
        /\ b[n] \in BatchPool
    BY BatchesType DEF IInv, Batch
  <1>5. DistinctRequest(b)
    BY DEF LogInv, Ordered
  <1>6. PICK p : Enumerates(p, call[c].inserted) /\ BatchesOf(p) = Without(SubSeq(b, 1, n - 1), stored)
    BY DEF LogInv, Ordered
  <1>7. /\ SubSeq(b, 1, n - 1) \in Seq(BatchPool)
        /\ Len(SubSeq(b, 1, n - 1)) = n - 1
        /\ \A i \in 1 .. n - 1 : SubSeq(b, 1, n - 1)[i] = b[i]
        /\ SubSeq(b, 1, (n + 1) - 1) = Append(SubSeq(b, 1, n - 1), b[n])
    <2>1. (n + 1) - 1 = n
      BY <1>4
    <2> HIDE DEF b, n
    <2> QED
      BY <2>1, <1>4, PrefixAppend
  <1>8. Without(SubSeq(b, 1, (n + 1) - 1), stored) =
          IF b[n] \in stored THEN Without(SubSeq(b, 1, n - 1), stored)
          ELSE Append(Without(SubSeq(b, 1, n - 1), stored), b[n])
    <2> DEFINE s == SubSeq(b, 1, n - 1)
               x == b[n]
    <2>1. s \in Seq(BatchPool) /\ x \in BatchPool
      BY <1>4, <1>7
    <2> HIDE DEF s, x, stored
    <2>2. Without(Append(s, x), stored) =
            IF x \in stored THEN Without(s, stored) ELSE Append(Without(s, stored), x)
      BY <2>1, WithoutAppend
    <2> QED
      BY <2>2, <1>7 DEF s, x
  <1>9. \E more : /\ Enumerates(more, call[c].inserted \cup rows)
                  /\ BatchesOf(more) = Without(SubSeq(b, 1, (n + 1) - 1), stored)
    <2>1. CASE rows = {} /\ Batch(c) \in {row.batch : row \in Visible(c)}
      <3>1. b[n] \in stored
        <4> SUFFICES ASSUME b[n] \notin stored PROVE FALSE
          OBVIOUS
        <4>1. PICK row \in call[c].inserted : row.batch = b[n]
          BY <1>4, <2>1 DEF Visible, StoredBatches
        <4>2. PICK k \in 1 .. Len(p) : p[k] = row
          BY <4>1, <1>6 DEF Enumerates
        <4> DEFINE w == Without(SubSeq(b, 1, n - 1), stored)
        <4>3. w \in Seq(BatchPool) /\ ToSet(w) \subseteq ToSet(SubSeq(b, 1, n - 1))
          <5> DEFINE s == SubSeq(b, 1, n - 1)
          <5>1. s \in Seq(BatchPool)
            BY <1>7
          <5> HIDE DEF s, stored
          <5>2. Without(s, stored) \in Seq(BatchPool) /\ ToSet(Without(s, stored)) = ToSet(s) \ stored
            BY <5>1, WithoutSet
          <5> QED
            BY <5>2 DEF s
        <4>4. Len(BatchesOf(p)) = Len(p) /\ BatchesOf(p)[k] = b[n]
          BY <1>6, <4>1, <4>2, EnumeratesType DEF BatchesOf
        <4>5. b[n] \in ToSet(w)
          <5> HIDE DEF w
          <5>1. k \in DOMAIN w /\ w[k] = b[n]
            BY <1>6, <4>2, <4>3, <4>4 DEF w
          <5> QED
            BY <5>1 DEF ToSet
        <4>6. PICK i \in DOMAIN SubSeq(b, 1, n - 1) : SubSeq(b, 1, n - 1)[i] = b[n]
          BY <4>3, <4>5 DEF ToSet
        <4>7. i \in 1 .. n - 1 /\ b[i] = b[n]
          BY <4>6, <1>4, <1>7
        <4>8. i \in DOMAIN b /\ n \in DOMAIN b /\ i # n
          BY <4>7, <1>4
        <4>9. EventIds(b[n]) = {}
          BY <4>7, <4>8, <1>5 DEF DistinctRequest
        <4> QED
          BY <4>9, <1>4, PoolAssumption
      <3> QED
        BY <1>6, <1>8, <2>1, <3>1
    <2>2. CASE /\ rows = {[id |-> nextId, batch |-> Batch(c)]}
               /\ ~Clashes(Batch(c), Visible(c))
      <3> DEFINE new == [id |-> nextId, batch |-> Batch(c)]
      <3>1. new \in Row /\ new.batch = b[n] /\ new.id = nextId
        BY <1>4 DEF Row, IInv, TypeOK
      <3>2. \A old \in call[c].inserted : old.id < new.id
        BY <3>1 DEF IInv, CallInv, IdInv
      <3> HIDE DEF new
      <3>3. /\ Enumerates(Append(p, new), call[c].inserted \cup {new})
            /\ BatchesOf(Append(p, new)) = Append(BatchesOf(p), b[n])
        BY <1>6, <3>1, <3>2, EnumeratesOneMore
      <3>4. b[n] \notin stored
        BY <2>2, <1>4 DEF Clashes, Visible, StoredBatches
      <3> QED
        BY <1>6, <1>8, <2>2, <3>3, <3>4 DEF new
    <2> QED
      BY <2>1, <2>2
  <1>10. r.index \in 1 .. Len(r.batches) + 1
    BY <1>1, <1>4
  <1>11. Ordered(r, StoredBatches(r.doc))
    BY <1>1, <1>5, <1>9, <1>10 DEF Ordered
  <1> QED
    BY <1>3, <1>11, OrderLocal

LEMMA OrderScan ==
  ASSUME IInv, LogInv, NEW c \in Calls, ScanBatch(c)
  PROVE  LogInv'
  <1>0. /\ UNCHANGED committed
        /\ call[c].phase = "scan" /\ call[c].index \in DOMAIN call[c].batches
    BY DEF ScanBatch
  <1>1. CASE Finish(c, "missing-parent-history") \/ Finish(c, "batch-payload-conflict")
    BY <1>0, <1>1, OrderFinish
  <1>2. CASE Stored(c) = {Batch(c)} /\ NextBatch(c, {})
    <2>1. Batch(c) \in {row.batch : row \in Visible(c)}
      <3>1. call[c].hashes \subseteq {row.batch : row \in committed[call[c].doc]}
        BY <1>0 DEF IInv, CallInv, ScanInv, InTransaction
      <3> QED
        BY <1>2, <3>1 DEF Stored, Visible
    <2> QED
      BY <1>0, <1>2, <2>1, OrderNextBatch
  <1>3. CASE UniqueViolation(c)
    <2>1. Violated(c).phase \in {"verify", "idle"}
      BY DEF Violated, IInv, TypeOK, CallRecord
    <2>2. Becomes(c, Violated(c))
      BY <1>3 DEF UniqueViolation
    <2> QED
      BY <1>0, <2>1, <2>2, OrderOutside
  <1>4. CASE /\ ~Clashes(Batch(c), Visible(c))
             /\ NextBatch(c, {[id |-> nextId, batch |-> Batch(c)]})
    BY <1>0, <1>4, OrderNextBatch
  <1> QED
    BY <1>1, <1>2, <1>3, <1>4 DEF ScanBatch

\* The rows that listed the log, then the transaction's, list the log.
LEMMA CommitAppends ==
  ASSUME IInv, LogInv, NEW c \in Calls, Commit(c)
  PROVE  \E q, p : LET d == call[c].doc IN
           /\ Enumerates(q, committed[d]) /\ BatchesOf(q) \in Seq(BatchPool)
           /\ BatchesOf(p) = Without(call[c].batches, StoredBatches(d))
           /\ Enumerates(q \o p, committed'[d])
           /\ BatchesOf(q \o p) = BatchesOf(q) \o BatchesOf(p)
  <1> DEFINE d == call[c].doc
  <1>1. d \in Docs /\ committed'[d] = committed[d] \cup call[c].inserted
    BY DEF Commit, IInv, TypeOK, CallRecord
  <1>2. PICK q : Enumerates(q, committed[d])
    BY <1>1 DEF LogInv
  <1>3. PICK p : /\ Enumerates(p, call[c].inserted)
                 /\ BatchesOf(p) = Without(SubSeq(call[c].batches, 1, call[c].index - 1),
                                           StoredBatches(d))
    BY DEF LogInv, Ordered, Commit
  <1>4. call[c].batches \in Seq(BatchPool) /\ call[c].index \in 1 .. Len(call[c].batches) + 1
    BY BatchesType DEF IInv, LogInv, Ordered, Commit
  <1>5. SubSeq(call[c].batches, 1, call[c].index - 1) = call[c].batches
    <2>1. call[c].index = Len(call[c].batches) + 1
      BY <1>4 DEF Commit
    <2>2. (Len(call[c].batches) + 1) - 1 = Len(call[c].batches)
      BY <1>4
    <2>3. SubSeq(call[c].batches, 1, Len(call[c].batches)) = call[c].batches
      BY <1>4
    <2> QED
      BY <2>1, <2>2, <2>3
  <1>6. \A old \in committed[d], new \in call[c].inserted : old.id < new.id
    BY DEF IInv, CallInv, IdInv
  <1> HIDE DEF d
  <1>7. /\ Enumerates(q \o p, committed[d] \cup call[c].inserted)
        /\ BatchesOf(q \o p) = BatchesOf(q) \o BatchesOf(p)
    BY <1>2, <1>3, <1>6, EnumeratesBoth
  <1>8. BatchesOf(q) \in Seq(BatchPool)
    BY <1>2, EnumeratesType
  <1> QED
    BY <1>1, <1>2, <1>3, <1>5, <1>7, <1>8 DEF d

LEMMA OrderCommit ==
  ASSUME IInv, LogInv, NEW c \in Calls, Commit(c)
  PROVE  LogInv'
  <1> DEFINE d == call[c].doc
  <1>1. /\ d \in Docs /\ \A e \in Docs : e # d => committed'[e] = committed[e]
    BY DEF Commit, IInv, TypeOK, CallRecord
  <1>2. \E q : Enumerates(q, committed'[d])
    BY CommitAppends
  <1>3. \A e \in Docs : \E q : Enumerates(q, committed'[e])
    BY <1>1, <1>2 DEF LogInv
  <1>4. PICK result : Finish(c, result)
    BY DEF Commit
  <1>5. call'[c].phase = "idle" /\ \A other \in Calls : other # c => call'[other] = call[other]
    BY <1>4 DEF Finish, Becomes, IInv, TypeOK, CallRecord
  <1>6. ASSUME NEW other \in Calls
        PROVE  Ordered(call'[other], StoredBatches(call[other].doc)')
    <2>1. CASE other = c
      BY <2>1, <1>5 DEF Ordered
    <2>2. CASE other # c /\ call[other].doc = d
      <3>1. ~InTransaction(other) /\ call'[other] = call[other]
        BY <2>2, <1>5 DEF IInv, LockInv, InTransaction, Commit
      <3>2. Ordered(call[other], StoredBatches(call[other].doc))
        BY DEF LogInv
      <3> QED
        BY <3>1, <3>2 DEF Ordered, InTransaction
    <2>3. CASE other # c /\ call[other].doc # d
      <3>1. call[other].doc \in Docs /\ call'[other] = call[other]
        BY <2>3, <1>5 DEF IInv, TypeOK, CallRecord
      <3>2. committed'[call[other].doc] = committed[call[other].doc]
        BY <3>1, <2>3, <1>1
      <3>4. StoredBatches(call[other].doc)' = StoredBatches(call[other].doc)
        BY <3>1, <3>2 DEF StoredBatches
      <3>3. Ordered(call[other], StoredBatches(call[other].doc))
        BY DEF LogInv
      <3> QED
        BY <3>1, <3>3, <3>4
    <2> QED
      BY <2>1, <2>2, <2>3
  <1> QED
    BY <1>3, <1>6 DEF LogInv

LEMMA LogNext == IInv /\ LogInv /\ [Next]_vars => LogInv'
  <1> SUFFICES ASSUME IInv, LogInv, [Next]_vars PROVE LogInv'
    OBVIOUS
  <1>1. CASE UNCHANGED <<committed, call>>
    BY <1>1 DEF LogInv, StoredBatches
  <1>2. ASSUME NEW c \in Calls, NEW d \in Docs, NEW a \in Actors, NEW batches \in RequestPool,
               Submit(c, d, a, batches)
        PROVE  LogInv'
    <2>1. NewCall(d, a, batches).phase = "check"
      BY DEF NewCall
    <2> QED
      BY <1>2, <2>1, OrderOutside DEF Submit
  <1>3. ASSUME NEW c \in Calls, VerifyStored(c) PROVE LogInv'
    <2>1. CASE Finish(c, "ok") \/ Finish(c, "stored-event-id-conflict")
      BY <1>3, <2>1, OrderFinish DEF VerifyStored
    <2>2. CASE Becomes(c, [call[c] EXCEPT !.attempt = @ + 1])
      <3>1. [call[c] EXCEPT !.attempt = @ + 1].phase = "verify"
        BY <1>3 DEF VerifyStored, IInv, TypeOK, CallRecord
      <3> QED
        BY <1>3, <2>2, <3>1, OrderOutside DEF VerifyStored
    <2> QED
      BY <1>3, <2>1, <2>2 DEF VerifyStored
  <1>4. ASSUME NEW c \in Calls, AbortTransaction(c) PROVE LogInv'
    BY <1>4, OrderFinish DEF AbortTransaction
  <1>5. ASSUME NEW a \in Actors, NEW newRole \in Roles, ChangeRole(a, newRole) PROVE LogInv'
    BY <1>1, <1>5 DEF ChangeRole
  <1>6. ASSUME NEW x \in Readers, ReadPage(x) PROVE LogInv'
    BY <1>1, <1>6 DEF ReadPage
  <1>7. CASE UNCHANGED vars
    BY <1>1, <1>7 DEF vars
  <1> QED
    BY <1>2, <1>3, <1>4, <1>5, <1>6, <1>7, OrderCheck, OrderAcquire, OrderAuthorize, OrderLoad,
       OrderScan, OrderCommit
    DEF Next, AppendStep

-----------------------------------------------------------------------------
(* The refinement of EventLog.                                             *)

LEMMA SameWith ==
  ASSUME NEW queue, NEW more PROVE Log!With(queue, more) = With(queue, more)
  BY DEF Log!With, With, Log!Without, Without, Log!ToSet, ToSet

\* A causal and unique history is one a replica can apply from the start.
LEMMA LogApplies ==
  ASSUME NEW q, NEW rows, Enumerates(q, rows),
         \A row \in rows : ExternalParents(row.batch) \subseteq
                             {Bootstrap} \cup EventsOf({r \in rows : r.id < row.id}),
         \A r, s \in rows : \/ r.batch.batchId = s.batch.batchId
                            \/ EventIds(r.batch) \cap EventIds(s.batch) # {}
                            => r = s
  PROVE  Log!Applicable(BatchesOf(q))
  <1> DEFINE log == BatchesOf(q)
  <1>1. DOMAIN log = 1 .. Len(q) /\ \A i \in 1 .. Len(q) : log[i] = q[i].batch
    BY DEF BatchesOf
  <1>2. Len(q) \in Nat /\ \A i \in 1 .. Len(q) : q[i] \in rows /\ q[i].id \in Nat
    BY EnumeratesType DEF Enumerates
  <1> HIDE DEF log
  <1>3. ASSUME NEW i \in DOMAIN log
        PROVE  /\ ExternalParents(log[i]) \subseteq
                    {Bootstrap} \cup UNION {EventIds(batch) : batch \in {log[j] : j \in 1 .. (i - 1)}}
               /\ EventIds(log[i]) \cap
                    UNION {EventIds(batch) : batch \in {log[j] : j \in 1 .. (i - 1)}} = {}
               /\ \A batch \in {log[j] : j \in 1 .. (i - 1)} : batch.batchId # log[i].batchId
    <2>1. i \in 1 .. Len(q) /\ \A j \in 1 .. (i - 1) : j \in 1 .. Len(q) /\ j < i
      BY <1>1, <1>2
    <2>2. ASSUME NEW j \in 1 .. (i - 1)
          PROVE  /\ q[j] # q[i] /\ log[j] = q[j].batch /\ q[j] \in rows /\ q[i] \in rows
                 /\ EventIds(log[i]) \cap EventIds(log[j]) = {}
                 /\ log[j].batchId # log[i].batchId
      <3>1. q[j].id < q[i].id
        BY <2>1 DEF Enumerates
      <3>2. q[j] # q[i]
        BY <3>1, <2>1, <1>2
      <3> QED
        BY <3>2, <2>1, <1>1, <1>2
    <2>3. {r \in rows : r.id < q[i].id} \subseteq {q[j] : j \in 1 .. (i - 1)}
      <3>1. ASSUME NEW j \in 1 .. Len(q), q[j].id < q[i].id PROVE j \in 1 .. (i - 1)
        <4>1. CASE j < i
          BY <4>1, <2>1
        <4>2. CASE j = i
          BY <4>2, <3>1, <1>2
        <4>3. CASE i < j
          <5>1. q[i].id < q[j].id
            BY <4>3, <2>1 DEF Enumerates
          <5> QED
            BY <5>1, <3>1, <2>1, <1>2
        <4> QED
          BY <4>1, <4>2, <4>3, <2>1
      <3> QED
        BY <3>1 DEF Enumerates
    <2>4. EventsOf({r \in rows : r.id < q[i].id}) \subseteq
            UNION {EventIds(batch) : batch \in {log[j] : j \in 1 .. (i - 1)}}
      BY <2>2, <2>3 DEF EventsOf
    <2>5. ExternalParents(log[i]) \subseteq
            {Bootstrap} \cup EventsOf({r \in rows : r.id < q[i].id})
      BY <2>1, <1>1, <1>2
    <2> DEFINE before == {log[j] : j \in 1 .. (i - 1)}
    <2>6. ASSUME NEW batch \in before
          PROVE  EventIds(log[i]) \cap EventIds(batch) = {} /\ batch.batchId # log[i].batchId
      BY <2>2, <2>6
    <2> HIDE DEF before
    <2>7. EventIds(log[i]) \cap UNION {EventIds(batch) : batch \in before} = {}
      BY <2>6
    <2>8. ExternalParents(log[i]) \subseteq
            {Bootstrap} \cup UNION {EventIds(batch) : batch \in before}
      BY <2>4, <2>5 DEF before
    <2> QED
      BY <2>6, <2>7, <2>8 DEF before
  <1>4. \A batch : Log!EventIds(batch) = EventIds(batch)
    BY DEF Log!EventIds, EventIds
  <1>5. \A batch : Log!ExternalParents(batch) = ExternalParents(batch)
    BY DEF Log!ExternalParents, ExternalParents
  <1> QED
    BY <1>3, <1>4, <1>5 DEF Log!Applicable, log

\* The initial tables are the empty log.
LEMMA RefinesInit == Init => Log!Init
  <1> SUFFICES ASSUME Init PROVE Log!Init
    OBVIOUS
  <1>1. \A d \in Docs : LogOf(d) = <<>>
    <2>1. \A d \in Docs : committed[d] = {}
      BY DEF Init
    <2>2. [i \in 1 .. Cardinality({}) |-> RowAt({}, i).batch] = <<>>
      BY EnumeratesNothing, LogIs
    <2> QED
      BY <2>1, <2>2 DEF LogOf
  <1>2. \A c \in Calls : /\ call[c].phase = "idle" /\ call[c].result = "none" /\ call[c].batches = <<>>
                         /\ call[c].doc = CHOOSE d \in Docs : TRUE
    BY DEF Init, NeverCalled, NewCall
  <1>3. \A c \in Calls : AnswerOf(c) = "none"
    BY <1>2 DEF AnswerOf
  <1>4. Cardinality({}) = 0
    BY FS_EmptySet
  <1>5. PICK d \in Docs :
          reader = [x \in Readers |-> [doc |-> d, cursor |-> 0, got |-> {}, complete |-> FALSE]]
    BY DEF Init
  <1>6. [x \in Readers |-> [doc |-> reader[x].doc, length |-> Cardinality(reader[x].got)]]
          = [x \in Readers |-> [doc |-> d, length |-> 0]]
    BY <1>4, <1>5
  <1> QED
    BY <1>1, <1>2, <1>3, <1>6 DEF Log!Init

\* A step of one call that leaves the tables, its request and the readers
\* alone shows in the answer of the call only.
LEMMA MapCall ==
  ASSUME IInv, NEW c \in Calls, NEW r, Becomes(c, r), UNCHANGED <<committed, reader>>,
         r.doc = call[c].doc, r.batches = call[c].batches
  PROVE  /\ UNCHANGED <<[d \in Docs |-> LogOf(d)],
                        [x \in Calls |-> [doc |-> call[x].doc, batches |-> call[x].batches]],
                        [x \in Readers |-> [doc |-> reader[x].doc,
                                            length |-> Cardinality(reader[x].got)]]>>
         /\ [x \in Calls |-> AnswerOf(x)]' =
              [[x \in Calls |-> AnswerOf(x)] EXCEPT ![c] = AnswerOf(c)']
         /\ call'[c] = r
  <1>1. call'[c] = r /\ \A other \in Calls : other # c => call'[other] = call[other]
    BY DEF Becomes, IInv, TypeOK
  <1>2. UNCHANGED [d \in Docs |-> LogOf(d)]
    BY DEF LogOf
  <1>3. \A x \in Calls : call'[x].doc = call[x].doc /\ call'[x].batches = call[x].batches
    BY <1>1
  <1>4. \A x \in Calls : x # c => AnswerOf(x)' = AnswerOf(x)
    BY <1>1 DEF AnswerOf
  <1> QED
    BY <1>1, <1>2, <1>3, <1>4

\* A call that stays open shows nothing.
LEMMA MapStutter ==
  ASSUME IInv, NEW c \in Calls, NEW r, Becomes(c, r), UNCHANGED <<committed, reader>>,
         r.doc = call[c].doc, r.batches = call[c].batches,
         call[c].phase # "idle", r.phase # "idle"
  PROVE  UNCHANGED Log!vars
  <1>1. AnswerOf(c)' = AnswerOf(c)
    BY MapCall DEF AnswerOf
  <1> DEFINE answer == [x \in Calls |-> AnswerOf(x)]
  <1>2. answer' = [answer EXCEPT ![c] = AnswerOf(c)']
    BY MapCall
  <1>3. answer' = answer
    BY <1>1, <1>2
  <1> QED
    BY <1>3, MapCall DEF Log!vars

\* A call that ends with an error has appended nothing.
LEMMA MapFail ==
  ASSUME IInv, NEW c \in Calls, NEW r, Becomes(c, r), UNCHANGED <<committed, reader>>,
         r.doc = call[c].doc, r.batches = call[c].batches,
         call[c].phase # "idle", r.phase = "idle", r.result \notin {"none", "ok"}
  PROVE  Log!Fail(c)
  <1>1. AnswerOf(c) = "pending" /\ AnswerOf(c)' = "failed"
    BY MapCall DEF AnswerOf
  <1> QED
    BY <1>1, MapCall DEF Log!Fail

LEMMA MapFinish ==
  ASSUME IInv, NEW c \in Calls, NEW result, Finish(c, result), UNCHANGED <<committed, reader>>,
         call[c].phase # "idle", result \notin {"none", "ok"}
  PROVE  Log!Fail(c)
  <1> DEFINE r == [call[c] EXCEPT !.phase = "idle", !.result = result,
                                  !.inserted = {}, !.shared = FALSE]
  <1>1. /\ r.phase = "idle" /\ r.result = result /\ r.doc = call[c].doc
        /\ r.batches = call[c].batches /\ Becomes(c, r)
    BY DEF Finish, IInv, TypeOK, CallRecord
  <1> HIDE DEF r
  <1> QED
    BY <1>1, MapFail

LEMMA MapSubmit ==
  ASSUME IInv, NEW c \in Calls, NEW d \in Docs, NEW a \in Actors, NEW batches \in RequestPool,
         Submit(c, d, a, batches)
  PROVE  Log!Ask(c, d, batches)
  <1>1. /\ call'[c] = NewCall(d, a, batches)
        /\ \A other \in Calls : other # c => call'[other] = call[other]
    BY DEF Submit, Becomes, IInv, TypeOK
  <1>2. /\ call'[c].doc = d /\ call'[c].batches = batches /\ call'[c].phase = "check"
        /\ call[c].phase = "idle"
    BY <1>1 DEF NewCall, Submit
  <1>3. AnswerOf(c) # "pending" /\ AnswerOf(c)' = "pending"
    BY <1>2 DEF AnswerOf
  <1>4. \A x \in Calls : x # c => AnswerOf(x)' = AnswerOf(x)
    BY <1>1 DEF AnswerOf
  <1>5. UNCHANGED [e \in Docs |-> LogOf(e)] /\ reader' = reader
    BY DEF LogOf, Submit
  <1> QED
    BY <1>1, <1>2, <1>3, <1>4, <1>5 DEF Log!Ask

\* A call that ends well, or whose reply is lost after the commit, has put what
\* the log did not hold at the end of it.
LEMMA MapAppend ==
  ASSUME IInv, TypeOK', NEW c \in Calls, NEW result \in {"ok", "unavailable"}, Finish(c, result),
         call[c].phase # "idle", UNCHANGED reader,
         \A e \in Docs : e # call[c].doc => committed'[e] = committed[e],
         LogOf(call[c].doc)' = With(LogOf(call[c].doc), call[c].batches),
         Log!Applicable(LogOf(call[c].doc)')
  PROVE  Log!AppendAll(c)
  <1> DEFINE r == [call[c] EXCEPT !.phase = "idle", !.result = result,
                                  !.inserted = {}, !.shared = FALSE]
             d == call[c].doc
             log == [e \in Docs |-> LogOf(e)]
             answer == [x \in Calls |-> AnswerOf(x)]
             asked == [x \in Calls |-> [doc |-> call[x].doc, batches |-> call[x].batches]]
             seen == [x \in Readers |-> [doc |-> reader[x].doc,
                                         length |-> Cardinality(reader[x].got)]]
  <1>1. /\ r.phase = "idle" /\ r.result = result /\ r.doc = d
        /\ r.batches = call[c].batches /\ Becomes(c, r) /\ d \in Docs
    BY DEF Finish, IInv, TypeOK, CallRecord
  <1> HIDE DEF r
  <1>2. call'[c] = r /\ \A other \in Calls : other # c => call'[other] = call[other]
    BY <1>1 DEF Becomes, IInv, TypeOK
  <1>3. AnswerOf(c) = "pending"
    BY DEF AnswerOf
  <1>4. AnswerOf(c)' \in {"ok", "failed"}
    BY <1>1, <1>2 DEF AnswerOf
  <1>5. \A x \in Calls : x # c => AnswerOf(x)' = AnswerOf(x)
    BY <1>2 DEF AnswerOf
  <1>6. answer' = [answer EXCEPT ![c] = AnswerOf(c)']
    BY <1>5
  <1>7. \A x \in Calls : call'[x].doc = call[x].doc /\ call'[x].batches = call[x].batches
    BY <1>1, <1>2
  <1>8. asked' = asked /\ seen' = seen
    BY <1>7
  <1>9. \A e \in Docs : e # d => LogOf(e)' = LogOf(e)
    BY DEF LogOf
  <1>10. log' = [log EXCEPT ![d] = With(LogOf(d), call[c].batches)]
    BY <1>1, <1>2, <1>9
  <1>11. /\ asked[c].doc = d /\ asked[c].batches = call[c].batches /\ log[d] = LogOf(d)
         /\ answer[c] = "pending"
    BY <1>1, <1>3
  <1>12. Log!With(log[d], asked[c].batches) = With(LogOf(d), call[c].batches)
    BY <1>11, SameWith
  <1>13. Log!Applicable(With(LogOf(d), call[c].batches))
    OBVIOUS
  <1> HIDE DEF log, answer, asked, seen
  <1>14. /\ Log!Applicable(Log!With(log[asked[c].doc], asked[c].batches))
         /\ log' = [log EXCEPT ![asked[c].doc] = Log!With(log[asked[c].doc], asked[c].batches)]
    BY <1>10, <1>11, <1>12, <1>13
  <1> QED
    BY <1>4, <1>6, <1>8, <1>11, <1>14 DEF Log!AppendAll, log, answer, asked, seen

\* The batches of a log are those of its rows.
LEMMA LogBatches ==
  ASSUME NEW q, NEW rows, Enumerates(q, rows)
  PROVE  ToSet(BatchesOf(q)) = {row.batch : row \in rows}
  <1> DEFINE log == BatchesOf(q)
  <1>1. DOMAIN log = 1 .. Len(q) /\ \A i \in 1 .. Len(q) : log[i] = q[i].batch
    BY DEF BatchesOf
  <1> HIDE DEF log
  <1>2. ToSet(log) = {q[i].batch : i \in 1 .. Len(q)}
    BY <1>1 DEF ToSet
  <1> QED
    BY <1>2 DEF Enumerates, log

LEMMA MapCommit ==
  ASSUME IInv, IInv', LogInv, NEW c \in Calls, Commit(c)
  PROVE  Log!AppendAll(c)
  <1> DEFINE d == call[c].doc
  <1>1. /\ d \in Docs /\ \A e \in Docs : e # d => committed'[e] = committed[e]
        /\ UNCHANGED reader /\ call[c].phase # "idle"
    BY DEF Commit, IInv, TypeOK, CallRecord
  <1>2. PICK result \in {"ok", "unavailable"} : Finish(c, result)
    BY DEF Commit
  <1>3. call'[c].doc = d
    BY <1>2 DEF Finish, Becomes, IInv, TypeOK, CallRecord
  <1>4. PICK q, p :
          /\ Enumerates(q, committed[d]) /\ BatchesOf(q) \in Seq(BatchPool)
          /\ BatchesOf(p) = Without(call[c].batches, StoredBatches(d))
          /\ Enumerates(q \o p, committed'[d])
          /\ BatchesOf(q \o p) = BatchesOf(q) \o BatchesOf(p)
    BY CommitAppends
  <1>5. StoredBatches(d) = ToSet(BatchesOf(q))
    BY <1>4, LogBatches DEF StoredBatches
  <1> HIDE DEF d
  <1> DEFINE both == q \o p
  <1>6. Enumerates(both, committed'[d]) /\ BatchesOf(both) = BatchesOf(q) \o BatchesOf(p)
    BY <1>4
  <1> HIDE DEF both
  <1>7. LogOf(d) = BatchesOf(q) /\ LogOf(call[c].doc) = LogOf(d)
    BY <1>4, LogIs DEF LogOf, d
  <1>8. LogOf(call[c].doc)' = BatchesOf(both)
    BY <1>3, <1>6, LogIs DEF LogOf
  <1>9. LogOf(call[c].doc)' = With(LogOf(call[c].doc), call[c].batches)
    BY <1>4, <1>5, <1>6, <1>7, <1>8 DEF With
  <1>10. Log!Applicable(BatchesOf(both))
    <2>1. /\ \A row \in committed'[d] : ExternalParents(row.batch) \subseteq
                {Bootstrap} \cup EventsOf({r \in committed'[d] : r.id < row.id})
          /\ \A r, s \in committed'[d] :
               \/ r.batch.batchId = s.batch.batchId
               \/ EventIds(r.batch) \cap EventIds(s.batch) # {}
               => r = s
      BY <1>1 DEF IInv, CausalHistory, UniqueHistory
    <2> QED
      BY <2>1, <1>6, LogApplies
  <1>11. Log!Applicable(LogOf(call[c].doc)')
    BY <1>8, <1>10
  <1>12. TypeOK'
    BY DEF IInv
  <1> QED
    BY <1>1, <1>2, <1>9, <1>11, <1>12, MapAppend DEF d

\* A request that turns out to be stored already appends nothing.
LEMMA MapVerify ==
  ASSUME IInv, IInv', LogInv, NEW c \in Calls, VerifyStored(c)
  PROVE  Log!Next \/ UNCHANGED Log!vars
  <1> DEFINE d == call[c].doc
  <1>0. UNCHANGED <<committed, reader>> /\ call[c].phase = "verify" /\ d \in Docs
    BY DEF VerifyStored, IInv, TypeOK, CallRecord
  <1>1. CASE /\ Finish(c, "ok")
             /\ \A i \in DOMAIN call[c].batches : call[c].batches[i] \in StoredBatches(d)
    <2>1. PICK q : Enumerates(q, committed[d])
      BY <1>0 DEF LogInv
    <2>2. call'[c].doc = d
      BY <1>1 DEF Finish, Becomes, IInv, TypeOK, CallRecord
    <2>3. StoredBatches(d) = ToSet(BatchesOf(q)) /\ BatchesOf(q) \in Seq(BatchPool)
      BY <2>1, LogBatches, EnumeratesType DEF StoredBatches
    <2>4. LogOf(call[c].doc) = BatchesOf(q)
      BY <2>1, LogIs DEF LogOf
    <2>5. LogOf(call[c].doc)' = BatchesOf(q)
      BY <2>1, <2>2, <1>0, LogIs DEF LogOf
    <2>6. Without(call[c].batches, ToSet(BatchesOf(q))) = <<>>
      <3>1. call[c].batches \in Seq(BatchPool)
        BY BatchesType DEF IInv
      <3>2. ToSet(call[c].batches) \subseteq ToSet(BatchesOf(q))
        <4>1. ToSet(call[c].batches) \subseteq StoredBatches(d)
          BY <1>1 DEF ToSet
        <4> QED
          BY <4>1, <2>3
      <3> QED
        BY <3>1, <3>2, WithoutAll
    <2>7. LogOf(call[c].doc)' = With(LogOf(call[c].doc), call[c].batches)
      <3>1. BatchesOf(q) \o <<>> = BatchesOf(q)
        BY <2>3
      <3> QED
        BY <3>1, <2>4, <2>5, <2>6 DEF With
    <2>8. Log!Applicable(BatchesOf(q))
      <3>1. /\ \A row \in committed[d] : ExternalParents(row.batch) \subseteq
                  {Bootstrap} \cup EventsOf({r \in committed[d] : r.id < row.id})
            /\ \A r, s \in committed[d] :
                 \/ r.batch.batchId = s.batch.batchId
                 \/ EventIds(r.batch) \cap EventIds(s.batch) # {}
                 => r = s
        BY <1>0 DEF IInv, CausalHistory, UniqueHistory
      <3> QED
        BY <3>1, <2>1, LogApplies
    <2>9. Log!Applicable(LogOf(call[c].doc)')
      BY <2>5, <2>8
    <2>10. TypeOK'
      BY DEF IInv
    <2>11. Log!AppendAll(c)
      BY <1>0, <1>1, <2>7, <2>9, <2>10, MapAppend
    <2> QED
      BY <2>11 DEF Log!Next
  <1>2. CASE Finish(c, "stored-event-id-conflict")
    <2>1. Log!Fail(c)
      BY <1>0, <1>2, MapFinish
    <2> QED
      BY <2>1 DEF Log!Next
  <1>3. CASE Becomes(c, [call[c] EXCEPT !.attempt = @ + 1])
    <2> DEFINE r == [call[c] EXCEPT !.attempt = @ + 1]
    <2>1. /\ r.phase = "verify" /\ r.doc = call[c].doc /\ r.batches = call[c].batches
          /\ Becomes(c, r)
      BY <1>0, <1>3 DEF IInv, TypeOK, CallRecord
    <2> HIDE DEF r
    <2> QED
      BY <1>0, <2>1, MapStutter
  <1> QED
    BY <1>1, <1>2, <1>3 DEF VerifyStored, StoredBatches

\* A page is the next PageSize batches of the log, or the rest of it.
LEMMA MapRead ==
  ASSUME IInv, LogInv, NEW x \in Readers, ReadPage(x)
  PROVE  Log!Read(x)
  <1> DEFINE d == reader[x].doc
             rows == RowsAfter(d, reader[x].cursor)
             got == reader[x].got
  <1>1. d \in Docs /\ reader[x] \in ReaderRecord /\ UNCHANGED <<committed, call>>
    BY DEF IInv, TypeOK, ReaderRecord, ReadPage
  <1>2. PICK page \in SUBSET rows :
          /\ IsPage(page, rows)
          /\ \/ page = {} /\ reader' = [reader EXCEPT ![x] = [@ EXCEPT !.complete = TRUE]]
             \/ \E last \in page : reader' = [reader EXCEPT ![x] = Received(x, page, last, rows)]
    BY DEF ReadPage
  <1>3. /\ \A y \in Readers : y # x => reader'[y] = reader[y]
        /\ reader'[x].doc = d /\ reader'[x].got = got \cup page
    <2>1. CASE page = {} /\ reader' = [reader EXCEPT ![x] = [@ EXCEPT !.complete = TRUE]]
      BY <2>1, <1>1 DEF IInv, TypeOK, ReaderRecord
    <2>2. ASSUME NEW last \in page, reader' = [reader EXCEPT ![x] = Received(x, page, last, rows)]
          PROVE  /\ \A y \in Readers : y # x => reader'[y] = reader[y]
                 /\ reader'[x].doc = d /\ reader'[x].got = got \cup page
      <3>1. reader'[x] = Received(x, page, last, rows) /\ \A y \in Readers : y # x => reader'[y] = reader[y]
        BY <2>2 DEF IInv, TypeOK
      <3> HIDE DEF rows
      <3> QED
        BY <3>1, <1>1 DEF Received, ReaderRecord
    <2> QED
      BY <1>2, <2>1, <2>2
  <1>4. PICK q : Enumerates(q, committed[d])
    BY <1>1 DEF LogInv
  <1>5. got = {row \in committed[d] : row.id <= reader[x].cursor}
    BY DEF IInv, NoRowBehindCursor
  <1>6. /\ page \subseteq rows /\ got \cap rows = {} /\ got \cup rows = committed[d]
    <2>1. \A row \in committed[d] : row.id \in Nat
      BY <1>1 DEF IInv, TypeOK, Row
    <2>2. reader[x].cursor \in Nat
      BY <1>1 DEF ReaderRecord
    <2> QED
      BY <1>5, <2>1, <2>2 DEF RowsAfter
  <1>7. IsPage(page, rows)
    BY <1>2
  <1> HIDE DEF rows, got
  <1>8. IsFiniteSet(committed[d]) /\ Cardinality(committed[d]) \in Nat
    BY <1>4, EnumeratesCounts, FS_CardinalityType
  <1>9. /\ IsFiniteSet(got) /\ IsFiniteSet(rows) /\ IsFiniteSet(page)
        /\ Cardinality(got) \in Nat /\ Cardinality(page) \in Nat /\ Cardinality(rows) \in Nat
        /\ Cardinality(page) <= Cardinality(rows)
    BY <1>6, <1>8, FS_Subset, FS_CardinalityType
  <1>10. /\ Cardinality(committed[d]) = Cardinality(got) + Cardinality(rows)
         /\ Cardinality(got \cup page) = Cardinality(got) + Cardinality(page)
    <2>1. got \cap page = {} /\ got \cap rows = {} /\ Cardinality({}) = 0
      BY <1>6, FS_EmptySet
    <2>2. Cardinality(got \cup rows) = Cardinality(got) + Cardinality(rows) - Cardinality(got \cap rows)
      BY <1>9, FS_Union
    <2>3. Cardinality(got \cup page) = Cardinality(got) + Cardinality(page) - Cardinality(got \cap page)
      BY <1>9, FS_Union
    <2>4. Cardinality(got \cup rows) = Cardinality(committed[d])
      BY <1>6
    <2>5. Cardinality(got \cap rows) = 0 /\ Cardinality(got \cap page) = 0
      BY <2>1
    <2> QED
      BY <2>2, <2>3, <2>4, <2>5, <1>9
  <1>11. Cardinality(got \cup page) =
           IF Cardinality(got) + PageSize <= Cardinality(committed[d])
           THEN Cardinality(got) + PageSize ELSE Cardinality(committed[d])
    BY <1>7, <1>9, <1>10, BoundAssumption DEF IsPage
  <1>12. Len(LogOf(d)) = Cardinality(committed[d])
    BY <1>8 DEF LogOf
  <1> DEFINE seen == [y \in Readers |-> [doc |-> reader[y].doc,
                                         length |-> Cardinality(reader[y].got)]]
             log == [e \in Docs |-> LogOf(e)]
             length == Len(log[seen[x].doc])
  <1>13. length = Cardinality(committed[d])
    BY <1>1, <1>12
  <1>14. seen' = [seen EXCEPT ![x].length = IF @ + PageSize <= length THEN @ + PageSize ELSE length]
    <2>1. seen[x].length = Cardinality(got) /\ seen[x].doc = d
      BY DEF got
    <2>2. seen'[x] = [doc |-> d, length |-> Cardinality(got \cup page)]
      BY <1>3 DEF got
    <2>3. \A y \in Readers : y # x => seen'[y] = seen[y]
      BY <1>3
    <2> HIDE DEF length
    <2> QED
      BY <2>1, <2>2, <2>3, <1>11, <1>13
  <1>15. /\ UNCHANGED log
         /\ UNCHANGED [c \in Calls |-> [doc |-> call[c].doc, batches |-> call[c].batches]]
         /\ UNCHANGED [c \in Calls |-> AnswerOf(c)]
    BY <1>1 DEF LogOf, AnswerOf
  <1> HIDE DEF d
  <1> QED
    BY <1>14, <1>15 DEF Log!Read

LEMMA MapCheck ==
  ASSUME IInv, NEW c \in Calls, CheckIncoming(c)
  PROVE  Log!Fail(c) \/ UNCHANGED Log!vars
  <1>0. UNCHANGED <<committed, reader>> /\ call[c].phase # "idle"
    BY DEF CheckIncoming
  <1>1. CASE Finish(c, "duplicate-incoming-event-id")
    BY <1>0, <1>1, MapFinish
  <1>2. CASE Becomes(c, [call[c] EXCEPT !.phase = "lock"])
    <2>1. LET r == [call[c] EXCEPT !.phase = "lock"]
          IN  r.phase = "lock" /\ r.doc = call[c].doc /\ r.batches = call[c].batches
      BY DEF IInv, TypeOK, CallRecord
    <2> QED
      BY <1>0, <1>2, <2>1, MapStutter
  <1> QED
    BY <1>1, <1>2 DEF CheckIncoming

LEMMA MapAcquire ==
  ASSUME IInv, NEW c \in Calls, AcquireLock(c)
  PROVE  UNCHANGED Log!vars
  <1>1. LET r == [call[c] EXCEPT !.phase = "authorize"]
        IN  r.phase = "authorize" /\ r.doc = call[c].doc /\ r.batches = call[c].batches
    BY DEF IInv, TypeOK, CallRecord
  <1> QED
    BY <1>1, MapStutter DEF AcquireLock

LEMMA MapAuthorize ==
  ASSUME IInv, NEW c \in Calls, AuthorizeWrite(c)
  PROVE  Log!Fail(c) \/ UNCHANGED Log!vars
  <1>0. UNCHANGED <<committed, reader>> /\ call[c].phase # "idle"
    BY DEF AuthorizeWrite
  <1>1. CASE Finish(c, "authorization")
    BY <1>0, <1>1, MapFinish
  <1>2. CASE Becomes(c, [call[c] EXCEPT !.phase = AfterAuthorization(c), !.shared = TRUE])
    <2>1. AfterAuthorization(c) # "idle"
      BY DEF AfterAuthorization
    <2>2. LET r == [call[c] EXCEPT !.phase = AfterAuthorization(c), !.shared = TRUE]
          IN  /\ r.phase = AfterAuthorization(c) /\ r.doc = call[c].doc
              /\ r.batches = call[c].batches
      BY DEF IInv, TypeOK, CallRecord
    <2> QED
      BY <1>0, <1>2, <2>1, <2>2, MapStutter
  <1> QED
    BY <1>1, <1>2 DEF AuthorizeWrite

LEMMA MapLoad ==
  ASSUME IInv, NEW c \in Calls, LoadHashes(c)
  PROVE  UNCHANGED Log!vars
  <1> DEFINE r == [call[c] EXCEPT !.phase = "scan",
                                  !.hashes = {row.batch : row \in committed[call[c].doc]}]
  <1>1. r.phase = "scan" /\ r.doc = call[c].doc /\ r.batches = call[c].batches /\ Becomes(c, r)
    BY DEF IInv, TypeOK, CallRecord, LoadHashes
  <1> HIDE DEF r
  <1> QED
    BY <1>1, MapStutter DEF LoadHashes

LEMMA MapScan ==
  ASSUME IInv, NEW c \in Calls, ScanBatch(c)
  PROVE  Log!Fail(c) \/ UNCHANGED Log!vars
  <1>0. UNCHANGED <<committed, reader>> /\ call[c].phase = "scan" /\ call[c] \in CallRecord
    BY DEF ScanBatch, IInv, TypeOK
  <1>1. CASE Finish(c, "missing-parent-history") \/ Finish(c, "batch-payload-conflict")
    BY <1>0, <1>1, MapFinish
  <1>2. ASSUME NEW rows, NextBatch(c, rows) PROVE UNCHANGED Log!vars
    <2> DEFINE r == [call[c] EXCEPT !.index = @ + 1, !.inserted = @ \cup rows,
                                    !.available = @ \cup EventIds(Batch(c))]
    <2>1. r.phase = "scan" /\ r.doc = call[c].doc /\ r.batches = call[c].batches /\ Becomes(c, r)
      BY <1>0, <1>2 DEF CallRecord, NextBatch
    <2> HIDE DEF r
    <2> QED
      BY <1>0, <2>1, MapStutter
  <1>3. CASE UniqueViolation(c)
    <2>1. /\ Violated(c).doc = call[c].doc /\ Violated(c).batches = call[c].batches
          /\ Becomes(c, Violated(c))
      BY <1>0, <1>3 DEF Violated, CallRecord, UniqueViolation
    <2>2. \/ Violated(c).phase = "verify"
          \/ /\ Violated(c).phase = "idle"
             /\ Violated(c).result \in {"batch-payload-conflict", "stored-event-id-conflict"}
      BY <1>0 DEF Violated, CallRecord
    <2> QED
      BY <1>0, <2>1, <2>2, MapStutter, MapFail
  <1> QED
    BY <1>1, <1>2, <1>3 DEF ScanBatch

\* Every step of the tables is a step of the log or none.
LEMMA RefinesNext ==
  ASSUME IInv, IInv', LogInv, [Next]_vars
  PROVE  [Log!Next]_(Log!vars)
  <1>1. CASE UNCHANGED <<committed, call, reader>>
    BY <1>1 DEF Log!vars, LogOf, AnswerOf
  <1>2. ASSUME NEW c \in Calls, NEW d \in Docs, NEW a \in Actors, NEW batches \in RequestPool,
               Submit(c, d, a, batches)
        PROVE  Log!Next
    BY <1>2, MapSubmit DEF Log!Next
  <1>3. ASSUME NEW c \in Calls, AppendStep(c) PROVE [Log!Next]_(Log!vars)
    <2>1. ASSUME Log!Fail(c) \/ Log!AppendAll(c) PROVE Log!Next
      BY <2>1 DEF Log!Next
    <2> QED
      BY <1>3, <2>1, MapCheck, MapAcquire, MapAuthorize, MapLoad, MapScan, MapCommit, MapVerify
      DEF AppendStep
  <1>4. ASSUME NEW c \in Calls, AbortTransaction(c) PROVE Log!Next
    <2>1. Log!Fail(c)
      BY <1>4, MapFinish DEF AbortTransaction, InTransaction
    <2> QED
      BY <2>1 DEF Log!Next
  <1>5. ASSUME NEW x \in Readers, ReadPage(x) PROVE Log!Next
    BY <1>5, MapRead DEF Log!Next
  <1>6. ASSUME NEW a \in Actors, NEW newRole \in Roles, ChangeRole(a, newRole)
        PROVE  UNCHANGED <<committed, call, reader>>
    BY <1>6 DEF ChangeRole
  <1>7. CASE UNCHANGED vars
    BY <1>1, <1>7 DEF vars
  <1> QED
    BY <1>1, <1>2, <1>3, <1>4, <1>5, <1>6, <1>7 DEF Next

\* The hosts together implement one append-only log per document: an append
\* takes effect at once, adds only what is new and only at the end, and what
\* readers page through are ever longer prefixes of it.
THEOREM StoreImplementsLog == Spec => ImplementsEventLog
  <1>1. Init => Log!Init
    BY RefinesInit
  <1>2. IInv /\ IInv' /\ LogInv /\ [Next]_vars => [Log!Next]_(Log!vars)
    BY RefinesNext
  <1>3. Spec => []LogInv
    BY LogInit, LogNext, Invariance, PTL DEF Spec
  <1> QED
    BY <1>1, <1>2, <1>3, Invariance, PTL DEF Spec, ImplementsEventLog, Log!Spec
=============================================================================
