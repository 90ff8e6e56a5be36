------------------------- MODULE ClientSessionProofs -------------------------
(***************************************************************************)
(* Theorems about ClientSession.                                           *)
(*                                                                         *)
(* The operators of the session are functions on the record of its         *)
(* closure, so the invariant is a predicate of such a record and of the    *)
(* world around it: the durable log, local storage, what was made.         *)
(***************************************************************************)
EXTENDS ClientSession, QueueProofs

-----------------------------------------------------------------------------
(* The types.                                                              *)

UpMessage == [type : {"auth", "event", "repair"}, batches : Seq(Batches), after : Nat]

DownMessage ==
  [type : {"ready", "page", "event", "ack", "error"}, batches : Seq(Batches),
   next : Nat, flag : BOOLEAN]

SessionState ==
  [transport : {"none", "http", "ws"}, socket : {"none", "open", "ready"},
   synced : BOOLEAN, fatal : BOOLEAN, loading : BOOLEAN, restored : BOOLEAN,
   shown : BOOLEAN, failed : BOOLEAN, pending : Seq(Batches), inFlight : SUBSET Batches,
   known : SUBSET Batches, cursor : Nat, saveTimer : BOOLEAN,
   saves : Seq({"save", "share"}), http : {"idle", "sent", "done", "failed"},
   carried : Seq(Batches), status : {"idle", "saving", "saved", "error"},
   up : Seq(UpMessage), down : Seq(DownMessage), authenticated : {"no", "pending", "yes"}]

Writes == [batches : Seq(Batches), published : BOOLEAN]

-----------------------------------------------------------------------------
(* The world of a session, as one value.                                   *)

World == [log |-> log, made |-> Made, parents |-> parents, stored |-> stored, unsaved |-> unsaved]

Held(g) == ToSet(g.log)

\* Each batch comes after its parents, or these are durable.
Ordered(g, q) ==
  \A i \in DOMAIN q : g.parents[q[i]] \subseteq Held(g) \cup {q[j] : j \in 1 .. (i - 1)}

\* What may be written: the server accepts it, as long as local storage works.
WriteOK(g, q) ==
  /\ q \in Seq(Batches)
  /\ IsInjective(q)
  /\ ToSet(q) \subseteq g.made
  /\ g.unsaved = {} => Ordered(g, q)

WorldOK(g) ==
  /\ g.log \in Seq(Batches)
  /\ IsInjective(g.log)
  /\ Held(g) \subseteq g.made
  /\ g.made \subseteq Batches
  /\ g.parents \in [Batches -> SUBSET Batches]
  /\ g.unsaved \subseteq g.made
  /\ g.stored \in [User -> Seq(Batches)]
  /\ \A u \in User : WriteOK(g, g.stored[u])
  /\ \A b \in g.made \ g.unsaved : b \in Held(g) \cup ToSet(g.stored[UserOf[b[1]]])

\* From g the world may become h: the log only gets longer, local storage
\* forgets only what is durable, and nothing that was made changes.
Grows(g, h) ==
  /\ h.log \in Seq(Batches)
  /\ Len(g.log) <= Len(h.log)
  /\ \A i \in DOMAIN g.log : h.log[i] = g.log[i]
  /\ g.made \subseteq h.made
  /\ g.unsaved \subseteq h.unsaved
  /\ \A b \in g.made : h.parents[b] = g.parents[b]
  /\ \A u \in User : ToSet(g.stored[u]) \subseteq Held(h) \cup ToSet(h.stored[u])

LEMMA HeldGrows ==
  ASSUME NEW g, NEW h, WorldOK(g), Grows(g, h) PROVE Held(g) \subseteq Held(h)
<1>1. \A i \in DOMAIN g.log : i \in DOMAIN h.log /\ h.log[i] = g.log[i] BY DEF WorldOK, Grows
<1> QED BY <1>1 DEF Held, ToSet

LEMMA WriteGrows ==
  ASSUME NEW g, NEW h, WorldOK(g), Grows(g, h), NEW q, WriteOK(g, q)
  PROVE  WriteOK(h, q)
<1>1. Held(g) \subseteq Held(h) BY HeldGrows
<1>2. ASSUME g.unsaved = {} PROVE Ordered(h, q)
  <2> SUFFICES ASSUME NEW i \in DOMAIN q
               PROVE  h.parents[q[i]] \subseteq Held(h) \cup {q[j] : j \in 1 .. (i - 1)}
    BY DEF Ordered
  <2>1. q[i] \in g.made BY DEF WriteOK, ToSet
  <2>2. h.parents[q[i]] = g.parents[q[i]] BY <2>1 DEF Grows
  <2>3. g.parents[q[i]] \subseteq Held(g) \cup {q[j] : j \in 1 .. (i - 1)} BY <1>2 DEF WriteOK, Ordered
  <2> QED BY <1>1, <2>2, <2>3
<1> QED BY <1>2 DEF WriteOK, Grows

LEMMA EmptyWrite == ASSUME NEW g PROVE WriteOK(g, <<>>) /\ ToSet(<<>>) = {}
BY DEF WriteOK, IsInjective, ToSet, Ordered

\* The first batches of a queue may be written.
LEMMA WritePrefix ==
  ASSUME NEW g, NEW q, WriteOK(g, q), NEW n \in 0 .. Len(q)
  PROVE  WriteOK(g, SubSeq(q, 1, n)) /\ ToSet(SubSeq(q, 1, n)) \subseteq ToSet(q)
<1> DEFINE p == SubSeq(q, 1, n)
<1>1. /\ p \in Seq(Batches) /\ DOMAIN p = 1 .. n /\ DOMAIN q = 1 .. Len(q) /\ Len(q) \in Nat
      /\ \A i \in 1 .. n : p[i] = q[i] /\ i \in DOMAIN q
  BY DEF WriteOK
<1> HIDE DEF p
<1>2. ToSet(p) \subseteq ToSet(q) BY <1>1 DEF ToSet
<1>3. IsInjective(p) BY <1>1 DEF WriteOK, IsInjective
<1>4. ASSUME Ordered(g, q) PROVE Ordered(g, p)
  <2> SUFFICES ASSUME NEW i \in DOMAIN p
               PROVE  g.parents[p[i]] \subseteq Held(g) \cup {p[j] : j \in 1 .. (i - 1)}
    BY DEF Ordered
  <2>1. \A j \in 1 .. (i - 1) : p[j] = q[j] BY <1>1
  <2> QED BY <1>1, <1>4, <2>1 DEF Ordered
<1> QED BY <1>1, <1>2, <1>3, <1>4 DEF p, WriteOK

\* So may what is left of a queue when durable batches leave it.
LEMMA WriteWithout ==
  ASSUME NEW g, NEW q, WriteOK(g, q), NEW gone \in SUBSET Held(g)
  PROVE  WriteOK(g, Without(q, gone))
<1> DEFINE w == Without(q, gone)
<1>1. q \in Seq(Batches) BY DEF WriteOK
<1>2. w \in Seq(Batches) /\ ToSet(w) = ToSet(q) \ gone /\ IsInjective(w)
  BY <1>1, WithoutSet, WithoutInjective DEF WriteOK
<1>3. \A i \in DOMAIN w : \E k \in DOMAIN q :
        /\ w[i] = q[k]
        /\ \A l \in 1 .. (k - 1) : q[l] \in gone \cup {w[j] : j \in 1 .. (i - 1)}
  BY <1>1, WithoutOrder
<1> HIDE DEF w
<1>4. ASSUME Ordered(g, q) PROVE Ordered(g, w)
  <2> SUFFICES ASSUME NEW i \in DOMAIN w
               PROVE  g.parents[w[i]] \subseteq Held(g) \cup {w[j] : j \in 1 .. (i - 1)}
    BY DEF Ordered
  <2>1. PICK k \in DOMAIN q :
          /\ w[i] = q[k]
          /\ \A l \in 1 .. (k - 1) : q[l] \in gone \cup {w[j] : j \in 1 .. (i - 1)}
    BY <1>3
  <2>2. g.parents[q[k]] \subseteq Held(g) \cup {q[l] : l \in 1 .. (k - 1)} BY <1>4 DEF Ordered
  <2> QED BY <2>1, <2>2
<1> QED BY <1>2, <1>4 DEF w, WriteOK

\* So may one queue after another.
LEMMA WriteWith ==
  ASSUME NEW g, NEW q, WriteOK(g, q), NEW more, WriteOK(g, more)
  PROVE  WriteOK(g, With(q, more))
<1> DEFINE w == With(q, more)
<1>1. q \in Seq(Batches) /\ more \in Seq(Batches) BY DEF WriteOK
<1>2. w \in Seq(Batches) /\ ToSet(w) = ToSet(q) \cup ToSet(more) /\ IsInjective(w)
  BY <1>1, WithSet, WithInjective DEF WriteOK
<1>3. \A i \in DOMAIN q : w[i] = q[i] BY <1>1, WithPrefix
<1>4. \A i \in DOMAIN w \ DOMAIN q : \E k \in DOMAIN more :
        /\ w[i] = more[k]
        /\ \A b \in ToSet(q) : \E j \in 1 .. (i - 1) : w[j] = b
        /\ \A l \in 1 .. (k - 1) : \E j \in 1 .. (i - 1) : w[j] = more[l]
  <2> TAKE i \in DOMAIN w \ DOMAIN q
  <2>1. i \in DOMAIN With(q, more) /\ i \notin DOMAIN q OBVIOUS
  <2> QED BY <1>1, <2>1, WithOrder
<1>5. DOMAIN q = 1 .. Len(q) /\ Len(q) \in Nat BY <1>1
<1> HIDE DEF w
<1>6. ASSUME Ordered(g, q), Ordered(g, more) PROVE Ordered(g, w)
  <2> SUFFICES ASSUME NEW i \in DOMAIN w
               PROVE  g.parents[w[i]] \subseteq Held(g) \cup {w[j] : j \in 1 .. (i - 1)}
    BY DEF Ordered
  <2>1. CASE i \in DOMAIN q
    <3>1. \A j \in 1 .. (i - 1) : w[j] = q[j] BY <1>3, <1>5, <2>1
    <3>2. g.parents[q[i]] \subseteq Held(g) \cup {q[l] : l \in 1 .. (i - 1)} BY <1>6, <2>1 DEF Ordered
    <3> QED BY <1>3, <2>1, <3>1, <3>2
  <2>2. CASE i \notin DOMAIN q
    <3>1. PICK k \in DOMAIN more :
        /\ w[i] = more[k]
        /\ \A b \in ToSet(q) : \E j \in 1 .. (i - 1) : w[j] = b
        /\ \A l \in 1 .. (k - 1) : \E j \in 1 .. (i - 1) : w[j] = more[l]
      BY <1>4, <2>2
    <3>2. g.parents[more[k]] \subseteq Held(g) \cup {more[l] : l \in 1 .. (k - 1)} BY <1>6 DEF Ordered
    <3> QED BY <3>1, <3>2
  <2> QED BY <2>1, <2>2
<1> QED BY <1>2, <1>6 DEF w, WriteOK

-----------------------------------------------------------------------------
(* The invariant of one session of user u, in the world g.                 *)

\* What the page shows is durable or pending, and what is pending is stored.
QueueOK(g, u, s) ==
  /\ WriteOK(g, s.pending)
  /\ ToSet(s.pending) \subseteq s.known
  /\ ToSet(s.pending) \subseteq Held(g) \cup ToSet(g.stored[u])
  /\ s.known \subseteq g.made
  /\ s.known \subseteq Held(g) \cup ToSet(s.pending) \cup g.unsaved
  /\ s.inFlight \subseteq g.made

\* All of the history before the cursor is known.
CursorOK(g, s) ==
  /\ s.cursor <= Len(g.log)
  /\ \A i \in 1 .. s.cursor : g.log[i] \in s.known

HttpOK(g, s) ==
  /\ s.http # "idle" => WriteOK(g, s.carried) /\ s.saves # <<>>
  /\ s.http = "done" => ToSet(s.carried) \subseteq Held(g)

\* A message to the server.
UpOK(g, s, m) ==
  /\ WriteOK(g, m.batches)
  /\ ToSet(m.batches) \subseteq s.known
  /\ m.after <= s.cursor

\* A message from it: what it holds is durable, an acknowledgement is of what
\* the session sent, and a page goes on where the session's history ended.
DownOK(g, s, m) ==
  /\ ToSet(m.batches) \subseteq Held(g)
  /\ m.next <= Len(g.log)
  /\ m.type = "ack" => ToSet(m.batches) \subseteq s.known
  /\ m.type = "page" =>
       /\ s.authenticated = "yes"
       /\ \A i \in 1 .. m.next : i <= s.cursor \/ g.log[i] \in ToSet(m.batches)

SocketOK(g, s) ==
  /\ \A i \in DOMAIN s.up : UpOK(g, s, s.up[i])
  /\ \A i \in DOMAIN s.up : s.up[i].type = "auth" => i = 1 /\ s.authenticated = "no"
  /\ \A i \in DOMAIN s.down : DownOK(g, s, s.down[i])
  /\ s.socket = "none" =>
       s.up = <<>> /\ s.down = <<>> /\ s.inFlight = {} /\ s.authenticated = "no"
  /\ s.synced => s.authenticated = "yes"

SessionOK(g, u, s) ==
  /\ s \in SessionState
  /\ QueueOK(g, u, s)
  /\ CursorOK(g, s)
  /\ HttpOK(g, s)
  /\ SocketOK(g, s)

LEMMA SessionGrows ==
  ASSUME NEW g, NEW h, WorldOK(g), Grows(g, h), NEW u \in User, NEW s, SessionOK(g, u, s)
  PROVE  SessionOK(h, u, s)
<1>1. Held(g) \subseteq Held(h) BY HeldGrows
<1>2. \A q : WriteOK(g, q) => WriteOK(h, q) BY WriteGrows
<1>3. /\ Len(g.log) \in Nat /\ Len(h.log) \in Nat /\ Len(g.log) <= Len(h.log)
      /\ \A i \in 1 .. Len(g.log) : h.log[i] = g.log[i]
      /\ s.cursor \in Nat
  BY DEF Grows, WorldOK, SessionOK, SessionState
<1>4. QueueOK(h, u, s)
  <2>1. ToSet(g.stored[u]) \subseteq Held(h) \cup ToSet(h.stored[u]) BY DEF Grows
  <2>2. g.made \subseteq h.made /\ g.unsaved \subseteq h.unsaved BY DEF Grows
  <2> QED BY <1>1, <1>2, <2>1, <2>2 DEF SessionOK, QueueOK
<1>5. CursorOK(h, s) BY <1>3 DEF SessionOK, CursorOK
<1>6. HttpOK(h, s) BY <1>1, <1>2 DEF SessionOK, HttpOK
<1>7. ASSUME NEW i \in DOMAIN s.down PROVE DownOK(h, s, s.down[i])
  <2>1. s.down[i] \in DownMessage BY DEF SessionOK, SessionState
  <2>2. DownOK(g, s, s.down[i]) BY DEF SessionOK, SocketOK
  <2>3. s.down[i].next \in Nat BY <2>1 DEF DownMessage
  <2>4. \A k \in 1 .. s.down[i].next : h.log[k] = g.log[k] BY <1>3, <2>2, <2>3 DEF DownOK
  <2> QED BY <1>1, <1>3, <2>2, <2>3, <2>4 DEF DownOK
<1>8. SocketOK(h, s) BY <1>2, <1>7 DEF SessionOK, SocketOK, UpOK
<1> QED BY <1>4, <1>5, <1>6, <1>8 DEF SessionOK

LEMMA NewSessionOK == ASSUME NEW g, WorldOK(g), NEW u \in User PROVE SessionOK(g, u, NewSession)
<1>1. NewSession \in SessionState BY DEF NewSession, SessionState
<1>2. WriteOK(g, <<>>) /\ ToSet(<<>>) = {} BY EmptyWrite
<1>3. Len(g.log) \in Nat BY DEF WorldOK
<1> QED BY <1>1, <1>2, <1>3
  DEF NewSession, SessionOK, QueueOK, CursorOK, HttpOK, SocketOK

-----------------------------------------------------------------------------
(* The outgoing queue.                                                     *)

\* Where the session is in the history and in the conversation.
SamePlace(s, t) ==
  /\ t.known = s.known /\ t.cursor = s.cursor /\ t.down = s.down
  /\ t.synced = s.synced /\ t.socket = s.socket /\ t.authenticated = s.authenticated

\* The status becomes "saved" only if nothing is pending.
Honest(s, t) == t.status = "saved" => s.status = "saved" \/ t.pending = <<>>

\* A step of the queue or of the save coordinator.
Works(g, u, s, t) == SessionOK(g, u, t) /\ SamePlace(s, t) /\ Honest(s, t)

LEMMA ChunkIs ==
  ASSUME NEW g, NEW u, NEW s, SessionOK(g, u, s)
  PROVE  WriteOK(g, Chunk(s)) /\ ToSet(Chunk(s)) \subseteq ToSet(s.pending)
<1> DEFINE n == IF Len(s.pending) < ChunkSize THEN Len(s.pending) ELSE ChunkSize
<1>1. WriteOK(g, s.pending) /\ Len(s.pending) \in Nat BY DEF SessionOK, QueueOK, SessionState
<1>2. n \in 0 .. Len(s.pending) BY <1>1, ClientAssumption
<1> QED BY <1>1, <1>2, WritePrefix DEF Chunk

\* The queue and the conversation have not changed.
Idle(s, t) ==
  /\ SamePlace(s, t)
  /\ t \in SessionState
  /\ t.pending = s.pending /\ t.inFlight = s.inFlight /\ t.up = s.up

LEMMA IdleOK ==
  ASSUME NEW g, NEW u, NEW s, SessionOK(g, u, s), NEW t, Idle(s, t), HttpOK(g, t)
  PROVE  SessionOK(g, u, t)
BY DEF Idle, SamePlace, SessionOK, QueueOK, CursorOK, HttpOK, SocketOK, UpOK, DownOK

\* A message goes to the server.
LEMMA SendOK ==
  ASSUME NEW g, NEW u, NEW s, SessionOK(g, u, s), s.socket # "none",
         NEW m \in UpMessage, m.type # "auth", UpOK(g, s, m),
         NEW t \in SessionState, SamePlace(s, t), t.pending = s.pending, t.up = Append(s.up, m),
         HttpOK(g, t), t.inFlight \subseteq g.made
  PROVE  SessionOK(g, u, t)
<1>1. s.up \in Seq(UpMessage) BY DEF SessionOK, SessionState
<1>2. \A i \in DOMAIN t.up : (i \in DOMAIN s.up /\ t.up[i] = s.up[i]) \/ t.up[i] = m BY <1>1
<1>3. \A i \in DOMAIN s.up : UpOK(g, t, s.up[i]) BY DEF SessionOK, SocketOK, UpOK, SamePlace
<1>4. UpOK(g, t, m) BY DEF UpOK, SamePlace
<1>5. SocketOK(g, t)
  <2>1. \A i \in DOMAIN t.up : UpOK(g, t, t.up[i]) BY <1>2, <1>3, <1>4
  <2>2. \A i \in DOMAIN t.up : t.up[i].type = "auth" => i = 1 /\ t.authenticated = "no"
    BY <1>2 DEF SessionOK, SocketOK, SamePlace
  <2>3. \A i \in DOMAIN t.down : DownOK(g, t, t.down[i])
    BY DEF SessionOK, SocketOK, DownOK, SamePlace
  <2> QED BY <2>1, <2>2, <2>3 DEF SessionOK, SocketOK, SamePlace
<1>6. QueueOK(g, u, t) /\ CursorOK(g, t) /\ HttpOK(g, t)
  BY DEF SessionOK, QueueOK, CursorOK, HttpOK, SamePlace
<1> QED BY <1>5, <1>6 DEF SessionOK

LEMMA FlushOK ==
  ASSUME NEW g, NEW u, NEW s, SessionOK(g, u, s)
  PROVE  /\ Works(g, u, s, Flush(s)) /\ Flush(s).pending = s.pending
         /\ Flush(s).status = s.status /\ Flush(s).failed = s.failed
         /\ Flush(s).saves = s.saves /\ Flush(s).http = s.http
<1>0. s \in SessionState BY DEF SessionOK
<1>1. CASE s.inFlight = {} /\ s.pending # <<>> /\ s.socket # "none"
  <2> DEFINE m == [type |-> "event", batches |-> Chunk(s), after |-> 0]
             sent == ToSet(Chunk(s))
             up == Append(s.up, m)
             t == [s EXCEPT !.inFlight = sent, !.up = up]
  <2>1. WriteOK(g, Chunk(s)) /\ ToSet(Chunk(s)) \subseteq ToSet(s.pending) BY ChunkIs
  <2>2. Chunk(s) \in Seq(Batches) BY <2>1 DEF WriteOK
  <2>3. ToSet(Chunk(s)) \subseteq Batches BY <2>2 DEF ToSet
  <2>4. m \in UpMessage BY <2>2 DEF UpMessage
  <2>5. UpOK(g, s, m) BY <1>0, <2>1 DEF UpOK, SessionOK, QueueOK, SessionState
  <2>10. up \in Seq(UpMessage) BY <1>0, <2>4 DEF SessionState
  <2>11. sent \in SUBSET Batches BY <2>3
  <2> HIDE DEF m, up, sent
  <2>6. /\ t \in SessionState /\ SamePlace(s, t) /\ t.pending = s.pending /\ t.up = up
        /\ t.http = s.http /\ t.carried = s.carried /\ t.inFlight = sent
        /\ t.status = s.status /\ t.saves = s.saves /\ t.failed = s.failed
    BY <1>0, <2>10, <2>11 DEF SessionState, SamePlace
  <2>7. t.inFlight \subseteq g.made BY <2>1, <2>6 DEF SessionOK, QueueOK, sent
  <2> HIDE DEF t
  <2>12. HttpOK(g, t) BY <2>6 DEF SessionOK, HttpOK
  <2>8. SessionOK(g, u, t) BY <1>1, <2>4, <2>5, <2>6, <2>7, <2>12, SendOK DEF m, up
  <2>9. Flush(s) = t BY <1>1 DEF Flush, t, m, up, sent
  <2> QED BY <2>6, <2>8, <2>9 DEF Works, Honest
<1>2. CASE ~ (s.inFlight = {} /\ s.pending # <<>> /\ s.socket # "none")
  <2>1. Flush(s) = s BY <1>2 DEF Flush
  <2> QED BY <2>1 DEF Works, SamePlace, Honest
<1> QED BY <1>1, <1>2

\* What the page had is still there, except what was acknowledged.
LEMMA AcknowledgeOK ==
  ASSUME NEW g, NEW u, NEW s, SessionOK(g, u, s), NEW ids \in SUBSET Held(g)
  PROVE  LET t == Acknowledge(s, ids)
         IN  /\ SessionOK(g, u, t) /\ SamePlace(s, t) /\ t.status = s.status
             /\ t.pending = Without(s.pending, ids)
             /\ t.saves = s.saves /\ t.http = s.http
<1>0. s \in SessionState /\ s.pending \in Seq(Batches) BY DEF SessionOK, SessionState
<1> DEFINE rest == Without(s.pending, ids)
           left == s.inFlight \ ids
           t == [s EXCEPT !.pending = rest, !.inFlight = left]
<1>1. WriteOK(g, rest) BY WriteWithout DEF SessionOK, QueueOK
<1>2. ToSet(rest) = ToSet(s.pending) \ ids BY <1>0, WithoutSet
<1>3. rest \in Seq(Batches) BY <1>1 DEF WriteOK
<1>4. left \in SUBSET Batches /\ left \subseteq s.inFlight BY <1>0 DEF SessionState
<1> HIDE DEF rest, left
<1>5. /\ t \in SessionState /\ SamePlace(s, t) /\ t.pending = rest /\ t.inFlight = left
      /\ t.status = s.status /\ t.saves = s.saves /\ t.http = s.http
      /\ t.up = s.up /\ t.carried = s.carried
  BY <1>0, <1>3, <1>4 DEF SessionState, SamePlace
<1>6. Acknowledge(s, ids) = Flush(t) BY DEF Acknowledge, t, rest, left
<1> HIDE DEF t
<1>7. SessionOK(g, u, t)
  <2>1. QueueOK(g, u, t) BY <1>1, <1>2, <1>4, <1>5 DEF SessionOK, QueueOK, SamePlace
  <2>2. SocketOK(g, t) BY <1>4, <1>5 DEF SessionOK, SocketOK, UpOK, DownOK, SamePlace
  <2>3. CursorOK(g, t) /\ HttpOK(g, t) BY <1>5 DEF SessionOK, CursorOK, HttpOK, SamePlace
  <2> QED BY <1>5, <2>1, <2>2, <2>3 DEF SessionOK
<1>8. /\ Works(g, u, t, Flush(t)) /\ Flush(t).pending = t.pending
      /\ Flush(t).status = t.status /\ Flush(t).saves = t.saves /\ Flush(t).http = t.http
  BY <1>7, FlushOK
<1> QED BY <1>5, <1>6, <1>8 DEF rest, Works, SamePlace

LEMMA PublishOK ==
  ASSUME NEW g, NEW u, NEW s, SessionOK(g, u, s)
  PROVE  /\ Works(g, u, s, Publish(s)) /\ Publish(s).pending = s.pending
         /\ Publish(s).failed = s.failed
<1> DEFINE f == Flush(s)
           t == [f EXCEPT !.status = "saving"]
<1>1. Works(g, u, s, f) /\ f.pending = s.pending /\ f.failed = s.failed BY FlushOK
<1> HIDE DEF f
<1>2. f \in SessionState BY <1>1 DEF Works, SessionOK
<1>3. /\ Idle(f, t) /\ t.http = f.http /\ t.carried = f.carried /\ t.saves = f.saves
      /\ t.status = "saving" /\ t.failed = f.failed
  BY <1>2 DEF SessionState, Idle, SamePlace
<1> HIDE DEF t
<1>4. SessionOK(g, u, t)
  <2>1. HttpOK(g, t) BY <1>1, <1>3 DEF Works, SessionOK, HttpOK
  <2> QED BY <1>1, <1>3, <2>1, IdleOK DEF Works
<1>5. Works(g, u, s, t) /\ t.pending = s.pending
  BY <1>1, <1>3, <1>4 DEF Works, SamePlace, Honest, Idle
<1>6. Works(g, u, s, s) BY DEF Works, SamePlace, Honest
<1>7. Publish(s) \in {s, f, t} BY DEF Publish, f, t
<1> QED BY <1>1, <1>3, <1>5, <1>6, <1>7
-----------------------------------------------------------------------------
(* The save coordinator.                                                   *)

LEMMA SendHttpOK ==
  ASSUME NEW g, NEW u, NEW s, SessionOK(g, u, s), s.saves # <<>>
  PROVE  Works(g, u, s, SendHttp(s)) /\ SendHttp(s).pending = s.pending
<1> DEFINE q == s.pending
           t == [s EXCEPT !.http = "sent", !.carried = q]
<1>0. s \in SessionState /\ WriteOK(g, q) /\ q \in Seq(Batches)
  BY DEF SessionOK, QueueOK, SessionState
<1> HIDE DEF q
<1>1. Idle(s, t) /\ t.http = "sent" /\ t.carried = q /\ t.saves = s.saves /\ t.status = s.status
  BY <1>0 DEF SessionState, Idle, SamePlace
<1>2. SendHttp(s) = t BY DEF SendHttp, t, q
<1> HIDE DEF t
<1>3. HttpOK(g, t) BY <1>0, <1>1 DEF HttpOK
<1>4. SessionOK(g, u, t) BY <1>1, <1>3, IdleOK
<1> QED BY <1>1, <1>2, <1>4 DEF Works, Honest, Idle

LEMMA StartWsOK ==
  ASSUME NEW g, NEW u, NEW s, SessionOK(g, u, s)
  PROVE  LET t == StartWs(s)
         IN  /\ Works(g, u, s, t) /\ t.pending = s.pending /\ t.status = s.status
             /\ t.saves = s.saves /\ t.http = s.http
<1> DEFINE t == [s EXCEPT !.transport = "ws", !.fatal = FALSE]
<1>0. s \in SessionState BY DEF SessionOK
<1>1. /\ Idle(s, t) /\ t.http = s.http /\ t.carried = s.carried /\ t.saves = s.saves
      /\ t.status = s.status
  BY <1>0 DEF SessionState, Idle, SamePlace
<1>2. StartWs(s) = t BY DEF StartWs
<1> HIDE DEF t
<1>3. HttpOK(g, t) BY <1>1 DEF SessionOK, HttpOK
<1>4. SessionOK(g, u, t) BY <1>1, <1>3, IdleOK
<1> QED BY <1>1, <1>2, <1>4 DEF Works, Honest, Idle

LEMMA RunOK ==
  ASSUME NEW g, NEW u, NEW s, SessionOK(g, u, s)
  PROVE  Works(g, u, s, Run(s)) /\ Run(s).pending = s.pending
<1>0. s \in SessionState BY DEF SessionOK
<1>1. CASE s.saves = <<>> \/ s.http # "idle"
  <2>1. Run(s) = s BY <1>1 DEF Run
  <2> QED BY <2>1 DEF Works, SamePlace, Honest
<1>2. CASE s.saves # <<>> /\ s.http = "idle" /\ s.restored /\ s.pending # <<>>
  <2>1. Run(s) = SendHttp(s) BY <1>2 DEF Run
  <2> QED BY <1>2, <2>1, SendHttpOK
<1>3. CASE s.saves # <<>> /\ s.http = "idle" /\ ~ (s.restored /\ s.pending # <<>>)
  <2> DEFINE status == IF s.restored THEN "saved" ELSE "error"
             none == <<>>
             t == [s EXCEPT !.saves = none, !.status = status]
  <2>7. none \in Seq({"save", "share"}) OBVIOUS
  <2>0. status \in {"idle", "saving", "saved", "error"} OBVIOUS
  <2>1. status = "saved" => s.pending = <<>> BY <1>3
  <2>3. Run(s) \in {t, StartWs(t)} BY <1>3 DEF Run, t, status, none
  <2> HIDE DEF status, none
  <2>2. /\ Idle(s, t) /\ t.http = "idle" /\ t.carried = s.carried /\ t.status = status
    BY <1>0, <1>3, <2>0, <2>7 DEF SessionState, Idle, SamePlace
  <2> HIDE DEF t
  <2>4. HttpOK(g, t) BY <2>2 DEF HttpOK
  <2>5. SessionOK(g, u, t) BY <2>2, <2>4, IdleOK
  <2>6. Works(g, u, t, StartWs(t)) /\ StartWs(t).pending = t.pending /\ StartWs(t).status = t.status
    BY <2>5, StartWsOK
  <2> QED BY <2>1, <2>2, <2>3, <2>5, <2>6 DEF Works, SamePlace, Honest, Idle
<1> QED BY <1>1, <1>2, <1>3

LEMMA RequestSaveOK ==
  ASSUME NEW g, NEW u, NEW s, SessionOK(g, u, s), NEW kind \in {"save", "share"}
  PROVE  LET t == RequestSave(s, kind)
         IN  Works(g, u, s, t) /\ t.pending = s.pending
<1> DEFINE saves == Append(s.saves, kind)
           t == [s EXCEPT !.saves = saves, !.status = "saving"]
<1>0. s \in SessionState BY DEF SessionOK
<1>1. saves \in Seq({"save", "share"}) /\ saves # <<>>
  <2>1. s.saves \in Seq({"save", "share"}) BY <1>0 DEF SessionState
  <2>2. \A S : s.saves \in Seq(S) /\ kind \in S => saves \in Seq(S) /\ saves # <<>> OBVIOUS
  <2> QED BY <2>1, <2>2
<1>2. RequestSave(s, kind) = Run(t) BY DEF RequestSave
<1> HIDE DEF saves
<1>3. /\ Idle(s, t) /\ t.http = s.http /\ t.carried = s.carried /\ t.saves = saves
      /\ t.status = "saving"
  BY <1>0, <1>1 DEF SessionState, Idle, SamePlace
<1> HIDE DEF t
<1>4. HttpOK(g, t) BY <1>1, <1>3 DEF SessionOK, HttpOK
<1>5. SessionOK(g, u, t) BY <1>3, <1>4, IdleOK
<1>6. Works(g, u, t, Run(t)) /\ Run(t).pending = t.pending BY <1>5, RunOK
<1> QED BY <1>2, <1>3, <1>6 DEF Works, SamePlace, Honest, Idle

\* A run that ends with "saved" leaves nothing pending.
LEMMA EndSaveOK ==
  ASSUME NEW g, NEW u, NEW s, SessionOK(g, u, s), s.http # "idle",
         NEW status \in {"saved", "error"}, status = "saved" => s.pending = <<>>
  PROVE  Works(g, u, s, EndSave(s, status))
<1> DEFINE saves == Tail(s.saves)
           shown == IF Len(s.saves) = 1 THEN status ELSE s.status
           none == <<>>
           t == [s EXCEPT !.saves = saves, !.http = "idle", !.carried = none, !.status = shown]
<1>0. s \in SessionState BY DEF SessionOK
<1>1. saves \in Seq({"save", "share"}) BY <1>0 DEF SessionState, SessionOK, HttpOK
<1>2. shown \in {"idle", "saving", "saved", "error"} BY <1>0 DEF SessionState
<1>3. shown = "saved" => s.status = "saved" \/ s.pending = <<>> OBVIOUS
<1>4. EndSave(s, status) \in {Run(t), Run(StartWs(t))} BY <1>0 DEF EndSave, SessionState
<1>12. none \in Seq(Batches) OBVIOUS
<1> HIDE DEF saves, shown, none
<1>5. Idle(s, t) /\ t.http = "idle" /\ t.status = shown
  BY <1>0, <1>1, <1>2, <1>12 DEF SessionState, Idle, SamePlace
<1> HIDE DEF t
<1>6. HttpOK(g, t) BY <1>5 DEF HttpOK
<1>7. SessionOK(g, u, t) BY <1>5, <1>6, IdleOK
<1>8. /\ Works(g, u, t, StartWs(t)) /\ StartWs(t).pending = t.pending
      /\ StartWs(t).status = t.status
  BY <1>7, StartWsOK
<1>9. \A x : SessionOK(g, u, x) => Works(g, u, x, Run(x)) /\ Run(x).pending = x.pending BY RunOK
<1>10. Works(g, u, t, Run(t)) /\ Run(t).pending = t.pending BY <1>7, <1>9
<1>11. Works(g, u, StartWs(t), Run(StartWs(t))) /\ Run(StartWs(t)).pending = t.pending
  BY <1>8, <1>9 DEF Works
<1> QED BY <1>3, <1>4, <1>5, <1>8, <1>10, <1>11 DEF Works, SamePlace, Honest, Idle
-----------------------------------------------------------------------------
(* Connections, and what the server sends.                                 *)

\* A step that leaves the socket authenticated, or not, as it was.
Moves(g, u, s, t) == SessionOK(g, u, t) /\ Honest(s, t) /\ t.authenticated = s.authenticated

LEMMA DisconnectedOK ==
  ASSUME NEW g, NEW u, NEW s, SessionOK(g, u, s)
  PROVE  LET t == Disconnected(s)
         IN  /\ SessionOK(g, u, t) /\ t.status = s.status /\ t.authenticated = "no"
             /\ t.pending = s.pending /\ t.saves = s.saves /\ t.http = s.http
<1> DEFINE none == <<>>
           nothing == {}
           t == [s EXCEPT !.socket = "none", !.synced = FALSE, !.inFlight = nothing,
                          !.up = none, !.down = none, !.authenticated = "no"]
<1>0. s \in SessionState BY DEF SessionOK
<1>1. none \in Seq(UpMessage) /\ none \in Seq(DownMessage) /\ nothing \in SUBSET Batches OBVIOUS
<1>2. Disconnected(s) = t BY DEF Disconnected
<1>3. DOMAIN none = {} /\ none = <<>> /\ nothing = {} OBVIOUS
<1> HIDE DEF none, nothing
<1>4. /\ t \in SessionState /\ t.socket = "none" /\ t.synced = FALSE /\ t.inFlight = nothing
      /\ t.up = none /\ t.down = none /\ t.authenticated = "no" /\ t.known = s.known
      /\ t.cursor = s.cursor /\ t.pending = s.pending /\ t.saves = s.saves /\ t.http = s.http
      /\ t.carried = s.carried /\ t.status = s.status
  BY <1>0, <1>1 DEF SessionState
<1> HIDE DEF t
<1>5. QueueOK(g, u, t) BY <1>3, <1>4 DEF SessionOK, QueueOK
<1>6. CursorOK(g, t) /\ HttpOK(g, t) BY <1>4 DEF SessionOK, CursorOK, HttpOK
<1>7. SocketOK(g, t) BY <1>3, <1>4 DEF SocketOK
<1> QED BY <1>2, <1>4, <1>5, <1>6, <1>7 DEF SessionOK

\* The session learns of durable batches, and handles messages.
LEMMA AdvanceOK ==
  ASSUME NEW g, NEW u, NEW s, WorldOK(g), SessionOK(g, u, s), NEW t \in SessionState,
         t.pending = s.pending, t.inFlight = s.inFlight, t.up = s.up, HttpOK(g, t),
         t.authenticated = s.authenticated, t.synced => t.authenticated = "yes",
         t.socket = "none" => s.socket = "none",
         s.known \subseteq t.known, t.known \subseteq s.known \cup Held(g),
         s.cursor <= t.cursor, CursorOK(g, t),
         \A i \in DOMAIN t.down : \E j \in DOMAIN s.down : t.down[i] = s.down[j]
  PROVE  SessionOK(g, u, t)
<1>0. s \in SessionState BY DEF SessionOK
<1>1. QueueOK(g, u, t) BY DEF SessionOK, QueueOK, WorldOK
<1>2. s.cursor \in Nat /\ t.cursor \in Nat BY <1>0 DEF SessionState
<1>3. ASSUME NEW i \in DOMAIN t.up PROVE UpOK(g, t, t.up[i])
  <2>1. s.up[i] \in UpMessage /\ UpOK(g, s, s.up[i]) BY <1>0 DEF SessionState, SessionOK, SocketOK
  <2>2. s.up[i].after \in Nat BY <2>1 DEF UpMessage
  <2> QED BY <1>2, <2>1, <2>2 DEF UpOK
<1>4. ASSUME NEW i \in DOMAIN t.down PROVE DownOK(g, t, t.down[i])
  <2>1. PICK j \in DOMAIN s.down : t.down[i] = s.down[j] OBVIOUS
  <2>2. s.down[j] \in DownMessage /\ DownOK(g, s, s.down[j])
    BY <1>0 DEF SessionState, SessionOK, SocketOK
  <2>3. s.down[j].next \in Nat BY <2>2 DEF DownMessage
  <2> QED BY <1>2, <2>1, <2>2, <2>3 DEF DownOK
<1>5. t.down \in Seq(DownMessage) BY DEF SessionState
<1>6. t.socket = "none" => t.down = <<>> BY <1>5 DEF SessionOK, SocketOK
<1>7. SocketOK(g, t) BY <1>3, <1>4, <1>6 DEF SessionOK, SocketOK
<1> QED BY <1>1, <1>7 DEF SessionOK

LEMMA ApplyOK ==
  ASSUME NEW g, NEW u, NEW s, WorldOK(g), SessionOK(g, u, s), NEW batches, ToSet(batches) \subseteq Held(g)
  PROVE  LET t == Apply(s, batches)
         IN  Moves(g, u, s, t) /\ t.known = s.known \cup ToSet(batches)
<1> DEFINE known == s.known \cup ToSet(batches)
           t == [s EXCEPT !.known = known]
<1>0. s \in SessionState BY DEF SessionOK
<1>1. known \in SUBSET Batches /\ s.known \subseteq known /\ known \subseteq s.known \cup Held(g)
  BY <1>0 DEF SessionState, WorldOK
<1>2. Apply(s, batches) = t /\ known = s.known \cup ToSet(batches) BY DEF Apply
<1> HIDE DEF known
<1>3. /\ t \in SessionState /\ t.known = known /\ t.cursor = s.cursor /\ t.pending = s.pending
      /\ t.inFlight = s.inFlight /\ t.up = s.up /\ t.down = s.down /\ t.saves = s.saves
      /\ t.http = s.http /\ t.carried = s.carried /\ t.status = s.status
      /\ t.authenticated = s.authenticated /\ t.synced = s.synced /\ t.socket = s.socket
  BY <1>0, <1>1 DEF SessionState
<1> HIDE DEF t
<1>4. HttpOK(g, t) /\ CursorOK(g, t) BY <1>1, <1>3 DEF SessionOK, HttpOK, CursorOK
<1>5. s.cursor <= t.cursor BY <1>0, <1>3 DEF SessionState
<1>6. SessionOK(g, u, t)
  BY <1>1, <1>3, <1>4, <1>5, AdvanceOK DEF SessionOK, SocketOK
<1> QED BY <1>2, <1>3, <1>6 DEF Moves, Honest

\* The message that is handled is gone.
LEMMA TailOK ==
  ASSUME NEW g, NEW u, NEW s, WorldOK(g), SessionOK(g, u, s), s.down # <<>>
  PROVE  LET t == [s EXCEPT !.down = Tail(@)]
         IN  /\ Moves(g, u, s, t) /\ t.status = s.status
             /\ t.synced = s.synced /\ t.socket = s.socket /\ t.cursor = s.cursor
             /\ t.known = s.known /\ t.pending = s.pending
<1> DEFINE down == Tail(s.down)
           t == [s EXCEPT !.down = down]
<1>0. s \in SessionState /\ s.down \in Seq(DownMessage) BY DEF SessionOK, SessionState
<1>1. down \in Seq(DownMessage) BY <1>0
<1>2. \A i \in DOMAIN down : i + 1 \in DOMAIN s.down /\ down[i] = s.down[i + 1] BY <1>0
<1>8. [s EXCEPT !.down = Tail(@)] = t OBVIOUS
<1> HIDE DEF down
<1>3. /\ t \in SessionState /\ t.known = s.known /\ t.cursor = s.cursor /\ t.pending = s.pending
      /\ t.inFlight = s.inFlight /\ t.up = s.up /\ t.down = down /\ t.saves = s.saves
      /\ t.http = s.http /\ t.carried = s.carried /\ t.status = s.status
      /\ t.authenticated = s.authenticated /\ t.synced = s.synced /\ t.socket = s.socket
  BY <1>0, <1>1 DEF SessionState
<1> HIDE DEF t
<1>4. HttpOK(g, t) /\ CursorOK(g, t) BY <1>3 DEF SessionOK, HttpOK, CursorOK
<1>5. s.cursor <= t.cursor BY <1>0, <1>3 DEF SessionState
<1>6. SessionOK(g, u, t)
  BY <1>2, <1>3, <1>4, <1>5, AdvanceOK DEF SessionOK, SocketOK
<1> QED BY <1>3, <1>6, <1>8 DEF Moves, Honest
LEMMA RequestRepairOK ==
  ASSUME NEW g, NEW u, NEW s, SessionOK(g, u, s), s.socket # "none",
         NEW after \in Nat, after <= s.cursor
  PROVE  LET t == RequestRepair(s, after)
         IN  Moves(g, u, s, t) /\ t.pending = s.pending /\ t.status = s.status
<1> DEFINE none == <<>>
           m == [type |-> "repair", batches |-> none, after |-> after]
           up == Append(s.up, m)
           t == [s EXCEPT !.up = up]
<1>0. s \in SessionState /\ s.up \in Seq(UpMessage) BY DEF SessionOK, SessionState
<1>1. none \in Seq(Batches) /\ WriteOK(g, none) /\ ToSet(none) = {} BY EmptyWrite
<1>2. RequestRepair(s, after) = t BY DEF RequestRepair
<1> HIDE DEF none
<1>3. m \in UpMessage /\ m.type # "auth" BY <1>1 DEF UpMessage
<1>4. UpOK(g, s, m) BY <1>1 DEF UpOK
<1> HIDE DEF m
<1>5. up \in Seq(UpMessage) /\ up = Append(s.up, m) BY <1>0, <1>3
<1> HIDE DEF up
<1>6. /\ t \in SessionState /\ SamePlace(s, t) /\ t.pending = s.pending /\ t.up = up
      /\ t.http = s.http /\ t.carried = s.carried /\ t.saves = s.saves
      /\ t.inFlight = s.inFlight /\ t.status = s.status
  BY <1>0, <1>5 DEF SessionState, SamePlace
<1> HIDE DEF t
<1>7. HttpOK(g, t) /\ t.inFlight \subseteq g.made BY <1>6 DEF SessionOK, HttpOK, QueueOK
<1>8. SessionOK(g, u, t) BY <1>3, <1>4, <1>5, <1>6, <1>7, SendOK
<1> QED BY <1>2, <1>6, <1>8 DEF Moves, Honest, SamePlace

LEMMA ReceiveReadyOK ==
  ASSUME NEW g, NEW u, NEW s, WorldOK(g), SessionOK(g, u, s)
  PROVE  Moves(g, u, s, ReceiveReady(s))
<1> DEFINE t == [s EXCEPT !.socket = "ready", !.fatal = FALSE, !.synced = FALSE]
<1>0. s \in SessionState BY DEF SessionOK
<1>2. ReceiveReady(s) = RequestRepair(t, s.cursor) BY DEF ReceiveReady
<1>3. /\ t \in SessionState /\ t.known = s.known /\ t.cursor = s.cursor /\ t.pending = s.pending
      /\ t.inFlight = s.inFlight /\ t.up = s.up /\ t.down = s.down /\ t.saves = s.saves
      /\ t.http = s.http /\ t.carried = s.carried /\ t.status = s.status
      /\ t.authenticated = s.authenticated /\ t.synced = FALSE /\ t.socket = "ready"
  BY <1>0 DEF SessionState
<1> HIDE DEF t
<1>4. HttpOK(g, t) /\ CursorOK(g, t) BY <1>3 DEF SessionOK, HttpOK, CursorOK
<1>5. s.cursor <= t.cursor /\ s.cursor \in Nat BY <1>0, <1>3 DEF SessionState
<1>6. SessionOK(g, u, t) BY <1>3, <1>4, <1>5, AdvanceOK
<1>7. Moves(g, u, t, RequestRepair(t, s.cursor)) /\ RequestRepair(t, s.cursor).pending = t.pending
  BY <1>3, <1>5, <1>6, RequestRepairOK
<1> QED BY <1>2, <1>3, <1>7 DEF Moves, Honest

\* A page takes the session on in the history; with the last one it is synced.
LEMMA ReceivePageOK ==
  ASSUME NEW g, NEW u, NEW s, WorldOK(g), SessionOK(g, u, s), s.socket # "none",
         NEW m \in DownMessage, m.type = "page", DownOK(g, s, m)
  PROVE  Moves(g, u, s, ReceivePage(s, m))
<1> DEFINE known == s.known \cup ToSet(m.batches)
           cursor == IF m.next > s.cursor THEN m.next ELSE s.cursor
           t == [s EXCEPT !.known = known, !.cursor = cursor]
           v == [t EXCEPT !.synced = TRUE, !.shown = TRUE]
           p == Publish(v)
           w == [p EXCEPT !.status = "saved"]
<1>0. s \in SessionState /\ s.cursor \in Nat /\ m.next \in Nat BY DEF SessionOK, SessionState, DownMessage
<1>1. known \in SUBSET Batches /\ s.known \subseteq known /\ known \subseteq s.known \cup Held(g)
  BY <1>0 DEF SessionState, WorldOK, DownOK
<1>2. /\ ReceivePage(s, m) = IF ~m.flag THEN RequestRepair(t, m.next)
                             ELSE IF p.pending = <<>> /\ ~p.failed THEN w ELSE p
  <2>1. t = [Apply(s, m.batches) EXCEPT !.cursor = IF m.next > @ THEN m.next ELSE @]
    BY <1>0 DEF Apply, SessionState
  <2> QED BY <2>1 DEF ReceivePage
<1>3. cursor \in Nat /\ s.cursor <= cursor /\ m.next <= cursor BY <1>0
<1>4. CursorOK(g, [s EXCEPT !.known = known, !.cursor = cursor])
  <2>1. [s EXCEPT !.known = known, !.cursor = cursor].known = known
        /\ [s EXCEPT !.known = known, !.cursor = cursor].cursor = cursor
    BY <1>0 DEF SessionState
  <2>2. cursor <= Len(g.log) BY DEF SessionOK, CursorOK, DownOK
  <2>3. ASSUME NEW i \in 1 .. cursor PROVE g.log[i] \in known
    <3>1. CASE i <= s.cursor BY <1>0, <1>3, <3>1 DEF SessionOK, CursorOK
    <3>2. CASE i > s.cursor
      <4>1. i \in 1 .. m.next BY <1>0, <3>2
      <4> QED BY <1>0, <3>2, <4>1 DEF DownOK
    <3> QED BY <1>0, <1>3, <3>1, <3>2
  <2> HIDE DEF known, cursor
  <2> QED BY <2>1, <2>2, <2>3 DEF CursorOK
<1> HIDE DEF known, cursor
<1>5. /\ t \in SessionState /\ t.known = known /\ t.cursor = cursor /\ t.pending = s.pending
      /\ t.inFlight = s.inFlight /\ t.up = s.up /\ t.down = s.down /\ t.saves = s.saves
      /\ t.http = s.http /\ t.carried = s.carried /\ t.status = s.status
      /\ t.authenticated = s.authenticated /\ t.synced = s.synced /\ t.socket = s.socket
  BY <1>0, <1>1, <1>3 DEF SessionState
<1>6. CursorOK(g, t) BY <1>4
<1> HIDE DEF t
<1>7. /\ v \in SessionState /\ v.known = known /\ v.cursor = cursor /\ v.pending = s.pending
      /\ v.inFlight = s.inFlight /\ v.up = s.up /\ v.down = s.down /\ v.saves = s.saves
      /\ v.http = s.http /\ v.carried = s.carried /\ v.status = s.status
      /\ v.authenticated = s.authenticated /\ v.synced = TRUE /\ v.socket = s.socket
  BY <1>5 DEF SessionState
<1> HIDE DEF v
<1>8. SessionOK(g, u, t)
  <2>1. HttpOK(g, t) BY <1>5 DEF SessionOK, HttpOK
  <2> QED BY <1>1, <1>3, <1>5, <1>6, <2>1, AdvanceOK DEF SessionOK, SocketOK
<1>9. SessionOK(g, u, v)
  <2>1. HttpOK(g, v) BY <1>7 DEF SessionOK, HttpOK
  <2>2. CursorOK(g, v) BY <1>5, <1>6, <1>7 DEF CursorOK
  <2>3. s.authenticated = "yes" BY DEF DownOK
  <2> QED BY <1>1, <1>3, <1>7, <2>1, <2>2, <2>3, AdvanceOK
<1>10. Works(g, u, v, p) BY <1>9, PublishOK
<1> HIDE DEF p
<1>11. p \in SessionState /\ SessionOK(g, u, p) BY <1>10 DEF Works, SessionOK
<1>12. SessionOK(g, u, w) /\ w.authenticated = p.authenticated /\ w.pending = p.pending
  <2>1. Idle(p, w) /\ w.http = p.http /\ w.carried = p.carried /\ w.saves = p.saves
    BY <1>11 DEF SessionState, Idle, SamePlace
  <2>2. HttpOK(g, w) BY <1>11, <2>1 DEF SessionOK, HttpOK
  <2> HIDE DEF w
  <2> QED BY <1>11, <2>1, <2>2, IdleOK DEF Idle, SamePlace
<1> HIDE DEF w
<1>13. CASE ~m.flag
  <2>1. Moves(g, u, t, RequestRepair(t, m.next)) /\ RequestRepair(t, m.next).pending = t.pending
    BY <1>0, <1>3, <1>5, <1>8, RequestRepairOK
  <2> QED BY <1>2, <1>5, <1>13, <2>1 DEF Moves, Honest
<1>14. CASE m.flag
  BY <1>2, <1>7, <1>10, <1>12, <1>14 DEF Moves, Works, Honest, SamePlace
<1> QED BY <1>13, <1>14

LEMMA ReceiveAckOK ==
  ASSUME NEW g, NEW u, NEW s, SessionOK(g, u, s), NEW m, ToSet(m.batches) \subseteq Held(g)
  PROVE  Moves(g, u, s, ReceiveAck(s, m))
<1> DEFINE a == Acknowledge(s, ToSet(m.batches))
           saved == [a EXCEPT !.status = "saved"]
           saving == [a EXCEPT !.status = "saving"]
<1>1. SessionOK(g, u, a) /\ SamePlace(s, a) /\ a.status = s.status BY AcknowledgeOK
<1>2. \/ ReceiveAck(s, m) = saved /\ a.pending = <<>>
      \/ ReceiveAck(s, m) = saving
      \/ ReceiveAck(s, m) = a
  BY DEF ReceiveAck
<1> HIDE DEF a
<1>3. ASSUME NEW status \in {"saved", "saving"}
      PROVE  LET t == [a EXCEPT !.status = status]
             IN  SessionOK(g, u, t) /\ SamePlace(a, t) /\ t.pending = a.pending /\ t.status = status
  <2> DEFINE t == [a EXCEPT !.status = status]
  <2>1. /\ Idle(a, t) /\ t.http = a.http /\ t.carried = a.carried /\ t.saves = a.saves
        /\ t.status = status
    BY <1>1, <1>3 DEF SessionOK, SessionState, Idle, SamePlace
  <2> HIDE DEF t
  <2>2. HttpOK(g, t) BY <1>1, <2>1 DEF SessionOK, HttpOK
  <2>3. SessionOK(g, u, t) BY <1>1, <2>1, <2>2, IdleOK
  <2>4. SessionOK(g, u, t) /\ SamePlace(a, t) /\ t.pending = a.pending /\ t.status = status
    BY <2>1, <2>3 DEF Idle
  <2> QED BY <2>4 DEF t
<1>4. SessionOK(g, u, saved) /\ SamePlace(a, saved) /\ saved.pending = a.pending /\ saved.status = "saved"
  BY <1>3
<1>5. SessionOK(g, u, saving) /\ SamePlace(a, saving) /\ saving.status = "saving" BY <1>3
<1> HIDE DEF saved, saving
<1> QED BY <1>1, <1>2, <1>4, <1>5 DEF Moves, Honest, SamePlace
LEMMA RestoredOK ==
  ASSUME WorldOK(World), NEW c \in Client, NEW s, SessionOK(World, UserOf[c], s)
  PROVE  LET t == Restored(c, s)
         IN  /\ SessionOK(World, UserOf[c], t) /\ t.status = s.status
             /\ t.authenticated = s.authenticated /\ t.socket = s.socket /\ t.saves = s.saves
<1> DEFINE g == World
           u == UserOf[c]
           saved == stored[u]
           known == s.known \cup ToSet(saved)
           pending == With(s.pending, saved)
           t == [s EXCEPT !.restored = TRUE, !.known = known, !.pending = pending]
<1>1. u \in User /\ g.stored = stored BY ClientAssumption DEF World
<1>2. WriteOK(g, saved) BY <1>1 DEF WorldOK
<1>3. Restored(c, s) = IF s.restored THEN s ELSE t BY DEF Restored
<1> HIDE DEF g
<1>0. s \in SessionState /\ WriteOK(g, s.pending) BY DEF SessionOK, QueueOK, g
<1> DEFINE q == s.pending
<1>4. WriteOK(g, pending) BY <1>0, <1>2, WriteWith
<1>5. ToSet(pending) = ToSet(s.pending) \cup ToSet(saved)
  BY <1>0, <1>2, WithSet DEF WriteOK
<1>6. known \in SUBSET Batches BY <1>0, <1>2 DEF SessionState, WriteOK, ToSet
<1>7. pending \in Seq(Batches) BY <1>4 DEF WriteOK
<1>8. s.known \subseteq known /\ ToSet(saved) \subseteq known /\ known = s.known \cup ToSet(saved)
  OBVIOUS
<1>12. ToSet(saved) \subseteq g.made BY <1>2 DEF WriteOK
<1>13. ToSet(saved) = ToSet(g.stored[u]) BY <1>1 DEF g
<1> HIDE DEF known, pending, saved
<1>9. /\ t \in SessionState /\ t.known = known /\ t.cursor = s.cursor /\ t.pending = pending
      /\ t.inFlight = s.inFlight /\ t.up = s.up /\ t.down = s.down /\ t.saves = s.saves
      /\ t.http = s.http /\ t.carried = s.carried /\ t.status = s.status
      /\ t.authenticated = s.authenticated /\ t.synced = s.synced /\ t.socket = s.socket
  BY <1>0, <1>6, <1>7 DEF SessionState
<1> HIDE DEF t
<1>10. SessionOK(g, u, t)
  <2>0. SessionOK(g, u, s) BY DEF g
  <2>1. QueueOK(g, u, t)
    BY <2>0, <1>4, <1>5, <1>8, <1>9, <1>12, <1>13 DEF SessionOK, QueueOK
  <2>2. CursorOK(g, t) /\ HttpOK(g, t) BY <2>0, <1>8, <1>9 DEF SessionOK, CursorOK, HttpOK
  <2>3. \A i \in DOMAIN s.up : UpOK(g, s, s.up[i]) => UpOK(g, t, t.up[i])
    BY <1>8, <1>9 DEF UpOK
  <2>4. \A i \in DOMAIN s.down : DownOK(g, s, s.down[i]) => DownOK(g, t, t.down[i])
    BY <1>8, <1>9 DEF DownOK
  <2>5. SocketOK(g, t) BY <2>0, <2>3, <2>4, <1>9 DEF SessionOK, SocketOK
  <2> QED BY <2>1, <2>2, <2>5, <1>9 DEF SessionOK
<1>11. SessionOK(g, u, s) BY DEF g
<1> QED BY <1>3, <1>9, <1>10, <1>11 DEF g

-----------------------------------------------------------------------------
(* The invariant of the system.                                            *)

OrphansOK(g) == \A w \in orphans : w \in Writes /\ WriteOK(g, w.batches)

BusOK(g) ==
  bus \subseteq [to : {c \in Client : session[c].authenticated = "yes"}, batch : Held(g)]

BoundsOK ==
  /\ budget \in Budgets
  /\ edits \in [Client -> Nat]
  /\ \A c \in Client : edits[c] <= budget.edits[c]

Inv ==
  /\ WorldOK(World)
  /\ session \in [Client -> SessionState]
  /\ \A c \in Client : SessionOK(World, UserOf[c], session[c])
  /\ OrphansOK(World)
  /\ BusOK(World)
  /\ BoundsOK

\* What is durable stays, what is known stays: the world does not change.
LEMMA SameWorld == ASSUME WorldOK(World) PROVE Grows(World, World)
BY DEF World, WorldOK, Grows

\* One session moves, and the world grows.
LEMMA MoveOK ==
  ASSUME Inv, WorldOK(World'), Grows(World, World'),
         NEW c \in Client, NEW t, SessionOK(World', UserOf[c], t), Becomes(c, t)
  PROVE  /\ session' \in [Client -> SessionState]
         /\ \A d \in Client : SessionOK(World', UserOf[d], session'[d])
         /\ session'[c] = t
         /\ \A d \in Client \ {c} : session'[d] = session[d]
<1>1. t \in SessionState BY DEF SessionOK
<1>2. session' = [session EXCEPT ![c] = t] BY DEF Becomes
<1>3. session \in [Client -> SessionState] BY DEF Inv
<1>4. ASSUME NEW d \in Client PROVE SessionOK(World', UserOf[d], session[d])
  <2>1. UserOf[d] \in User BY ClientAssumption
  <2>2. WorldOK(World) /\ SessionOK(World, UserOf[d], session[d]) BY DEF Inv
  <2> QED BY <2>1, <2>2, SessionGrows
<1>5. session'[c] = t /\ \A d \in Client \ {c} : session'[d] = session[d] BY <1>2, <1>3
<1> QED BY <1>1, <1>2, <1>3, <1>4, <1>5
LEMMA SameWorldNext ==
  ASSUME Inv, UNCHANGED <<edits, parents, stored, unsaved, log>>
  PROVE  World' = World /\ WorldOK(World') /\ Grows(World, World')
<1>1. World' = World BY DEF World, Made
<1>2. WorldOK(World) /\ Grows(World, World) BY SameWorld DEF Inv
<1> QED BY <1>1, <1>2

\* No status becomes "saved" while something is pending.
HonestStep == \A c \in Client : Honest(session[c], session'[c])

\* What each step has to show.
LEMMA InvMove ==
  ASSUME Inv, WorldOK(World'), Grows(World, World'),
         NEW c \in Client, NEW t, SessionOK(World', UserOf[c], t), Becomes(c, t),
         \A w \in orphans' : w \in orphans \/ (w \in Writes /\ WriteOK(World', w.batches)),
         \A m \in bus' :
           \/ m \in bus /\ (m.to # c \/ t.authenticated = session[c].authenticated)
           \/ m \in [to : {x \in Client : session'[x].authenticated = "yes"}, batch : Held(World')],
         BoundsOK', Honest(session[c], t)
  PROVE  Inv' /\ HonestStep
<1>1. /\ session' \in [Client -> SessionState]
      /\ \A d \in Client : SessionOK(World', UserOf[d], session'[d])
      /\ session'[c] = t
      /\ \A d \in Client \ {c} : session'[d] = session[d]
  BY MoveOK
<1>2. OrphansOK(World)'
  <2>1. WorldOK(World) BY DEF Inv
  <2>2. \A w \in orphans : w \in Writes /\ WriteOK(World', w.batches)
    BY <2>1, WriteGrows DEF Inv, OrphansOK
  <2> QED BY <2>2 DEF OrphansOK
<1>3. BusOK(World)'
  <2>1. Held(World) \subseteq Held(World') BY HeldGrows DEF Inv
  <2> SUFFICES ASSUME NEW m \in bus'
               PROVE  m \in [to : {x \in Client : session'[x].authenticated = "yes"},
                             batch : Held(World')]
    BY DEF BusOK
  <2>2. CASE m \in bus /\ (m.to # c \/ t.authenticated = session[c].authenticated)
    <3>1. m \in [to : {x \in Client : session[x].authenticated = "yes"}, batch : Held(World)]
      BY <2>2 DEF Inv, BusOK
    <3> QED BY <1>1, <2>1, <2>2, <3>1
  <2> QED BY <2>2
<1>4. HonestStep BY <1>1 DEF HonestStep, Honest
<1> QED BY <1>1, <1>2, <1>3, <1>4 DEF Inv

\* Every batch is made by a session, and for its user.
LEMMA MakerIs ==
  ASSUME NEW b \in Batches PROVE UserOf[b[1]] \in User
<1>1. PICK c \in Client, d \in Budgets : b \in {c} \X (1 .. d.edits[c]) BY DEF Batches
<1>2. b[1] = c BY <1>1
<1> QED BY <1>2, ClientAssumption

LEMMA ForgetGrows ==
  ASSUME Inv, NEW c \in Client, NEW ids \in SUBSET Held(World), stored' = Forget(c, ids),
         UNCHANGED <<edits, parents, unsaved, log>>
  PROVE  WorldOK(World') /\ Grows(World, World') /\ Held(World') = Held(World)
<1> DEFINE g == World
           h == World'
           u == UserOf[c]
           rest == Without(stored[u], ids)
<1>1. /\ h.log = g.log /\ h.made = g.made /\ h.parents = g.parents /\ h.unsaved = g.unsaved
      /\ g.stored = stored /\ h.stored = stored'
  BY DEF World, Made
<1>2. WorldOK(g) /\ ids \in SUBSET Held(g) BY DEF Inv
<1>3. u \in User BY ClientAssumption
<1>4. stored' = [stored EXCEPT ![u] = rest] BY DEF Forget
<1> HIDE DEF g, h
<1>5. stored \in [User -> Seq(Batches)] /\ \A v \in User : WriteOK(g, stored[v])
  BY <1>1, <1>2 DEF WorldOK
<1>6. stored[u] \in Seq(Batches) BY <1>3, <1>5
<1>7. WriteOK(g, rest) /\ ToSet(rest) = ToSet(stored[u]) \ ids
  BY <1>2, <1>3, <1>5, <1>6, WriteWithout, WithoutSet
<1>8. rest \in Seq(Batches) BY <1>7 DEF WriteOK
<1> HIDE DEF rest, u
<1>9. stored' \in [User -> Seq(Batches)] /\ stored'[u] = rest
      /\ \A v \in User \ {u} : stored'[v] = stored[v]
  BY <1>3, <1>4, <1>5, <1>8
<1>10. Held(h) = Held(g) BY <1>1 DEF Held
<1>15. ASSUME NEW q, WriteOK(g, q) PROVE WriteOK(h, q)
  BY <1>1, <1>10, <1>15 DEF WriteOK, Ordered
<1>11. \A v \in User : WriteOK(h, stored'[v]) BY <1>5, <1>7, <1>9, <1>15
<1>12. \A v \in User : ToSet(stored[v]) \subseteq Held(g) \cup ToSet(stored'[v])
  BY <1>2, <1>7, <1>9
<1>13. Grows(g, h) BY <1>1, <1>2, <1>10, <1>12 DEF Grows, WorldOK
<1>14. WorldOK(h)
  <2>1. \A b \in g.made : UserOf[b[1]] \in User BY <1>2, MakerIs DEF WorldOK
  <2>2. \A b \in h.made \ h.unsaved : b \in Held(h) \cup ToSet(h.stored[UserOf[b[1]]])
    BY <1>1, <1>2, <1>10, <1>12, <2>1 DEF WorldOK
  <2> QED BY <1>1, <1>2, <1>9, <1>10, <1>11, <2>2 DEF WorldOK
<1> QED BY <1>10, <1>13, <1>14 DEF g, h

LEMMA StoreGrows ==
  ASSUME Inv, NEW chunk, WriteOK(World, chunk), Store(chunk),
         UNCHANGED <<edits, parents, unsaved, stored>>
  PROVE  /\ WorldOK(World') /\ Grows(World, World')
         /\ Held(World') = Held(World) \cup ToSet(chunk)
<1> DEFINE g == World
           h == World'
           longer == With(log, chunk)
<1>1. /\ h.made = g.made /\ h.parents = g.parents /\ h.unsaved = g.unsaved
      /\ h.stored = g.stored /\ g.log = log /\ h.log = longer
  BY DEF World, Made, Store
<1>2. WorldOK(g) /\ WriteOK(g, chunk) BY DEF Inv
<1> HIDE DEF g, h
<1>3. log \in Seq(Batches) /\ IsInjective(log) /\ chunk \in Seq(Batches) /\ IsInjective(chunk)
  BY <1>1, <1>2 DEF WorldOK, WriteOK
<1>4. longer \in Seq(Batches) /\ ToSet(longer) = ToSet(log) \cup ToSet(chunk)
  BY <1>3, WithSet
<1>12. IsInjective(longer) BY <1>3, WithInjective
<1>5. Len(log) <= Len(longer) /\ \A i \in DOMAIN log : longer[i] = log[i] BY <1>3, WithPrefix
<1> HIDE DEF longer
<1>6. Held(h) = Held(g) \cup ToSet(chunk) BY <1>1, <1>4 DEF Held
<1>7. Grows(g, h) BY <1>1, <1>4, <1>5 DEF Grows
<1>8. \A u \in User : WriteOK(h, h.stored[u]) BY <1>1, <1>2, <1>7, WriteGrows DEF WorldOK
<1>9. Held(h) \subseteq h.made BY <1>1, <1>2, <1>6 DEF WorldOK, WriteOK
<1>10. \A b \in h.made \ h.unsaved : b \in Held(h) \cup ToSet(h.stored[UserOf[b[1]]])
  BY <1>1, <1>2, <1>6 DEF WorldOK
<1>11. WorldOK(h) BY <1>1, <1>2, <1>4, <1>12, <1>8, <1>9, <1>10 DEF WorldOK
<1> QED BY <1>6, <1>7, <1>11 DEF g, h
-----------------------------------------------------------------------------
(* Edits.                                                                  *)

Fresh(c) == <<c, edits[c] + 1>>

LEMMA FreshBatch ==
  ASSUME Inv, NEW c \in Client, edits[c] < budget.edits[c], edits' = [edits EXCEPT ![c] = @ + 1]
  PROVE  /\ Fresh(c) \in Batches \ Made
         /\ Fresh(c) = <<c, edits'[c]>> /\ Fresh(c)[1] = c
         /\ Made' = Made \cup {Fresh(c)}
<1>1. edits \in [Client -> Nat] /\ budget \in Budgets /\ budget.edits \in [Client -> Nat]
  BY BudgetAssumption DEF Inv, BoundsOK
<1>2. edits'[c] = edits[c] + 1 /\ \A d \in Client \ {c} : edits'[d] = edits[d] BY <1>1
<1>3. Fresh(c)[1] = c /\ Fresh(c)[2] = edits[c] + 1 BY DEF Fresh
<1>4. edits[c] + 1 \in 1 .. budget.edits[c] BY <1>1
<1>5. Fresh(c) \in Batches
  <2> DEFINE made(d, y) == {d} \X (1 .. y.edits[d])
  <2>1. Fresh(c) \in made(c, budget) BY <1>4 DEF Fresh
  <2>2. Batches = UNION {made(d, y) : d \in Client, y \in Budgets} BY DEF Batches
  <2> HIDE DEF made
  <2> QED BY <1>1, <2>1, <2>2
<1>6. Fresh(c) \notin Made BY <1>1, <1>3 DEF Made
<1>7. ASSUME NEW x \in Batches
      PROVE  x[2] <= edits'[x[1]] <=> x[2] <= edits[x[1]] \/ x = Fresh(c)
  <2>1. PICK d \in Client, y \in Budgets : x \in {d} \X (1 .. y.edits[d]) BY DEF Batches
  <2>2. y.edits[d] \in Nat BY BudgetAssumption
  <2>3. x = <<d, x[2]>> /\ x[1] = d /\ x[2] \in Nat BY <2>1, <2>2
  <2>4. CASE d = c BY <1>1, <1>2, <2>3, <2>4 DEF Fresh
  <2>5. CASE d # c
    <3>1. x # Fresh(c) BY <1>3, <2>3, <2>5
    <3> QED BY <1>2, <2>3, <2>5, <3>1
  <2> QED BY <2>4, <2>5
<1>8. Made' = Made \cup {Fresh(c)} BY <1>5, <1>7 DEF Made
<1> QED BY <1>2, <1>3, <1>5, <1>6, <1>8 DEF Inv, Fresh

\* A batch comes after what is durable or queued before it.
LEMMA WriteAppend ==
  ASSUME NEW g, NEW q, WriteOK(g, q), NEW b \in Batches, b \in g.made, b \notin ToSet(q),
         g.unsaved = {} => g.parents[b] \subseteq Held(g) \cup ToSet(q)
  PROVE  WriteOK(g, Append(q, b)) /\ ToSet(Append(q, b)) = ToSet(q) \cup {b}
<1> DEFINE w == Append(q, b)
<1>1. q \in Seq(Batches) /\ Len(q) \in Nat /\ DOMAIN q = 1 .. Len(q) BY DEF WriteOK
<1>2. /\ w \in Seq(Batches) /\ DOMAIN w = 1 .. Len(q) + 1 /\ w[Len(q) + 1] = b
      /\ \A i \in 1 .. Len(q) : w[i] = q[i]
  BY <1>1
<1> HIDE DEF w
<1>3. ToSet(w) = ToSet(q) \cup {b}
  <2>1. \A i \in 1 .. Len(q) + 1 : i \in 1 .. Len(q) \/ i = Len(q) + 1 BY <1>1
  <2>2. 1 .. Len(q) \subseteq 1 .. Len(q) + 1 /\ Len(q) + 1 \in 1 .. Len(q) + 1 BY <1>1
  <2> QED BY <1>1, <1>2, <2>1, <2>2 DEF ToSet
<1>4. IsInjective(w)
  <2>1. \A i \in 1 .. Len(q) : q[i] # b BY <1>1 DEF ToSet
  <2> QED BY <1>1, <1>2, <2>1 DEF WriteOK, IsInjective
<1>5. ASSUME g.unsaved = {} PROVE Ordered(g, w)
  <2> SUFFICES ASSUME NEW i \in DOMAIN w
               PROVE  g.parents[w[i]] \subseteq Held(g) \cup {w[j] : j \in 1 .. (i - 1)}
    BY DEF Ordered
  <2>1. CASE i \in 1 .. Len(q)
    <3>1. \A j \in 1 .. (i - 1) : w[j] = q[j] BY <1>1, <1>2, <2>1
    <3>2. g.parents[q[i]] \subseteq Held(g) \cup {q[j] : j \in 1 .. (i - 1)}
      BY <1>1, <1>5, <2>1 DEF WriteOK, Ordered
    <3> QED BY <1>2, <2>1, <3>1, <3>2
  <2>2. CASE i = Len(q) + 1
    <3>1. 1 .. (i - 1) = 1 .. Len(q) BY <1>1, <2>2
    <3>2. ToSet(q) \subseteq {w[j] : j \in 1 .. (i - 1)} BY <1>1, <1>2, <3>1 DEF ToSet
    <3> QED BY <1>2, <1>5, <2>2, <3>2
  <2> QED BY <1>1, <1>2, <2>1, <2>2
<1> QED BY <1>2, <1>3, <1>4, <1>5 DEF w, WriteOK

\* The world after an edit, kept in local storage or not.
LEMMA EditGrows ==
  ASSUME Inv, NEW c \in Client, edits[c] < budget.edits[c], edits' = [edits EXCEPT ![c] = @ + 1],
         parents' = [parents EXCEPT ![Fresh(c)] = session[c].known], UNCHANGED log,
         \/ stored' = Remember(c, Fresh(c)) /\ UNCHANGED unsaved
         \/ UNCHANGED stored /\ unsaved' = unsaved \cup {Fresh(c)}
  PROVE  WorldOK(World') /\ Grows(World, World')
<1> DEFINE g == World
           h == World'
           u == UserOf[c]
           b == Fresh(c)
<1>1. /\ g.log = log /\ h.log = log /\ g.made = Made /\ h.made = Made \cup {b}
      /\ g.parents = parents /\ h.parents = parents' /\ g.unsaved = unsaved /\ h.unsaved = unsaved'
      /\ g.stored = stored /\ h.stored = stored'
  BY FreshBatch DEF World
<1>2. WorldOK(g) BY DEF Inv
<1>3. u \in User BY ClientAssumption
<1>4. b \in Batches \ Made /\ b[1] = c BY FreshBatch
<1>5. SessionOK(g, u, session[c]) BY DEF Inv
<1> HIDE DEF g, h, b
<1>6. parents \in [Batches -> SUBSET Batches] /\ session[c].known \in SUBSET Batches
  BY <1>1, <1>2, <1>5 DEF WorldOK, SessionOK, SessionState
<1>7. /\ parents' \in [Batches -> SUBSET Batches] /\ parents'[b] = session[c].known
      /\ \A x \in Batches \ {b} : parents'[x] = parents[x]
  BY <1>4, <1>6 DEF b
<1>8. Held(h) = Held(g) BY <1>1 DEF Held
<1>9. stored \in [User -> Seq(Batches)] BY <1>1, <1>2 DEF WorldOK
<1>10. ASSUME NEW q, WriteOK(g, q) PROVE WriteOK(h, q)
  <2>1. \A i \in DOMAIN q : parents'[q[i]] = parents[q[i]]
    BY <1>1, <1>2, <1>4, <1>7, <1>10 DEF WriteOK, WorldOK, ToSet
  <2>2. h.unsaved = {} => g.unsaved = {} BY <1>1
  <2>3. ToSet(q) \subseteq h.made BY <1>1, <1>10 DEF WriteOK
  <2> QED BY <1>1, <1>8, <1>10, <2>1, <2>2, <2>3 DEF WriteOK, Ordered
<1>11. CASE stored' = Remember(c, b) /\ UNCHANGED unsaved
  <2> DEFINE mine == Append(stored[u], b)
  <2>1. WriteOK(g, stored[u]) /\ WriteOK(h, stored[u]) BY <1>1, <1>2, <1>3, <1>10 DEF WorldOK
  <2>2. b \in h.made /\ b \notin ToSet(stored[u]) BY <1>1, <1>4, <2>1 DEF WriteOK
  <2>3. ASSUME h.unsaved = {} PROVE h.parents[b] \subseteq Held(h) \cup ToSet(stored[u])
    BY <1>1, <1>5, <1>7, <1>8, <1>11, <2>3 DEF SessionOK, QueueOK
  <2>4. WriteOK(h, mine) /\ ToSet(mine) = ToSet(stored[u]) \cup {b}
    BY <1>4, <2>1, <2>2, <2>3, WriteAppend
  <2>5. mine \in Seq(Batches) BY <2>4 DEF WriteOK
  <2>6. stored' = [stored EXCEPT ![u] = mine] BY <1>11 DEF Remember
  <2> HIDE DEF mine, u
  <2>7. /\ stored' \in [User -> Seq(Batches)] /\ stored'[u] = mine
        /\ \A v \in User \ {u} : stored'[v] = stored[v]
    BY <1>3, <1>9, <2>5, <2>6
  <2>8. \A v \in User : WriteOK(h, stored'[v])
    BY <1>1, <1>2, <1>10, <2>4, <2>7 DEF WorldOK
  <2>9. \A v \in User : ToSet(stored[v]) \subseteq ToSet(stored'[v]) BY <2>4, <2>7
  <2>10. Grows(g, h)
    BY <1>1, <1>2, <1>4, <1>7, <1>11, <2>9 DEF Grows, WorldOK
  <2>11. \A x \in h.made \ h.unsaved : x \in Held(h) \cup ToSet(h.stored[UserOf[x[1]]])
    <3> SUFFICES ASSUME NEW x \in h.made \ h.unsaved
                 PROVE  x \in Held(h) \cup ToSet(stored'[UserOf[x[1]]])
      BY <1>1
    <3>1. CASE x = b BY <1>4, <2>4, <2>7, <3>1 DEF u
    <3>2. CASE x # b
      <4>1. x \in g.made \ g.unsaved BY <1>1, <1>11, <3>2
      <4>2. x \in Batches BY <1>2, <4>1 DEF WorldOK
      <4>3. UserOf[x[1]] \in User BY <4>2, MakerIs
      <4> QED BY <1>1, <1>2, <1>8, <2>9, <4>1, <4>3 DEF WorldOK
    <3> QED BY <3>1, <3>2
  <2>12. WorldOK(h)
    BY <1>1, <1>2, <1>4, <1>7, <1>8, <1>11, <2>7, <2>8, <2>11 DEF WorldOK
  <2> QED BY <2>10, <2>12 DEF g, h
<1>12. CASE UNCHANGED stored /\ unsaved' = unsaved \cup {b}
  <2>1. Grows(g, h) BY <1>1, <1>2, <1>4, <1>7, <1>12 DEF Grows, WorldOK
  <2>2. \A v \in User : WriteOK(h, stored[v]) BY <1>1, <1>2, <1>10 DEF WorldOK
  <2>3. \A x \in h.made \ h.unsaved : x \in Held(h) \cup ToSet(h.stored[UserOf[x[1]]])
    BY <1>1, <1>2, <1>8, <1>12 DEF WorldOK
  <2>4. WorldOK(h)
    BY <1>1, <1>2, <1>4, <1>7, <1>8, <1>12, <2>2, <2>3 DEF WorldOK
  <2> QED BY <2>1, <2>4 DEF g, h
<1> QED BY <1>11, <1>12 DEF b
-----------------------------------------------------------------------------
(* The steps of a session.                                                 *)

\* Nothing changes that the invariant of a session speaks of.
Same(s, t) ==
  Idle(s, t) /\ t.saves = s.saves /\ t.http = s.http /\ t.carried = s.carried

LEMMA SameOK ==
  ASSUME NEW g, NEW u, NEW s, SessionOK(g, u, s), NEW t, Same(s, t)
  PROVE  SessionOK(g, u, t) /\ t.authenticated = s.authenticated
<1>1. HttpOK(g, t) BY DEF Same, SessionOK, HttpOK
<1> QED BY <1>1, IdleOK DEF Same, Idle, SamePlace

\* The writes that are cut off with a connection are writes that may take place.
LEMMA CutOffOK ==
  ASSUME Inv, NEW c \in Client, CutOff(c)
  PROVE  /\ \A w \in orphans' : w \in orphans \/ (w \in Writes /\ WriteOK(World, w.batches))
         /\ \A m \in bus' : m \in bus /\ m.to # c
<1>1. SessionOK(World, UserOf[c], session[c]) BY DEF Inv
<1> DEFINE s == session[c]
           g == World
<1> HIDE DEF g
<1>2. SessionOK(g, UserOf[c], s) BY <1>1 DEF g
<1>3. ASSUME NEW w \in Unanswered(c) PROVE w \in Writes /\ WriteOK(g, w.batches)
  <2>1. PICK i \in DOMAIN s.up : w = Write(s.up[i].batches, TRUE) BY DEF Unanswered, ToSet
  <2>2. WriteOK(g, s.up[i].batches) BY <1>2 DEF SessionOK, SocketOK, UpOK
  <2>3. s.up[i].batches \in Seq(Batches) BY <2>2 DEF WriteOK
  <2> QED BY <2>1, <2>2, <2>3 DEF Write, Writes
<1> QED BY <1>3 DEF CutOff, g

LEMMA InvSetShared ==
  ASSUME Inv, NEW c \in Client, NEW transport \in Transports, SetShared(c, transport)
  PROVE  Inv' /\ HonestStep
<1> DEFINE s == session[c]
           g == World
           u == UserOf[c]
<1>0. World' = g /\ WorldOK(World') /\ Grows(g, World') BY SameWorldNext DEF SetShared
<1>1. SessionOK(g, u, s) BY DEF Inv
<1>2. BoundsOK' BY DEF Inv, BoundsOK, SetShared
<1>3. s \in SessionState BY <1>1 DEF SessionOK
<1> HIDE DEF g, u, s
<1>4. ASSUME NEW t, Becomes(c, t), UNCHANGED <<orphans, bus>>, Works(g, u, s, t)
      PROVE  Inv' /\ HonestStep
  <2>1. SessionOK(World', UserOf[c], t) BY <1>0, <1>4 DEF Works, u
  <2>2. t.authenticated = session[c].authenticated /\ Honest(session[c], t)
    BY <1>4 DEF Works, SamePlace, s
  <2> QED BY <1>0, <1>2, <1>4, <2>1, <2>2, InvMove DEF g
<1>5. CASE transport = "ws" /\ s.transport = "none"
  <2>1. Becomes(c, StartWs(s)) /\ UNCHANGED <<orphans, bus>> BY <1>5 DEF SetShared, s
  <2>2. Works(g, u, s, StartWs(s)) BY <1>1, StartWsOK
  <2> QED BY <1>4, <2>1, <2>2
<1>6. CASE transport = "ws" /\ s.transport = "http"
  <2> DEFINE v == [s EXCEPT !.saveTimer = FALSE]
             t == RequestSave(v, "share")
  <2>1. Becomes(c, t) /\ UNCHANGED <<orphans, bus>> BY <1>6 DEF SetShared, s
  <2>2. Same(s, v) /\ v.status = s.status BY <1>3 DEF SessionState, Same, Idle, SamePlace
  <2> HIDE DEF v
  <2>3. SessionOK(g, u, v) BY <1>1, <2>2, SameOK
  <2>4. Works(g, u, v, t) /\ t.pending = v.pending BY <2>3, RequestSaveOK
  <2>5. Works(g, u, s, t) BY <2>2, <2>4 DEF Works, SamePlace, Honest, Same, Idle
  <2> QED BY <1>4, <2>1, <2>5
<1>7. CASE transport = "http"
  <2> DEFINE v == Disconnected(s)
             t == [v EXCEPT !.transport = "http", !.loading = TRUE, !.status = "saving"]
  <2>1. Becomes(c, t) /\ CutOff(c) BY <1>7 DEF SetShared, s
  <2>2. SessionOK(g, u, v) BY <1>1, DisconnectedOK
  <2> HIDE DEF v
  <2>3. v \in SessionState BY <2>2 DEF SessionOK
  <2>4. Same(v, t) /\ t.status = "saving" BY <2>3 DEF SessionState, Same, Idle, SamePlace
  <2> HIDE DEF t
  <2>5. SessionOK(World', UserOf[c], t) BY <1>0, <2>2, <2>4, SameOK DEF u
  <2>6. Honest(session[c], t) BY <2>4 DEF Honest
  <2> QED BY <1>0, <1>2, <2>1, <2>5, <2>6, CutOffOK, InvMove DEF g
<1>8. s.transport \in {"none", "http"} \/ transport = "http"
  BY <1>3, ClientAssumption DEF SetShared, SessionState, s
<1> QED BY <1>5, <1>6, <1>7, <1>8, ClientAssumption

LEMMA InvLoadHistory ==
  ASSUME Inv, NEW c \in Client, LoadHistory(c) PROVE Inv' /\ HonestStep
<1> DEFINE s == session[c]
           g == World
           u == UserOf[c]
           r == Restored(c, s)
           v == [r EXCEPT !.loading = FALSE, !.shown = TRUE]
           known == v.known \cup ToSet(log)
           read == [v EXCEPT !.known = known]
           saved == [v EXCEPT !.known = known, !.status = "saved"]
           failed == [v EXCEPT !.status = "error"]
<1>0. World' = g /\ WorldOK(World') /\ Grows(g, World') BY SameWorldNext DEF LoadHistory
<1>1. SessionOK(g, u, s) /\ WorldOK(g) /\ ToSet(log) = Held(g) BY DEF Inv, World, Held
<1>2. BoundsOK' /\ UNCHANGED <<orphans, bus>>
  BY DEF Inv, BoundsOK, LoadHistory, Succeeds, Fails, bounds
<1>3. SessionOK(g, u, r) /\ r.status = s.status /\ r.authenticated = s.authenticated
  BY <1>1, RestoredOK
<1>4. \/ Becomes(c, saved) /\ v.pending = <<>>
      \/ Becomes(c, RequestSave(read, "save"))
      \/ Becomes(c, failed)
  BY DEF LoadHistory
<1> HIDE DEF r
<1>5. Same(r, v) /\ v.status = r.status BY <1>3 DEF SessionOK, SessionState, Same, Idle, SamePlace
<1> HIDE DEF v
<1>6. SessionOK(g, u, v) BY <1>3, <1>5, SameOK
<1>7. read = Apply(v, log) BY DEF Apply
<1>8. Moves(g, u, v, read) BY <1>1, <1>6, <1>7, ApplyOK
<1>9. Same(read, saved) /\ saved.status = "saved" /\ saved.pending = v.pending
  <2>1. v \in SessionState /\ known \in SUBSET Batches
    BY <1>1, <1>6 DEF SessionOK, SessionState, WorldOK
  <2> HIDE DEF known
  <2> QED BY <2>1 DEF SessionState, Same, Idle, SamePlace
<1>10. Same(v, failed) /\ failed.status = "error"
  BY <1>6 DEF SessionOK, SessionState, Same, Idle, SamePlace
<1> HIDE DEF read, saved, failed
<1>11. SessionOK(g, u, read) BY <1>8 DEF Moves
<1>12. SessionOK(g, u, saved) BY <1>9, <1>11, SameOK
<1>13. SessionOK(g, u, failed) BY <1>6, <1>10, SameOK
<1>14. Works(g, u, read, RequestSave(read, "save"))
       /\ RequestSave(read, "save").pending = read.pending
  BY <1>11, RequestSaveOK
<1>15. PICK t : Becomes(c, t) /\ Moves(g, u, s, t)
  BY <1>3, <1>4, <1>5, <1>8, <1>9, <1>10, <1>12, <1>13, <1>14
  DEF Moves, Works, Honest, SamePlace, Same, Idle
<1>16. SessionOK(World', UserOf[c], t) /\ t.authenticated = session[c].authenticated /\ Honest(session[c], t)
  BY <1>0, <1>15 DEF Moves
<1> QED BY <1>0, <1>2, <1>15, <1>16, InvMove
LEMMA InvConnect == ASSUME Inv, NEW c \in Client, Connect(c) PROVE Inv' /\ HonestStep
<1> DEFINE s == session[c]
           g == World
           u == UserOf[c]
           r == Restored(c, s)
           none == <<>>
           m == [type |-> "auth", batches |-> none, after |-> 0]
           up == <<m>>
           t == [r EXCEPT !.socket = "open", !.up = up]
<1>0. World' = g /\ WorldOK(World') /\ Grows(g, World') BY SameWorldNext DEF Connect
<1>1. SessionOK(g, u, s) /\ WorldOK(g) BY DEF Inv
<1>2. BoundsOK' /\ UNCHANGED <<orphans, bus>> BY DEF Inv, BoundsOK, Connect, bounds
<1>3. SessionOK(g, u, r) /\ r.status = s.status /\ r.authenticated = s.authenticated /\ r.socket = s.socket
  BY <1>1, RestoredOK
<1>4. Becomes(c, t) /\ s.socket = "none" BY DEF Connect
<1>5. none \in Seq(Batches) /\ WriteOK(g, none) /\ ToSet(none) = {} BY EmptyWrite
<1> HIDE DEF none, r
<1>6. m \in UpMessage /\ m.type = "auth" BY <1>5 DEF UpMessage
<1>7. r \in SessionState /\ r.cursor \in Nat BY <1>3 DEF SessionOK, SessionState
<1>8. UpOK(g, r, m) BY <1>5, <1>7 DEF UpOK
<1> HIDE DEF m
<1>9. up \in Seq(UpMessage) /\ DOMAIN up = {1} /\ up[1] = m BY <1>6
<1> HIDE DEF up
<1>10. /\ t \in SessionState /\ t.known = r.known /\ t.cursor = r.cursor /\ t.pending = r.pending
       /\ t.inFlight = r.inFlight /\ t.up = up /\ t.down = r.down /\ t.saves = r.saves
       /\ t.http = r.http /\ t.carried = r.carried /\ t.status = r.status
       /\ t.authenticated = r.authenticated /\ t.synced = r.synced /\ t.socket = "open"
  BY <1>7, <1>9 DEF SessionState
<1> HIDE DEF t
<1>11. SessionOK(g, u, t)
  <2>1. QueueOK(g, u, t) /\ CursorOK(g, t) /\ HttpOK(g, t)
    BY <1>3, <1>10 DEF SessionOK, QueueOK, CursorOK, HttpOK
  <2>2. UpOK(g, t, m) BY <1>8, <1>10 DEF UpOK
  <2>3. r.authenticated = "no" /\ r.down = <<>> BY <1>3, <1>4 DEF SessionOK, SocketOK
  <2>4. \A i \in DOMAIN t.down : DownOK(g, t, t.down[i]) BY <1>10, <2>3
  <2>5. SocketOK(g, t) BY <1>3, <1>9, <1>10, <2>2, <2>3, <2>4 DEF SessionOK, SocketOK
  <2> QED BY <1>10, <2>1, <2>5 DEF SessionOK
<1>12. /\ SessionOK(World', UserOf[c], t) /\ t.authenticated = session[c].authenticated
       /\ Honest(session[c], t)
  BY <1>0, <1>3, <1>10, <1>11 DEF Honest
<1> QED BY <1>0, <1>2, <1>4, <1>12, InvMove

LEMMA InvDisconnect == ASSUME Inv, NEW c \in Client, Disconnect(c) PROVE Inv' /\ HonestStep
<1>0. World' = World /\ WorldOK(World') /\ Grows(World, World') BY SameWorldNext DEF Disconnect
<1>1. SessionOK(World, UserOf[c], session[c]) BY DEF Inv
<1>2. BoundsOK' BY DEF Inv, BoundsOK, Disconnect, Fails
<1>3. Becomes(c, Disconnected(session[c])) /\ CutOff(c) BY DEF Disconnect
<1> DEFINE d == Disconnected(session[c])
<1>4. SessionOK(World, UserOf[c], d) /\ d.status = session[c].status BY <1>1, DisconnectedOK
<1> HIDE DEF d
<1>5. SessionOK(World', UserOf[c], d) /\ Honest(session[c], d) BY <1>0, <1>4 DEF Honest
<1> QED BY <1>0, <1>2, <1>3, <1>5, CutOffOK, InvMove DEF d

LEMMA InvSave ==
  ASSUME Inv, NEW c \in Client, SaveTimer(c) \/ SaveNow(c) PROVE Inv' /\ HonestStep
<1> DEFINE s == session[c]
           g == World
           u == UserOf[c]
           v == [s EXCEPT !.saveTimer = FALSE]
<1>0. World' = g /\ WorldOK(World') /\ Grows(g, World') BY SameWorldNext DEF SaveTimer, SaveNow
<1>1. SessionOK(g, u, s) BY DEF Inv
<1>2. BoundsOK' /\ UNCHANGED <<orphans, bus>> BY DEF Inv, BoundsOK, SaveTimer, SaveNow, bounds
<1>3. Becomes(c, RequestSave(v, "save")) \/ Becomes(c, Publish(v)) BY DEF SaveTimer, SaveNow
<1>4. Same(s, v) /\ v.status = s.status
  BY <1>1 DEF SessionOK, SessionState, Same, Idle, SamePlace
<1> HIDE DEF v
<1>5. SessionOK(g, u, v) BY <1>1, <1>4, SameOK
<1>6. Works(g, u, v, RequestSave(v, "save")) /\ RequestSave(v, "save").pending = v.pending
  BY <1>5, RequestSaveOK
<1>7. Works(g, u, v, Publish(v)) /\ Publish(v).pending = v.pending BY <1>5, PublishOK
<1>8. PICK t : Becomes(c, t) /\ Works(g, u, v, t) BY <1>3, <1>6, <1>7
<1>9. /\ SessionOK(World', UserOf[c], t) /\ t.authenticated = session[c].authenticated
      /\ Honest(session[c], t)
  BY <1>0, <1>4, <1>8 DEF Works, SamePlace, Honest, Same, Idle
<1> QED BY <1>0, <1>2, <1>8, <1>9, InvMove

\* The batch of an edit is known, and pending unless it could not be stored.
LEMMA InvLocalEdit == ASSUME Inv, NEW c \in Client, LocalEdit(c) PROVE Inv' /\ HonestStep
<1> DEFINE s == session[c]
           g == World
           h == World'
           u == UserOf[c]
           b == Fresh(c)
           known == s.known \cup {b}
           pending == Append(s.pending, b)
           noted == [s EXCEPT !.known = known]
           queued == [s EXCEPT !.known = known, !.pending = pending]
           armed == [queued EXCEPT !.saveTimer = @ \/ ~s.failed]
           failed == [noted EXCEPT !.failed = TRUE, !.status = "error"]
<1>1. /\ edits[c] < budget.edits[c] /\ edits' = [edits EXCEPT ![c] = @ + 1]
      /\ UNCHANGED <<log, orphans, bus, budget>>
  BY DEF LocalEdit, Succeeds, bounds
<1>2. b \in Batches \ Made /\ b = <<c, edits'[c]>> /\ Made' = Made \cup {b} BY <1>1, FreshBatch
<1>3. parents' = [parents EXCEPT ![b] = session[c].known] BY <1>2 DEF LocalEdit
<1>4. \/ /\ stored' = Remember(c, b) /\ UNCHANGED unsaved
         /\ Becomes(c, Publish(queued)) \/ Becomes(c, armed)
      \/ /\ UNCHANGED stored /\ unsaved' = unsaved \cup {b}
         /\ Becomes(c, failed)
  BY <1>2 DEF LocalEdit
<1>5. WorldOK(h) /\ Grows(g, h) BY <1>1, <1>3, <1>4, EditGrows
<1>6. BoundsOK'
  <2>1. budget \in Budgets /\ edits \in [Client -> Nat] /\ budget.edits \in [Client -> Nat]
        /\ \A d \in Client : edits[d] <= budget.edits[d]
    BY BudgetAssumption DEF Inv, BoundsOK
  <2>2. edits' \in [Client -> Nat] BY <1>1, <2>1
  <2>3. \A d \in Client : edits'[d] <= budget.edits[d] BY <1>1, <2>1
  <2> QED BY <1>1, <2>1, <2>2, <2>3 DEF BoundsOK
<1>7. /\ h.log = log /\ h.made = Made \cup {b} /\ h.parents = parents' /\ h.stored = stored'
      /\ h.unsaved = unsaved' /\ parents \in [Batches -> SUBSET Batches]
      /\ stored \in [User -> Seq(Batches)] /\ u \in User
  BY <1>1, <1>2, ClientAssumption DEF World, Inv, WorldOK
<1>8. /\ SessionOK(g, u, s) /\ WorldOK(g) /\ s.known \subseteq Made
  BY DEF Inv, SessionOK, QueueOK, World
<1>9. SessionOK(h, u, s) BY <1>5, <1>7, <1>8, SessionGrows
<1> HIDE DEF g, h, b, s, u
<1>10. /\ s \in SessionState /\ s.pending \in Seq(Batches) /\ s.known \in SUBSET Batches
       /\ ToSet(s.pending) \subseteq s.known /\ WriteOK(h, s.pending)
  BY <1>9 DEF SessionOK, QueueOK, SessionState
<1>11. known \in SUBSET Batches /\ pending \in Seq(Batches) BY <1>2, <1>10
<1>12. h.parents[b] = s.known BY <1>2, <1>3, <1>7 DEF s
<1>13. WriteOK(h, pending) /\ ToSet(pending) = ToSet(s.pending) \cup {b}
  <2>1. b \in h.made /\ b \notin ToSet(s.pending) BY <1>2, <1>7, <1>8, <1>10
  <2>2. h.unsaved = {} => h.parents[b] \subseteq Held(h) \cup ToSet(s.pending)
    BY <1>9, <1>12 DEF SessionOK, QueueOK
  <2> QED BY <1>2, <1>10, <2>1, <2>2, WriteAppend
<1>14. s.known \subseteq known /\ b \in known /\ known = s.known \cup {b} OBVIOUS
<1> HIDE DEF known, pending
<1>15. /\ noted \in SessionState /\ noted.known = known /\ noted.cursor = s.cursor
       /\ noted.pending = s.pending
       /\ noted.inFlight = s.inFlight /\ noted.up = s.up /\ noted.down = s.down
       /\ noted.saves = s.saves
       /\ noted.http = s.http /\ noted.carried = s.carried /\ noted.status = s.status
       /\ noted.authenticated = s.authenticated /\ noted.synced = s.synced
       /\ noted.socket = s.socket
  BY <1>10, <1>11 DEF SessionState
<1>16. /\ queued \in SessionState /\ queued.known = known /\ queued.cursor = s.cursor
       /\ queued.pending = pending
       /\ queued.inFlight = s.inFlight /\ queued.up = s.up /\ queued.down = s.down
       /\ queued.saves = s.saves
       /\ queued.http = s.http /\ queued.carried = s.carried /\ queued.status = s.status
       /\ queued.authenticated = s.authenticated /\ queued.synced = s.synced
       /\ queued.socket = s.socket
  BY <1>10, <1>11 DEF SessionState
<1>17. Same(queued, armed) /\ armed.status = s.status
  BY <1>10, <1>16 DEF SessionState, Same, Idle, SamePlace
<1>18. Same(noted, failed) /\ failed.status = "error"
  BY <1>15 DEF SessionState, Same, Idle, SamePlace
<1> HIDE DEF noted, queued, armed, failed
<1>19. ASSUME NEW t, t \in {noted, queued} PROVE CursorOK(h, t) /\ HttpOK(h, t) /\ SocketOK(h, t)
  <2>1. CursorOK(h, t) /\ HttpOK(h, t)
    BY <1>9, <1>14, <1>15, <1>16, <1>19 DEF SessionOK, CursorOK, HttpOK
  <2>2. \A m : UpOK(h, s, m) => UpOK(h, t, m) BY <1>14, <1>15, <1>16, <1>19 DEF UpOK
  <2>3. \A m : DownOK(h, s, m) => DownOK(h, t, m) BY <1>14, <1>15, <1>16, <1>19 DEF DownOK
  <2>4. SocketOK(h, t) BY <1>9, <1>15, <1>16, <1>19, <2>2, <2>3 DEF SessionOK, SocketOK
  <2> QED BY <2>1, <2>4
<1>20. CASE /\ stored' = Remember(c, b) /\ UNCHANGED unsaved
            /\ Becomes(c, Publish(queued)) \/ Becomes(c, armed)
  <2>1. stored'[u] = Append(stored[u], b) BY <1>7, <1>20 DEF Remember, u
  <2>2. ToSet(Append(stored[u], b)) = ToSet(stored[u]) \cup {b}
    <3>1. stored[u] \in Seq(Batches) BY <1>7
    <3> DEFINE q == stored[u]
    <3> HIDE DEF q
    <3>2. q \in Seq(Batches) => ToSet(Append(q, b)) = ToSet(q) \cup {b}
      <4> SUFFICES ASSUME q \in Seq(Batches) PROVE ToSet(Append(q, b)) = ToSet(q) \cup {b} OBVIOUS
      <4>1. /\ DOMAIN q = 1 .. Len(q) /\ Len(q) \in Nat /\ DOMAIN Append(q, b) = 1 .. Len(q) + 1
            /\ Append(q, b)[Len(q) + 1] = b /\ \A i \in 1 .. Len(q) : Append(q, b)[i] = q[i]
        OBVIOUS
      <4>2. \A i \in 1 .. Len(q) + 1 : i \in 1 .. Len(q) \/ i = Len(q) + 1 BY <4>1
      <4>3. 1 .. Len(q) \subseteq 1 .. Len(q) + 1 /\ Len(q) + 1 \in 1 .. Len(q) + 1 BY <4>1
      <4> QED BY <4>1, <4>2, <4>3 DEF ToSet
    <3> QED BY <3>1, <3>2 DEF q
  <2>3. QueueOK(h, u, queued)
    <3>1. b \in ToSet(h.stored[u]) /\ b \in h.made BY <1>7, <2>1, <2>2
    <3> QED BY <1>9, <1>10, <1>13, <1>14, <1>16, <3>1 DEF SessionOK, QueueOK
  <2>4. SessionOK(h, u, queued) BY <1>16, <1>19, <2>3 DEF SessionOK
  <2>5. Works(h, u, queued, Publish(queued)) BY <2>4, PublishOK
  <2>6. SessionOK(h, u, armed) BY <1>17, <2>4, SameOK
  <2>7. PICK t : Becomes(c, t) /\ Moves(h, u, s, t)
    BY <1>16, <1>17, <1>20, <2>5, <2>6, PublishOK
    DEF Moves, Works, Honest, SamePlace, Same, Idle
  <2>8. /\ SessionOK(World', UserOf[c], t) /\ t.authenticated = session[c].authenticated
        /\ Honest(session[c], t) /\ WorldOK(World') /\ Grows(World, World')
    BY <1>5, <2>7 DEF Moves, h, u, s, g
  <2> QED BY <1>1, <1>6, <2>7, <2>8, InvMove
<1>21. CASE /\ UNCHANGED stored /\ unsaved' = unsaved \cup {b}
            /\ Becomes(c, failed)
  <2>1. QueueOK(h, u, noted)
    <3>1. b \in h.unsaved /\ b \in h.made BY <1>7, <1>21
    <3> QED BY <1>9, <1>14, <1>15, <3>1 DEF SessionOK, QueueOK
  <2>2. SessionOK(h, u, noted) BY <1>15, <1>19, <2>1 DEF SessionOK
  <2>3. SessionOK(h, u, failed) /\ failed.authenticated = s.authenticated
    BY <1>15, <1>18, <2>2, SameOK
  <2>4. /\ SessionOK(World', UserOf[c], failed) /\ failed.authenticated = session[c].authenticated
        /\ Honest(session[c], failed) /\ WorldOK(World') /\ Grows(World, World')
    BY <1>5, <1>18, <2>3 DEF h, u, s, g, Honest
  <2> QED BY <1>1, <1>6, <1>21, <2>4, InvMove
<1> QED BY <1>4, <1>20, <1>21 DEF b, s
LEMMA InvReload == ASSUME Inv, NEW c \in Client, Reload(c) PROVE Inv' /\ HonestStep
<1> DEFINE g == World
           s == session[c]
           carried == IF s.http = "sent" THEN {Write(s.carried, FALSE)} ELSE {}
<1>0. World' = g /\ WorldOK(World') /\ Grows(g, World') BY SameWorldNext DEF Reload
<1>1. SessionOK(g, UserOf[c], s) /\ UserOf[c] \in User BY ClientAssumption DEF Inv
<1>2. BoundsOK' BY DEF Inv, BoundsOK, Reload
<1>3. /\ Becomes(c, NewSession) /\ bus' = {m \in bus : m.to # c}
      /\ orphans' = (orphans \cup Unanswered(c)) \cup carried
  BY DEF Reload
<1>4. SessionOK(World', UserOf[c], NewSession) BY <1>0, <1>1, NewSessionOK
<1>5. Honest(s, NewSession) BY DEF Honest, NewSession
<1>6. \A w \in Unanswered(c) : w \in Writes /\ WriteOK(g, w.batches)
  <2> TAKE w \in Unanswered(c)
  <2>1. PICK i \in DOMAIN s.up : w = Write(s.up[i].batches, TRUE) BY DEF Unanswered, ToSet
  <2>2. WriteOK(g, s.up[i].batches) BY <1>1 DEF SessionOK, SocketOK, UpOK
  <2>3. s.up[i].batches \in Seq(Batches) BY <2>2 DEF WriteOK
  <2> HIDE DEF g
  <2> QED BY <2>1, <2>2, <2>3 DEF Write, Writes
<1>7. \A w \in carried : w \in Writes /\ WriteOK(g, w.batches)
  <2>1. s.http = "sent" => WriteOK(g, s.carried) BY <1>1 DEF SessionOK, HttpOK
  <2>2. s.http = "sent" => s.carried \in Seq(Batches) BY <2>1 DEF WriteOK
  <2>3. \A w \in carried : s.http = "sent" /\ w = Write(s.carried, FALSE) OBVIOUS
  <2> HIDE DEF g, s, carried
  <2>4. s.carried \in Seq(Batches) =>
          /\ Write(s.carried, FALSE) \in Writes
          /\ Write(s.carried, FALSE).batches = s.carried
    BY DEF Write, Writes
  <2> QED BY <2>1, <2>2, <2>3, <2>4
<1> HIDE DEF g, s, carried
<1>8. \A w \in orphans' : w \in orphans \/ (w \in Writes /\ WriteOK(World', w.batches))
  BY <1>0, <1>3, <1>6, <1>7
<1>9. \A m \in bus' : m \in bus /\ m.to # c BY <1>3
<1> QED BY <1>0, <1>2, <1>3, <1>4, <1>5, <1>8, <1>9, InvMove DEF g, s

-----------------------------------------------------------------------------
(* HTTP.                                                                   *)

\* What an HTTP request carries may be written at any time while it is out.
LEMMA InvServeHttp == ASSUME Inv, NEW c \in Client, ServeHttp(c) PROVE Inv' /\ HonestStep
<1> DEFINE g == World
           h == World'
           u == UserOf[c]
           s == session[c]
           done == [s EXCEPT !.http = "done"]
           failed == [s EXCEPT !.http = "failed"]
<1>1. SessionOK(g, u, s) /\ WorldOK(g) /\ u \in User /\ s.http = "sent"
  BY ClientAssumption DEF Inv, ServeHttp
<1>2. BoundsOK' /\ UNCHANGED bus
  BY DEF Inv, BoundsOK, ServeHttp, Succeeds, Fails, bounds
<1>3. s \in SessionState /\ WriteOK(g, s.carried) /\ s.saves # <<>>
  BY <1>1 DEF SessionOK, HttpOK
<1>4. s.carried \in Seq(Batches) BY <1>3 DEF WriteOK
<1>5. CASE /\ Store(s.carried) /\ UNCHANGED orphans /\ Becomes(c, done)
  <2>1. WorldOK(h) /\ Grows(g, h) /\ ToSet(s.carried) \subseteq Held(h)
    <3>1. UNCHANGED <<edits, parents, unsaved, stored>> BY DEF ServeHttp
    <3> QED BY <1>3, <1>5, <3>1, StoreGrows
  <2>2. SessionOK(h, u, s) BY <1>1, <2>1, SessionGrows
  <2>3. Idle(s, done) /\ done.http = "done" /\ done.carried = s.carried /\ done.saves = s.saves
        /\ done.status = s.status
    BY <1>3 DEF SessionState, Idle, SamePlace
  <2> HIDE DEF g, h
  <2>4. HttpOK(h, done)
    <3>1. WriteOK(h, s.carried) BY <1>1, <1>3, <2>1, WriteGrows
    <3> HIDE DEF done, s
    <3> QED BY <1>3, <2>1, <2>3, <3>1 DEF HttpOK
  <2>5. SessionOK(h, u, done) BY <2>2, <2>3, <2>4, IdleOK
  <2>6. Honest(s, done) /\ done.authenticated = s.authenticated
    BY <2>3 DEF Honest, Idle, SamePlace
  <2> HIDE DEF done
  <2> QED BY <1>2, <1>5, <2>1, <2>5, <2>6, InvMove DEF g, h
<1>6. CASE /\ UNCHANGED log /\ Becomes(c, failed)
           /\ orphans' = orphans \/ orphans' = orphans \cup {Write(s.carried, FALSE)}
  <2>1. h = g /\ WorldOK(h) /\ Grows(g, h) BY <1>6, SameWorldNext DEF ServeHttp
  <2>2. Idle(s, failed) /\ failed.http = "failed" /\ failed.carried = s.carried
        /\ failed.saves = s.saves /\ failed.status = s.status
    BY <1>3 DEF SessionState, Idle, SamePlace
  <2> HIDE DEF g, h
  <2>3. HttpOK(g, failed)
    <3> HIDE DEF failed, s
    <3> QED BY <1>3, <2>2 DEF HttpOK
  <2>4. SessionOK(h, u, failed) BY <1>1, <2>1, <2>2, <2>3, IdleOK
  <2>5. Honest(s, failed) /\ failed.authenticated = s.authenticated
    BY <2>2 DEF Honest, Idle, SamePlace
  <2> HIDE DEF failed
  <2>6. Write(s.carried, FALSE) \in Writes /\ WriteOK(h, Write(s.carried, FALSE).batches)
    BY <1>3, <1>4, <2>1 DEF Write, Writes
  <2>7. \A w \in orphans' : w \in orphans \/ (w \in Writes /\ WriteOK(h, w.batches))
    BY <1>6, <2>6
  <2> QED BY <1>2, <1>6, <2>1, <2>4, <2>5, <2>7, InvMove DEF g, h
<1> QED BY <1>5, <1>6 DEF ServeHttp

LEMMA InvHttpAnswered == ASSUME Inv, NEW c \in Client, HttpAnswered(c) PROVE Inv' /\ HonestStep
<1> DEFINE g == World
           h == World'
           u == UserOf[c]
           s == session[c]
           ids == ToSet(s.carried)
           a == Acknowledge(s, ids)
<1>1. SessionOK(g, u, s) /\ WorldOK(g) /\ u \in User BY ClientAssumption DEF Inv
<1>2. BoundsOK' /\ UNCHANGED <<orphans, bus>>
  BY DEF Inv, BoundsOK, HttpAnswered, bounds
<1>3. CASE s.http = "done" /\ stored' = Forget(c, ids)
           /\ Becomes(c, IF a.pending = <<>> THEN EndSave(a, "saved") ELSE SendHttp(a))
  <2>1. ids \in SUBSET Held(g) BY <1>1, <1>3 DEF SessionOK, HttpOK
  <2>2. WorldOK(h) /\ Grows(g, h) /\ Held(h) = Held(g)
    <3>1. UNCHANGED <<edits, parents, unsaved, log>> BY DEF HttpAnswered
    <3> QED BY <1>3, <2>1, <3>1, ForgetGrows
  <2> HIDE DEF g, h, ids
  <2>3. SessionOK(h, u, s) BY <1>1, <2>2, SessionGrows
  <2>4. /\ SessionOK(h, u, a) /\ SamePlace(s, a) /\ a.status = s.status
        /\ a.saves = s.saves /\ a.http = s.http
    BY <2>1, <2>2, <2>3, AcknowledgeOK
  <2>5. s.saves # <<>> BY <1>1, <1>3 DEF SessionOK, HttpOK
  <2> HIDE DEF a
  <2>6. a.pending = <<>> => Works(h, u, a, EndSave(a, "saved")) BY <1>3, <2>4, EndSaveOK
  <2>7. Works(h, u, a, SendHttp(a)) BY <2>4, <2>5, SendHttpOK
  <2>8. PICK t : Becomes(c, t) /\ Works(h, u, a, t) BY <1>3, <2>6, <2>7
  <2>9. SessionOK(h, u, t) /\ Honest(s, t) /\ t.authenticated = s.authenticated
    BY <2>4, <2>8 DEF Works, Honest, SamePlace
  <2> QED BY <1>2, <2>2, <2>8, <2>9, InvMove DEF g, h
<1>4. CASE s.http = "failed" /\ UNCHANGED stored /\ Becomes(c, EndSave(s, "error"))
  <2>1. h = g /\ WorldOK(h) /\ Grows(g, h) BY <1>4, SameWorldNext DEF HttpAnswered
  <2>2. Works(g, u, s, EndSave(s, "error")) BY <1>1, <1>4, EndSaveOK
  <2>3. /\ SessionOK(h, u, EndSave(s, "error")) /\ Honest(s, EndSave(s, "error"))
        /\ EndSave(s, "error").authenticated = s.authenticated
    BY <2>1, <2>2 DEF Works, SamePlace
  <2> QED BY <1>2, <1>4, <2>1, <2>3, InvMove
<1> QED BY <1>3, <1>4 DEF HttpAnswered
-----------------------------------------------------------------------------
(* The server's side of a socket.                                          *)

\* The server has taken the first message, and answers nothing.
LEMMA TakeOK ==
  ASSUME NEW g, NEW u, NEW s, SessionOK(g, u, s), s.up # <<>>,
         NEW t \in SessionState, t.up = Tail(s.up),
         t.pending = s.pending, t.inFlight = s.inFlight, t.known = s.known, t.cursor = s.cursor,
         t.saves = s.saves, t.http = s.http, t.carried = s.carried, t.socket = s.socket,
         t.synced = s.synced, t.synced => t.authenticated = "yes", t.down = s.down,
         t.authenticated = s.authenticated \/ s.authenticated = "no"
  PROVE  SessionOK(g, u, t)
<1>0. s \in SessionState /\ s.up \in Seq(UpMessage) BY DEF SessionOK, SessionState
<1>1. \A i \in DOMAIN t.up : i + 1 \in DOMAIN s.up /\ t.up[i] = s.up[i + 1] /\ i + 1 # 1
  BY <1>0
<1>2. \A m : UpOK(g, s, m) => UpOK(g, t, m) BY DEF UpOK
<1>3. \A m : DownOK(g, s, m) => DownOK(g, t, m) BY DEF DownOK
<1>4. s.socket # "none" BY DEF SessionOK, SocketOK
<1>5. SocketOK(g, t)
  <2>1. \A i \in DOMAIN t.up : UpOK(g, t, t.up[i]) /\ t.up[i].type # "auth"
    BY <1>1, <1>2 DEF SessionOK, SocketOK
  <2>2. \A i \in DOMAIN t.down : DownOK(g, t, t.down[i]) BY <1>3 DEF SessionOK, SocketOK
  <2> QED BY <1>4, <2>1, <2>2 DEF SocketOK
<1>6. QueueOK(g, u, t) /\ CursorOK(g, t) /\ HttpOK(g, t)
  BY DEF SessionOK, QueueOK, CursorOK, HttpOK
<1> QED BY <1>5, <1>6 DEF SessionOK

\* The server sends a message.
LEMMA GiveOK ==
  ASSUME NEW g, NEW u, NEW s, SessionOK(g, u, s), s.socket # "none",
         NEW m \in DownMessage, DownOK(g, s, m),
         NEW t \in SessionState, t.down = Append(s.down, m), t.up = s.up,
         t.pending = s.pending, t.inFlight = s.inFlight, t.known = s.known, t.cursor = s.cursor,
         t.saves = s.saves, t.http = s.http, t.carried = s.carried, t.socket = s.socket,
         t.synced = s.synced, t.authenticated \in {s.authenticated, "yes"},
         t.authenticated # s.authenticated => s.authenticated # "no"
  PROVE  SessionOK(g, u, t)
<1>0. s \in SessionState /\ s.down \in Seq(DownMessage) BY DEF SessionOK, SessionState
<1>1. \A i \in DOMAIN t.down : (i \in DOMAIN s.down /\ t.down[i] = s.down[i]) \/ t.down[i] = m
  BY <1>0
<1>2. \A x : UpOK(g, s, x) => UpOK(g, t, x) BY DEF UpOK
<1>3. \A x : DownOK(g, s, x) => DownOK(g, t, x) BY DEF DownOK
<1>5. SocketOK(g, t)
  <2>1. \A i \in DOMAIN t.up : UpOK(g, t, t.up[i]) BY <1>2 DEF SessionOK, SocketOK
  <2>2. \A i \in DOMAIN t.down : DownOK(g, t, t.down[i]) BY <1>1, <1>3 DEF SessionOK, SocketOK
  <2>3. \A i \in DOMAIN t.up : t.up[i].type = "auth" => i = 1 /\ t.authenticated = "no"
    BY DEF SessionOK, SocketOK
  <2> QED BY <2>1, <2>2, <2>3 DEF SessionOK, SocketOK
<1>6. QueueOK(g, u, t) /\ CursorOK(g, t) /\ HttpOK(g, t)
  BY DEF SessionOK, QueueOK, CursorOK, HttpOK
<1> QED BY <1>5, <1>6 DEF SessionOK

LEMMA ReplyOK ==
  ASSUME NEW g, NEW u, NEW s, SessionOK(g, u, s), s.up # <<>>, Head(s.up).type # "auth",
         NEW m \in DownMessage, DownOK(g, s, m)
  PROVE  Moves(g, u, s, Reply(s, m))
<1> DEFINE up == Tail(s.up)
           down == Append(s.down, m)
           v == [s EXCEPT !.up = up]
           t == [s EXCEPT !.up = up, !.down = down]
<1>0. s \in SessionState /\ s.up \in Seq(UpMessage) /\ s.down \in Seq(DownMessage)
  BY DEF SessionOK, SessionState
<1>1. up \in Seq(UpMessage) /\ down \in Seq(DownMessage) BY <1>0
<1>2. Reply(s, m) = t BY DEF Reply
<1>3. up = Tail(s.up) /\ down = Append(s.down, m) OBVIOUS
<1> HIDE DEF up, down
<1>4. /\ v \in SessionState /\ v.known = s.known /\ v.cursor = s.cursor /\ v.pending = s.pending
      /\ v.inFlight = s.inFlight /\ v.up = up /\ v.down = s.down /\ v.saves = s.saves
      /\ v.http = s.http /\ v.carried = s.carried /\ v.status = s.status
      /\ v.authenticated = s.authenticated /\ v.synced = s.synced /\ v.socket = s.socket
  BY <1>0, <1>1 DEF SessionState
<1>5. /\ t \in SessionState /\ t.known = s.known /\ t.cursor = s.cursor /\ t.pending = s.pending
      /\ t.inFlight = s.inFlight /\ t.up = up /\ t.down = down /\ t.saves = s.saves
      /\ t.http = s.http /\ t.carried = s.carried /\ t.status = s.status
      /\ t.authenticated = s.authenticated /\ t.synced = s.synced /\ t.socket = s.socket
  BY <1>0, <1>1 DEF SessionState
<1> HIDE DEF v, t
<1>6. SessionOK(g, u, v) BY <1>3, <1>4, TakeOK DEF SessionOK, SocketOK
<1>7. s.socket # "none" BY DEF SessionOK, SocketOK
<1>8. DownOK(g, v, m) BY <1>4 DEF DownOK
<1>9. SessionOK(g, u, t) BY <1>3, <1>4, <1>5, <1>6, <1>7, <1>8, GiveOK
<1> QED BY <1>2, <1>5, <1>9 DEF Moves, Honest

\* A message that holds no batches.
LEMMA PlainMessage ==
  ASSUME NEW g, WorldOK(g), NEW s, NEW type \in {"ready", "error"}, NEW flag \in BOOLEAN
  PROVE  /\ Message(type, <<>>, 0, flag) \in DownMessage
         /\ DownOK(g, s, Message(type, <<>>, 0, flag))
<1> DEFINE none == <<>>
           m == Message(type, none, 0, flag)
<1>1. none \in Seq(Batches) /\ ToSet(none) = {} BY EmptyWrite
<1> HIDE DEF none
<1>2. m \in DownMessage /\ m.type = type /\ m.batches = none /\ m.next = 0
  BY <1>1 DEF Message, DownMessage
<1> HIDE DEF m
<1>3. Len(g.log) \in Nat BY DEF WorldOK
<1>4. DownOK(g, s, m) BY <1>1, <1>2, <1>3 DEF DownOK
<1> QED BY <1>2, <1>4 DEF m, none

LEMMA InvServeAuth == ASSUME Inv, NEW c \in Client, ServeAuth(c) PROVE Inv' /\ HonestStep
<1> DEFINE g == World
           h == World'
           u == UserOf[c]
           s == session[c]
           up == Tail(s.up)
           ready == Message("ready", <<>>, 0, FALSE)
           down == Append(s.down, ready)
           taken == [s EXCEPT !.up = up, !.authenticated = "pending"]
           given == [s EXCEPT !.authenticated = "yes", !.down = down]
<1>0. h = g /\ WorldOK(h) /\ Grows(g, h) BY SameWorldNext DEF ServeAuth
<1>1. SessionOK(g, u, s) /\ WorldOK(g) BY DEF Inv
<1>2. BoundsOK' /\ UNCHANGED <<orphans, bus>> BY DEF Inv, BoundsOK, ServeAuth, bounds
<1>3. s \in SessionState /\ s.up \in Seq(UpMessage) /\ s.down \in Seq(DownMessage)
  BY <1>1 DEF SessionOK, SessionState
<1>4. ready \in DownMessage /\ DownOK(g, s, ready) BY <1>1, PlainMessage
<1>5. BusOK(g) BY DEF Inv
<1> HIDE DEF g, h, ready
<1>6. ASSUME NEW t, SessionOK(g, u, t), Becomes(c, t), t.status = s.status,
             t.authenticated = s.authenticated \/ s.authenticated # "yes"
      PROVE  Inv' /\ HonestStep
  <2>1. \A m \in bus : m.to # c \/ t.authenticated = s.authenticated BY <1>5, <1>6 DEF BusOK
  <2>2. SessionOK(World', u, t) /\ Honest(s, t) BY <1>0, <1>6 DEF h, Honest
  <2> QED BY <1>0, <1>2, <1>6, <2>1, <2>2, InvMove DEF g, h
<1>7. CASE s.up # <<>> /\ Head(s.up).type = "auth" /\ Becomes(c, taken)
  <2>1. up \in Seq(UpMessage) BY <1>3, <1>7
  <2>2. s.authenticated = "no" /\ ~s.synced
    <3>1. s.up[1].type = "auth" /\ 1 \in DOMAIN s.up BY <1>3, <1>7
    <3> QED BY <1>1, <3>1 DEF SessionOK, SocketOK
  <2>5. up = Tail(s.up) OBVIOUS
  <2> HIDE DEF up
  <2>3. /\ taken \in SessionState /\ taken.known = s.known /\ taken.cursor = s.cursor
        /\ taken.pending = s.pending /\ taken.inFlight = s.inFlight /\ taken.up = up
        /\ taken.down = s.down /\ taken.saves = s.saves
        /\ taken.http = s.http /\ taken.carried = s.carried /\ taken.status = s.status
        /\ taken.authenticated = "pending" /\ taken.synced = s.synced /\ taken.socket = s.socket
    BY <1>3, <2>1 DEF SessionState
  <2> HIDE DEF taken
  <2>4. SessionOK(g, u, taken) BY <1>1, <1>7, <2>2, <2>3, <2>5, TakeOK
  <2> QED BY <1>6, <1>7, <2>2, <2>3, <2>4
<1>8. CASE s.authenticated = "pending" /\ Becomes(c, given)
  <2>1. down \in Seq(DownMessage) /\ down = Append(s.down, ready) BY <1>3, <1>4
  <2> HIDE DEF down
  <2>3. /\ given \in SessionState /\ given.known = s.known /\ given.cursor = s.cursor
        /\ given.pending = s.pending /\ given.inFlight = s.inFlight /\ given.up = s.up
        /\ given.down = down /\ given.saves = s.saves
        /\ given.http = s.http /\ given.carried = s.carried /\ given.status = s.status
        /\ given.authenticated = "yes" /\ given.synced = s.synced /\ given.socket = s.socket
    BY <1>3, <2>1 DEF SessionState
  <2> HIDE DEF given
  <2>5. s.socket # "none" BY <1>1, <1>8 DEF SessionOK, SocketOK
  <2>4. SessionOK(g, u, given) BY <1>1, <1>4, <1>8, <2>1, <2>3, <2>5, GiveOK
  <2> QED BY <1>6, <1>8, <2>3, <2>4
<1>9. CASE s.up # <<>> /\ Head(s.up).type # "auth"
           /\ Becomes(c, Reply(s, Message("error", <<>>, 0, TRUE)))
  <2> DEFINE m == Message("error", <<>>, 0, TRUE)
             t == Reply(s, m)
  <2>1. m \in DownMessage /\ DownOK(g, s, m) BY <1>0, PlainMessage
  <2> HIDE DEF m
  <2>2. Moves(g, u, s, t) BY <1>1, <1>9, <2>1, ReplyOK
  <2>3. t.status = s.status BY <1>3 DEF Reply, SessionState
  <2> QED BY <1>6, <1>9, <2>2, <2>3 DEF Moves, m
<1> QED BY <1>7, <1>8, <1>9 DEF ServeAuth, ready
LEMMA InvServeEvent == ASSUME Inv, NEW c \in Client, ServeEvent(c) PROVE Inv' /\ HonestStep
<1> DEFINE g == World
           h == World'
           u == UserOf[c]
           s == session[c]
           chunk == Head(s.up).batches
           ack == Message("ack", chunk, 0, FALSE)
<1>1. SessionOK(g, u, s) /\ WorldOK(g) /\ u \in User BY ClientAssumption DEF Inv
<1>2. BoundsOK' BY DEF Inv, BoundsOK, ServeEvent, Succeeds, Fails, bounds
<1>3. s \in SessionState /\ s.up \in Seq(UpMessage) /\ s.up # <<>> /\ Head(s.up).type # "auth"
      /\ s.authenticated = "yes"
  BY <1>1 DEF SessionOK, SessionState, ServeEvent
<1>4. UpOK(g, s, Head(s.up))
  <2>1. 1 \in DOMAIN s.up /\ Head(s.up) = s.up[1] BY <1>3
  <2> HIDE DEF g
  <2> QED BY <1>1, <2>1 DEF SessionOK, SocketOK
<1>5. WriteOK(g, chunk) /\ ToSet(chunk) \subseteq s.known /\ chunk \in Seq(Batches)
  <2> HIDE DEF g
  <2> QED BY <1>4 DEF UpOK, WriteOK
<1>6. CASE Store(chunk) /\ Announce(chunk) /\ Becomes(c, Reply(s, ack)) /\ UNCHANGED orphans
  <2>1. WorldOK(h) /\ Grows(g, h) /\ ToSet(chunk) \subseteq Held(h)
    <3>1. UNCHANGED <<edits, parents, unsaved, stored>> BY DEF ServeEvent
    <3> QED BY <1>5, <1>6, <3>1, StoreGrows
  <2> HIDE DEF g, h
  <2>2. SessionOK(h, u, s) BY <1>1, <2>1, SessionGrows
  <2>3. ack \in DownMessage /\ ack.batches = chunk /\ ack.type = "ack" /\ ack.next = 0
    BY <1>5 DEF Message, DownMessage
  <2> HIDE DEF ack
  <2>4. DownOK(h, s, ack)
    <3>1. Len(h.log) \in Nat BY <2>1 DEF WorldOK
    <3> QED BY <1>5, <2>1, <2>3, <3>1 DEF DownOK
  <2>5. Moves(h, u, s, Reply(s, ack)) BY <1>3, <2>2, <2>3, <2>4, ReplyOK
  <2> DEFINE t == Reply(s, ack)
  <2>6. SessionOK(h, u, t) /\ Honest(s, t) /\ t.authenticated = s.authenticated
    BY <2>5 DEF Moves
  <2> HIDE DEF t
  <2>7. /\ \A d \in Client \ {c} : session'[d] = session[d]
        /\ session'[c] = t
    BY <1>6 DEF Becomes, Inv, t
  <2>8. \A m \in bus' :
           \/ m \in bus /\ (m.to # c \/ t.authenticated = session[c].authenticated)
           \/ m \in [to : {x \in Client : session'[x].authenticated = "yes"}, batch : Held(h)]
    <3> SUFFICES ASSUME NEW m \in bus' \ bus
                 PROVE  m \in [to : {x \in Client : session'[x].authenticated = "yes"}, batch : Held(h)]
      BY <2>6
    <3>1. PICK x \in Client, b \in ToSet(chunk) :
            session[x].authenticated = "yes" /\ m = [to |-> x, batch |-> b]
      BY <1>6 DEF Announce
    <3>2. session'[x].authenticated = "yes" BY <2>6, <2>7, <3>1
    <3> QED BY <2>1, <3>1, <3>2
  <2>9. Becomes(c, t) BY <1>6 DEF t
  <2> QED BY <1>2, <1>6, <2>1, <2>6, <2>8, <2>9, InvMove DEF g, h
<1>7. ASSUME NEW flag \in BOOLEAN, Becomes(c, Reply(s, Message("error", <<>>, 0, flag))),
             UNCHANGED <<log, bus>>,
             UNCHANGED orphans \/ orphans' = orphans \cup {Write(chunk, FALSE)}
      PROVE  Inv' /\ HonestStep
  <2> DEFINE m == Message("error", <<>>, 0, flag)
             t == Reply(s, m)
  <2>1. h = g /\ WorldOK(h) /\ Grows(g, h) BY <1>7, SameWorldNext DEF ServeEvent
  <2>2. m \in DownMessage /\ DownOK(g, s, m) BY <1>1, PlainMessage
  <2>9. Becomes(c, t) BY <1>7
  <2> HIDE DEF m, g, h, chunk
  <2>3. Moves(g, u, s, t) BY <1>1, <1>3, <2>2, ReplyOK
  <2> HIDE DEF t
  <2>4. Write(chunk, FALSE) \in Writes /\ Write(chunk, FALSE).batches = chunk
    BY <1>5 DEF Write, Writes
  <2>5. \A w \in orphans' : w \in orphans \/ (w \in Writes /\ WriteOK(h, w.batches))
    BY <1>5, <1>7, <2>1, <2>4
  <2>6. SessionOK(h, u, t) /\ Honest(s, t) /\ t.authenticated = s.authenticated
    BY <2>1, <2>3 DEF Moves
  <2> QED BY <1>2, <1>7, <2>1, <2>5, <2>6, <2>9, InvMove DEF g, h
<1> QED BY <1>6, <1>7 DEF ServeEvent

\* A page holds the history from where it was asked for.
LEMMA InvServeRepair == ASSUME Inv, NEW c \in Client, ServeRepair(c) PROVE Inv' /\ HonestStep
<1> DEFINE g == World
           h == World'
           u == UserOf[c]
           s == session[c]
           after == Head(s.up).after
           last == IF after + PageSize < Len(log) THEN after + PageSize ELSE Len(log)
           page == SubSeq(log, after + 1, last)
           flag == (last = Len(log))
           m == Message("page", page, last, flag)
           t == Reply(s, m)
<1>0. h = g /\ WorldOK(h) /\ Grows(g, h) BY SameWorldNext DEF ServeRepair
<1>1. SessionOK(g, u, s) /\ WorldOK(g) /\ log = g.log BY DEF Inv, World
<1>2. BoundsOK' /\ UNCHANGED <<orphans, bus>> BY DEF Inv, BoundsOK, ServeRepair, bounds
<1>3. s \in SessionState /\ s.up \in Seq(UpMessage) /\ s.up # <<>> /\ Head(s.up).type # "auth"
      /\ s.authenticated = "yes" /\ s.cursor \in Nat
  BY <1>1 DEF SessionOK, SessionState, ServeRepair
<1>10. Becomes(c, t) BY DEF ServeRepair, Page
<1>11. ASSUME NEW q, NEW n, NEW f
       PROVE  /\ Message("page", q, n, f).type = "page" /\ Message("page", q, n, f).batches = q
              /\ Message("page", q, n, f).next = n
              /\ q \in Seq(Batches) /\ n \in Nat /\ f \in BOOLEAN =>
                   Message("page", q, n, f) \in DownMessage
  BY DEF Message, DownMessage
<1> HIDE DEF g
<1>4. UpOK(g, s, Head(s.up)) /\ after \in Nat
  <2>1. 1 \in DOMAIN s.up /\ Head(s.up) = s.up[1] /\ Head(s.up) \in UpMessage BY <1>3
  <2> QED BY <1>1, <2>1 DEF SessionOK, SocketOK, UpMessage
<1>5. after <= s.cursor /\ s.cursor <= Len(log) /\ log \in Seq(Batches) /\ Len(log) \in Nat
  BY <1>1, <1>4 DEF UpOK, SessionOK, CursorOK, WorldOK
<1> HIDE DEF after
<1>6. last \in Nat /\ last <= Len(log) /\ PageSize \in Nat BY <1>4, <1>5, ClientAssumption
<1>7. \/ last >= after + 1 /\ page \in Seq(Batches) /\ DOMAIN page = 1 .. (last - after)
         /\ \A i \in 1 .. (last - after) : page[i] = log[after + i]
      \/ last <= after /\ page = <<>> /\ DOMAIN page = {} /\ page \in Seq(Batches)
  BY <1>4, <1>5, <1>6
<1>12. flag \in BOOLEAN OBVIOUS
<1> HIDE DEF last, page, flag
<1>8. m \in DownMessage /\ m.type = "page" /\ m.batches = page /\ m.next = last
  BY <1>6, <1>7, <1>11, <1>12
<1>9. ToSet(page) \subseteq Held(g)
  <2> SUFFICES ASSUME NEW b \in ToSet(page) PROVE b \in ToSet(log) BY <1>1 DEF Held
  <2>1. PICK i \in DOMAIN page : b = page[i] BY DEF ToSet
  <2>2. b = log[after + i] /\ after + i \in DOMAIN log BY <1>4, <1>5, <1>6, <1>7, <2>1
  <2> QED BY <2>2 DEF ToSet
<1>13. ASSUME NEW i \in 1 .. last PROVE i <= s.cursor \/ log[i] \in ToSet(page)
  <2>1. CASE i > after
    <3>1. i - after \in DOMAIN page /\ page[i - after] = log[i] BY <1>4, <1>6, <1>7, <2>1
    <3> QED BY <3>1 DEF ToSet
  <2>2. CASE i <= after BY <1>3, <1>4, <1>5, <2>2
  <2> QED BY <1>4, <2>1, <2>2
<1> HIDE DEF m
<1>14. DownOK(g, s, m) BY <1>1, <1>3, <1>6, <1>8, <1>9, <1>13 DEF DownOK
<1>15. Moves(g, u, s, t) BY <1>1, <1>3, <1>8, <1>14, ReplyOK
<1> HIDE DEF t
<1>16. SessionOK(h, u, t) /\ Honest(s, t) /\ t.authenticated = s.authenticated
  BY <1>0, <1>15 DEF Moves
<1> QED BY <1>0, <1>2, <1>10, <1>16, InvMove DEF g

\* A write whose session no longer waits for it is one that may take place.
LEMMA InvServeOrphan == ASSUME Inv, ServeOrphan PROVE Inv' /\ HonestStep
<1> DEFINE g == World
           h == World'
<1>1. PICK w \in orphans :
        /\ orphans' = orphans \ {w}
        /\ \/ /\ Store(w.batches)
              /\ Announce(w.batches) \/ UNCHANGED bus
           \/ UNCHANGED <<log, bus>>
        /\ UNCHANGED <<session, edits, parents, stored, unsaved, bounds>>
  BY DEF ServeOrphan
<1>2. WorldOK(g) /\ WriteOK(g, w.batches) BY DEF Inv, OrphansOK
<1>3. /\ WorldOK(h) /\ Grows(g, h)
      /\ ToSet(w.batches) \subseteq Held(h) \/ UNCHANGED bus
  <2>1. CASE Store(w.batches) BY <1>1, <1>2, <2>1, StoreGrows
  <2>2. CASE UNCHANGED <<log, bus>> BY <1>1, <2>2, SameWorldNext
  <2> QED BY <1>1, <2>1, <2>2
<1>4. OrphansOK(World)' BY <1>1, <1>2, <1>3, WriteGrows DEF Inv, OrphansOK
<1>5. BusOK(World)'
  <2>1. Held(g) \subseteq Held(h) BY <1>2, <1>3, HeldGrows
  <2>2. bus \subseteq [to : {x \in Client : session'[x].authenticated = "yes"}, batch : Held(h)]
    BY <1>1, <2>1 DEF Inv, BusOK
  <2>3. CASE UNCHANGED bus BY <2>2, <2>3 DEF BusOK
  <2>4. CASE Announce(w.batches) /\ ToSet(w.batches) \subseteq Held(h)
    <3>1. ASSUME NEW m \in bus' \ bus
          PROVE  m \in [to : {x \in Client : session'[x].authenticated = "yes"}, batch : Held(h)]
      <4>1. PICK x \in Client, b \in ToSet(w.batches) :
              session[x].authenticated = "yes" /\ m = [to |-> x, batch |-> b]
        BY <2>4 DEF Announce
      <4> QED BY <1>1, <2>4, <4>1
    <3> QED BY <2>2, <3>1 DEF BusOK
  <2> QED BY <1>1, <1>3, <2>3, <2>4
<1>6. \A c \in Client : SessionOK(h, UserOf[c], session[c])
  BY <1>2, <1>3, SessionGrows, ClientAssumption DEF Inv
<1> QED BY <1>1, <1>3, <1>4, <1>5, <1>6 DEF Inv, BoundsOK, bounds, HonestStep, Honest

LEMMA InvDeliver == ASSUME Inv, Deliver PROVE Inv' /\ HonestStep
<1> DEFINE g == World
           h == World'
<1>1. PICK m \in bus : 
        /\ bus' = bus \ {m}
        /\ \/ Becomes(m.to, [session[m.to] EXCEPT
                               !.down = Append(@, Message("event", <<m.batch>>, 0, FALSE))])
           \/ UNCHANGED session
        /\ UNCHANGED <<edits, parents, stored, unsaved, log, orphans, budget>>
  BY DEF Deliver, Succeeds, Fails, bounds
<1> DEFINE c == m.to
           s == session[c]
           one == <<m.batch>>
           e == Message("event", one, 0, FALSE)
           down == Append(s.down, e)
           t == [s EXCEPT !.down = down]
<1>0. h = g /\ WorldOK(h) /\ Grows(g, h) BY <1>1, SameWorldNext
<1>2. c \in Client /\ s.authenticated = "yes" /\ m.batch \in Held(g) BY DEF Inv, BusOK
<1>3. SessionOK(g, UserOf[c], s) /\ WorldOK(g) BY <1>2 DEF Inv
<1>4. BoundsOK' BY <1>1 DEF Inv, BoundsOK
<1>5. CASE Becomes(c, t)
  <2> HIDE DEF g, h
  <2>1. one \in Seq(Batches) /\ ToSet(one) \subseteq Held(g)
    <3>1. m.batch \in Batches BY <1>2, <1>3 DEF WorldOK
    <3>2. one \in Seq(Batches) /\ DOMAIN one = {1} /\ one[1] = m.batch BY <3>1
    <3> QED BY <1>2, <3>2 DEF ToSet
  <2>2. s \in SessionState /\ s.down \in Seq(DownMessage) /\ s.socket # "none"
    BY <1>2, <1>3 DEF SessionOK, SessionState, SocketOK
  <2> HIDE DEF one, s
  <2>3. e \in DownMessage /\ e.batches = one /\ e.type = "event" /\ e.next = 0
    BY <2>1 DEF Message, DownMessage
  <2> HIDE DEF e
  <2>4. DownOK(g, s, e)
    <3>1. Len(g.log) \in Nat BY <1>3 DEF WorldOK
    <3> QED BY <2>1, <2>3, <3>1 DEF DownOK
  <2>5. down \in Seq(DownMessage) /\ down = Append(s.down, e) BY <2>2, <2>3
  <2> HIDE DEF down
  <2>6. /\ t \in SessionState /\ t.known = s.known /\ t.cursor = s.cursor /\ t.pending = s.pending
        /\ t.inFlight = s.inFlight /\ t.up = s.up /\ t.down = down /\ t.saves = s.saves
        /\ t.http = s.http /\ t.carried = s.carried /\ t.status = s.status
        /\ t.authenticated = s.authenticated /\ t.synced = s.synced /\ t.socket = s.socket
    BY <2>2, <2>5 DEF SessionState
  <2> HIDE DEF t
  <2>7. SessionOK(h, UserOf[c], t)
    BY <1>0, <1>3, <2>2, <2>3, <2>4, <2>5, <2>6, GiveOK
  <2>8. Honest(s, t) BY <2>6 DEF Honest
  <2> HIDE DEF c
  <2> QED BY <1>0, <1>1, <1>2, <1>4, <1>5, <2>6, <2>7, <2>8, InvMove DEF g, h, s
<1>6. CASE UNCHANGED session
  <2> QED BY <1>0, <1>1, <1>4, <1>6 DEF Inv, OrphansOK, BusOK, HonestStep, Honest
<1> QED BY <1>1, <1>5, <1>6
\* Each kind of message, after what it does to local storage.
LEMMA InvReceive == ASSUME Inv, NEW c \in Client, Receive(c) PROVE Inv' /\ HonestStep
<1> DEFINE g == World
           h == World'
           u == UserOf[c]
           x == session[c]
           m == Head(x.down)
           s == [x EXCEPT !.down = Tail(@)]
           ids == ToSet(m.batches)
           closed == Disconnected(s)
           refused == [closed EXCEPT !.fatal = m.flag]
<1>1. SessionOK(g, u, x) /\ WorldOK(g) /\ u \in User /\ x.down # <<>>
  BY ClientAssumption DEF Inv, Receive
<1>2. BoundsOK' BY DEF Inv, BoundsOK, Receive, bounds
<1>3. m \in DownMessage /\ DownOK(g, x, m) /\ x.socket # "none"
  <2>1. x.down \in Seq(DownMessage) BY <1>1 DEF SessionOK, SessionState
  <2>2. 1 \in DOMAIN x.down /\ m = x.down[1] /\ m \in DownMessage BY <1>1, <2>1
  <2> HIDE DEF g, m, x
  <2> QED BY <1>1, <2>2 DEF SessionOK, SocketOK
<1>4. ids \in SUBSET Held(g) /\ m.type \in {"ready", "page", "event", "ack", "error"}
  BY <1>3 DEF DownOK, DownMessage
<1>5. /\ Becomes(c, CASE m.type = "ready" -> ReceiveReady(s)
                      [] m.type = "page" -> ReceivePage(s, m)
                      [] m.type = "event" -> Apply(s, m.batches)
                      [] m.type = "ack" -> ReceiveAck(s, m)
                      [] m.type = "error" -> refused)
      /\ stored' = IF m.type = "ack" THEN Forget(c, ids) ELSE stored
      /\ IF m.type = "error" THEN CutOff(c) ELSE UNCHANGED <<orphans, bus>>
      /\ UNCHANGED <<edits, parents, unsaved, log>>
  BY DEF Receive
<1>6. WorldOK(h) /\ Grows(g, h) /\ Held(h) = Held(g) /\ (m.type # "ack" => h = g)
  <2>1. CASE m.type = "ack" BY <1>4, <1>5, <2>1, ForgetGrows
  <2>2. CASE m.type # "ack" BY <1>5, <2>2, SameWorldNext
  <2> QED BY <2>1, <2>2
<1> HIDE DEF g, h, m, x, ids
<1>7. SessionOK(h, u, x) BY <1>1, <1>6, SessionGrows
<1>8. Moves(h, u, x, s) /\ s.status = x.status /\ s.socket # "none" /\ DownOK(h, s, m)
  <2>1. /\ Moves(h, u, x, s) /\ s.status = x.status
        /\ s.synced = x.synced /\ s.socket = x.socket /\ s.cursor = x.cursor
        /\ s.known = x.known /\ s.pending = x.pending
    BY <1>1, <1>6, <1>7, TailOK
  <2> HIDE DEF s
  <2>2. DownOK(h, s, m)
    <3>1. Len(g.log) \in Nat /\ Len(h.log) \in Nat /\ Len(g.log) <= Len(h.log)
          /\ m.next \in Nat /\ \A i \in 1 .. Len(g.log) : h.log[i] = g.log[i]
      BY <1>1, <1>3, <1>6 DEF WorldOK, Grows, DownMessage
    <3>2. \A i \in 1 .. m.next : h.log[i] = g.log[i] BY <1>3, <3>1 DEF DownOK
    <3> QED BY <1>3, <1>6, <2>1, <3>1, <3>2 DEF DownOK, Moves
  <2> QED BY <1>3, <2>1, <2>2
<1> HIDE DEF s
<1>9. SessionOK(h, u, s) BY <1>8 DEF Moves
<1>10. m.type = "ready" => Moves(h, u, s, ReceiveReady(s)) BY <1>6, <1>9, ReceiveReadyOK
<1>11. m.type = "page" => Moves(h, u, s, ReceivePage(s, m))
  BY <1>3, <1>6, <1>8, <1>9, ReceivePageOK
<1>12. Moves(h, u, s, Apply(s, m.batches)) BY <1>4, <1>6, <1>9, ApplyOK DEF ids
<1>13. Moves(h, u, s, ReceiveAck(s, m)) BY <1>4, <1>6, <1>9, ReceiveAckOK DEF ids
<1>14. CASE m.type # "error"
  <2>1. PICK t : Becomes(c, t) /\ Moves(h, u, s, t)
    BY <1>4, <1>5, <1>10, <1>11, <1>12, <1>13, <1>14
  <2>2. SessionOK(h, u, t) /\ Honest(x, t) /\ t.authenticated = x.authenticated
    BY <1>8, <2>1 DEF Moves, Honest
  <2> QED BY <1>2, <1>5, <1>6, <1>14, <2>1, <2>2, InvMove DEF g, h, x
<1>15. CASE m.type = "error"
  <2>1. Becomes(c, refused) /\ CutOff(c) BY <1>5, <1>15
  <2>2. SessionOK(h, u, closed) /\ closed.status = s.status BY <1>9, DisconnectedOK
  <2>3. m.flag \in BOOLEAN BY <1>3 DEF DownMessage
  <2> HIDE DEF closed
  <2>4. Same(closed, refused) /\ refused.status = closed.status
    BY <2>2, <2>3 DEF SessionOK, SessionState, Same, Idle, SamePlace
  <2> HIDE DEF refused
  <2>5. SessionOK(h, u, refused) /\ Honest(x, refused)
    BY <1>8, <2>2, <2>4, SameOK DEF Honest
  <2> QED BY <1>2, <1>6, <1>15, <2>1, <2>5, CutOffOK, InvMove DEF g, h, x
<1> QED BY <1>14, <1>15

-----------------------------------------------------------------------------
(* The invariant holds.                                                    *)

LEMMA InvInit == Init => Inv
<1> SUFFICES ASSUME Init PROVE Inv OBVIOUS
<1> DEFINE none == <<>>
<1>1. none \in Seq(Batches) /\ ToSet(none) = {} /\ IsInjective(none) /\ Len(none) = 0
  BY EmptyWrite DEF IsInjective
<1>2. Made = {}
  <2>1. \A x \in Batches : x[1] \in Client /\ x[2] \in Nat /\ x[2] > 0
    BY BudgetAssumption DEF Batches
  <2> QED BY <2>1 DEF Init, Made
<1>3. parents \in [Batches -> SUBSET Batches] BY DEF Init
<1>4. stored \in [User -> Seq(Batches)] /\ \A u \in User : stored[u] = none BY DEF Init
<1>5. log = none /\ unsaved = {} BY DEF Init
<1> HIDE DEF none
<1>6. \A g : WriteOK(g, none) BY EmptyWrite DEF none
<1>7. WorldOK(World) BY <1>1, <1>2, <1>3, <1>4, <1>5, <1>6 DEF WorldOK, World, Held
<1>8. \A c \in Client : UserOf[c] \in User BY ClientAssumption
<1>9. ASSUME NEW c \in Client PROVE SessionOK(World, UserOf[c], session[c])
  <2>1. session[c] = NewSession BY DEF Init
  <2> QED BY <1>7, <1>8, <2>1, NewSessionOK
<1>10. session \in [Client -> SessionState]
  <2>1. session = [c \in Client |-> NewSession] BY DEF Init
  <2>2. NewSession \in SessionState BY DEF NewSession, SessionState
  <2> HIDE DEF NewSession
  <2> QED BY <2>1, <2>2
<1>11. BoundsOK
  <2>1. budget \in Budgets /\ budget.edits \in [Client -> Nat] BY BudgetAssumption DEF Init
  <2> QED BY <2>1 DEF Init, BoundsOK
<1> QED BY <1>7, <1>9, <1>10, <1>11 DEF Inv, Init, OrphansOK, BusOK

LEMMA InvNext == Inv /\ [Next]_vars => Inv' /\ (HonestStep \/ UNCHANGED vars)
<1> SUFFICES ASSUME Inv, [Next]_vars PROVE Inv' /\ (HonestStep \/ UNCHANGED vars) OBVIOUS
<1>1. ASSUME NEW c \in Client, NEW transport \in Transports, SetShared(c, transport)
      PROVE  Inv' /\ HonestStep
  BY <1>1, InvSetShared
<1>2. ASSUME NEW c \in Client, SessionStep(c) PROVE Inv' /\ HonestStep
  BY <1>2, InvLoadHistory, InvConnect, InvSave, InvHttpAnswered, InvReceive DEF SessionStep
<1>3. ASSUME NEW c \in Client, ServerStep(c) PROVE Inv' /\ HonestStep
  BY <1>3, InvServeHttp, InvServeAuth, InvServeEvent, InvServeRepair DEF ServerStep
<1>4. ASSUME NEW c \in Client, LocalEdit(c) \/ SaveNow(c) \/ Disconnect(c) \/ Reload(c)
      PROVE  Inv' /\ HonestStep
  BY <1>4, InvLocalEdit, InvSave, InvDisconnect, InvReload
<1>5. CASE UNCHANGED vars
  BY <1>5 DEF vars, bounds, Inv, World, Made, BoundsOK, OrphansOK, BusOK
<1> QED BY <1>1, <1>2, <1>3, <1>4, <1>5, InvServeOrphan, InvDeliver DEF Next

LEMMA InvAlways == Spec => []Inv
BY InvInit, InvNext, PTL DEF Spec
-----------------------------------------------------------------------------
(* What follows from it.                                                   *)

\* The sessions, local storage, the log and the bus stay well formed, whatever
\* is lost, reloaded or refused: a queue holds a batch once, a cursor is never
\* ahead of the log, and only durable batches are published.
THEOREM TypeCorrect == Spec => []TypeOK
<1>1. ASSUME Inv PROVE TypeOK
  <2>1. ASSUME NEW c \in Client
        PROVE  LET s == session[c]
               IN  /\ s.transport \in {"none", "http", "ws"}
                   /\ s.socket \in {"none", "open", "ready"}
                   /\ ToSet(s.pending) \cup s.inFlight \cup s.known \subseteq Made
                   /\ IsInjective(s.pending)
                   /\ s.cursor <= Len(log)
                   /\ s.socket = "none" => s.up = <<>> /\ s.down = <<>> /\ s.inFlight = {}
    <3> DEFINE s == session[c]
    <3>1. SessionOK(World, UserOf[c], s) /\ World.made = Made /\ World.log = log
      BY <1>1 DEF Inv, World
    <3> HIDE DEF s
    <3>2. s.transport \in {"none", "http", "ws"} /\ s.socket \in {"none", "open", "ready"}
      BY <3>1 DEF SessionOK, SessionState
    <3>3. /\ ToSet(s.pending) \cup s.inFlight \cup s.known \subseteq Made
          /\ IsInjective(s.pending) /\ s.cursor <= Len(log)
      BY <3>1 DEF SessionOK, QueueOK, CursorOK, WriteOK
    <3>4. s.socket = "none" => s.up = <<>> /\ s.down = <<>> /\ s.inFlight = {}
      BY <3>1 DEF SessionOK, SocketOK
    <3> QED BY <3>2, <3>3, <3>4 DEF s
  <2>2. \A u \in User : ToSet(stored[u]) \subseteq Made
    BY <1>1 DEF Inv, WorldOK, World, WriteOK
  <2>3. IsInjective(log) BY <1>1 DEF Inv, WorldOK, World
  <2>4. bus \subseteq [to : {c \in Client : session[c].authenticated = "yes"}, batch : Durable]
    BY <1>1 DEF Inv, BusOK, Held, World, Durable
  <2> QED BY <2>1, <2>2, <2>3, <2>4 DEF TypeOK
<1> QED BY <1>1, InvAlways, PTL

\* acknowledgePendingBatches forgets only what the server has stored, on what is
\* stored by now, so an edit that reached local storage is there or durable,
\* whichever tab sent it and whatever was lost or reloaded.
THEOREM EditsAreKept == Spec => []NoEditLost
<1>1. ASSUME Inv PROVE NoEditLost
  BY <1>1 DEF Inv, WorldOK, World, Held, NoEditLost, Durable
<1> QED BY <1>1, InvAlways, PTL

\* No write to local storage threw.
StorageWorks == unsaved = {}

\* persistHttp and the socket send the pending batches in the order they were
\* made or restored, so the server never refuses one for its parents.
THEOREM ParentsComeFirst == Spec /\ []StorageWorks => []NoMissingParents
<1>1. ASSUME Inv, StorageWorks PROVE NoMissingParents
  <2>1. ASSUME NEW q, WriteOK(World, q) PROVE Acceptable(q)
    BY <1>1, <2>1 DEF WriteOK, Ordered, StorageWorks, Acceptable, World, Held
  <2> SUFFICES ASSUME NEW c \in Client
               PROVE  /\ session[c].up # <<>> => Acceptable(Head(session[c].up).batches)
                      /\ session[c].http = "sent" => Acceptable(session[c].carried)
    BY DEF NoMissingParents
  <2> DEFINE s == session[c]
  <2>2. SessionOK(World, UserOf[c], s) BY <1>1 DEF Inv
  <2> HIDE DEF s
  <2>3. ASSUME s.up # <<>> PROVE Acceptable(Head(s.up).batches)
    <3>1. s.up \in Seq(UpMessage) BY <2>2 DEF SessionOK, SessionState
    <3>2. 1 \in DOMAIN s.up /\ Head(s.up) = s.up[1] BY <2>3, <3>1
    <3>3. WriteOK(World, s.up[1].batches) BY <2>2, <3>2 DEF SessionOK, SocketOK, UpOK
    <3> QED BY <2>1, <3>2, <3>3
  <2>4. s.http = "sent" => Acceptable(s.carried) BY <2>1, <2>2 DEF SessionOK, HttpOK
  <2> QED BY <2>3, <2>4 DEF s
<1> QED BY <1>1, InvAlways, PTL

\* The status becomes "saved" only with an empty queue, and what is not in the
\* queue of a session that shows it is durable: an edit made while a save runs
\* keeps the status from flipping.
THEOREM SavedMeansDurable == Spec /\ []StorageWorks => SavedIsDurable
<1> DEFINE A == \A c \in Client :
                  session[c].status # "saved" /\ session'[c].status = "saved" =>
                    session'[c].known \subseteq ToSet(log')
<1>1. ASSUME Inv, Inv', StorageWorks', HonestStep \/ UNCHANGED vars PROVE A \/ UNCHANGED vars
  <2> SUFFICES ASSUME HonestStep, NEW c \in Client, session[c].status # "saved",
                      session'[c].status = "saved"
               PROVE  session'[c].known \subseteq ToSet(log')
    BY <1>1
  <2> DEFINE t == session'[c]
  <2>1. SessionOK(World', UserOf[c], t) BY <1>1 DEF Inv
  <2>2. t.pending = <<>> BY DEF HonestStep, Honest
  <2>3. World'.unsaved = {} /\ Held(World') = ToSet(log')
    BY <1>1 DEF World, Held, StorageWorks
  <2> HIDE DEF t
  <2>4. ToSet(t.pending) = {} BY <2>2, EmptyWrite
  <2>5. t.known \subseteq ToSet(log') BY <2>1, <2>3, <2>4 DEF SessionOK, QueueOK
  <2> QED BY <2>5 DEF t
<1>2. SavedIsDurable <=> [][A]_vars BY PTL DEF SavedIsDurable
<1>3. Inv /\ StorageWorks' /\ [Next]_vars => Inv' /\ [A]_vars BY <1>1, InvNext
<1> HIDE DEF A
<1> QED BY <1>2, <1>3, InvInit, PTL DEF Spec
-----------------------------------------------------------------------------
(* What a synced session sees.                                             *)

\* The session is synced, or the last page of the history is on its way.
Told(s) ==
  s.synced \/ \E i \in DOMAIN s.down : s.down[i].type = "page" /\ s.down[i].flag

\* The session knows of a batch, or will.
Coming(s, b) == b \in s.known \/ \E i \in DOMAIN s.down : b \in ToSet(s.down[i].batches)

ReadyIsPlain(s) ==
  \A i \in DOMAIN s.down : s.down[i].type = "ready" => ToSet(s.down[i].batches) = {}

Sees(c) ==
  /\ ReadyIsPlain(session[c])
  /\ Told(session[c]) =>
       \A b \in Durable : b \in missed \/ [to |-> c, batch |-> b] \in bus \/ Coming(session[c], b)

AllSee == \A c \in Client : Sees(c)

\* From s the session may become t: it loses nothing of what is coming.
Hears(s, t) ==
  /\ ReadyIsPlain(s) => ReadyIsPlain(t)
  /\ Told(t) => Told(s) /\ \A b : Coming(s, b) => Coming(t, b)

LEMMA HearsMore ==
  ASSUME NEW s, NEW t, s.known \subseteq t.known, t.down = s.down, t.synced = s.synced
  PROVE  Hears(s, t)
BY DEF Hears, ReadyIsPlain, Told, Coming

LEMMA HearsSame == ASSUME NEW s, NEW t, SamePlace(s, t) PROVE Hears(s, t)
BY HearsMore DEF SamePlace

LEMMA HearsNothing ==
  ASSUME NEW s, NEW t, DOMAIN t.down = {}, t.synced = FALSE PROVE Hears(s, t) /\ ~Told(t)
BY DEF Hears, ReadyIsPlain, Told, Coming

LEMMA HearsThen == ASSUME NEW s, NEW t, NEW v, Hears(s, t), Hears(t, v) PROVE Hears(s, v)
BY DEF Hears

\* Whoever is told is authenticated, so what the room stores is announced to it.
LEMMA ToldIsAuthenticated ==
  ASSUME Inv, NEW c \in Client, Told(session[c]) PROVE session[c].authenticated = "yes"
<1> DEFINE s == session[c]
<1>1. SocketOK(World, s) BY DEF Inv, SessionOK
<1> HIDE DEF s
<1> QED BY <1>1 DEF SocketOK, DownOK, Told, s

\* What each step has to show: what gets durable is announced or counted as
\* missed, and what was announced arrives or is missed.
LEMMA SeesStep ==
  ASSUME Inv, AllSee, NEW c \in Client, NEW t, Becomes(c, t), Hears(session[c], t),
         missed \subseteq missed',
         \A b \in Durable' \ Durable :
           \/ b \in missed'
           \/ \A d \in Client : session[d].authenticated = "yes" => [to |-> d, batch |-> b] \in bus',
         \A m \in bus \ bus' :
           m.batch \in missed' \/ (m.to = c /\ (Told(t) => Coming(t, m.batch)))
  PROVE  AllSee'
<1>1. /\ session'[c] = t
      /\ \A d \in Client \ {c} : session'[d] = session[d]
  BY DEF Becomes, Inv
<1> SUFFICES ASSUME NEW d \in Client PROVE Sees(d)' BY DEF AllSee
<1>2. ASSUME NEW s, NEW v, s = session[d], v = session'[d], Hears(s, v), Told(v), NEW b \in Durable',
             v = s \/ (d = c /\ v = t)
      PROVE  b \in missed' \/ [to |-> d, batch |-> b] \in bus' \/ Coming(v, b)
  <2>1. Told(s) /\ s.authenticated = "yes" BY <1>2, ToldIsAuthenticated DEF Hears
  <2>2. CASE b \notin Durable BY <1>2, <2>1, <2>2
  <2>3. CASE b \in Durable
    <3>1. b \in missed \/ [to |-> d, batch |-> b] \in bus \/ Coming(s, b)
      BY <1>2, <2>1, <2>3 DEF AllSee, Sees
    <3>2. CASE [to |-> d, batch |-> b] \in bus \ bus'
      <4> DEFINE m == [to |-> d, batch |-> b]
      <4>1. m.to = d /\ m.batch = b OBVIOUS
      <4>2. m.batch \in missed' \/ (m.to = c /\ (Told(t) => Coming(t, m.batch))) BY <3>2
      <4> HIDE DEF m
      <4> QED BY <1>1, <1>2, <4>1, <4>2
    <3> QED BY <1>2, <3>1, <3>2 DEF Hears
  <2> QED BY <2>2, <2>3
<1>3. Hears(session[d], session'[d])
  BY <1>1 DEF Hears
<1>4. session'[d] = session[d] \/ (d = c /\ session'[d] = t) BY <1>1
<1>5. ReadyIsPlain(session'[d]) BY <1>3 DEF AllSee, Sees, Hears
<1>6. ASSUME Told(session'[d]), NEW b \in Durable'
      PROVE b \in missed' \/ [to |-> d, batch |-> b] \in bus' \/ Coming(session'[d], b)
  BY <1>2, <1>3, <1>4, <1>6
<1> QED BY <1>5, <1>6 DEF Sees
LEMMA SeesQuietly ==
  ASSUME Inv, AllSee, NEW c \in Client, NEW t, Becomes(c, t), Hears(session[c], t),
         UNCHANGED <<log, missed>>, UNCHANGED bus \/ (CutOff(c) /\ ~Told(t))
  PROVE  AllSee'
<1>1. \A b \in Durable' : b \in Durable BY DEF Durable
<1>2. \A m \in bus \ bus' : m.to = c /\ ~Told(t) BY DEF CutOff
<1> QED BY <1>1, <1>2, SeesStep

\* The queue and the save coordinator leave the conversation alone.
LEMMA FlushPlace ==
  ASSUME NEW s \in SessionState, NEW status
  PROVE  SamePlace(s, Flush(s)) /\ SamePlace(Flush(s), [Flush(s) EXCEPT !.status = status])
<1> DEFINE f == [s EXCEPT !.inFlight = ToSet(Chunk(s)),
                   !.up = Append(@, [type |-> "event", batches |-> Chunk(s), after |-> 0])]
<1>1. Flush(s) = s \/ Flush(s) = f BY DEF Flush
<1>2. SamePlace(s, s) /\ SamePlace(s, [s EXCEPT !.status = status]) BY DEF SamePlace, SessionState
<1>3. SamePlace(s, f) /\ SamePlace(f, [f EXCEPT !.status = status]) BY DEF SamePlace, SessionState
<1> HIDE DEF f
<1> QED BY <1>1, <1>2, <1>3

LEMMA AcknowledgePlace ==
  ASSUME NEW s \in SessionState, NEW ids, NEW status
  PROVE  LET a == Acknowledge(s, ids)
         IN  SamePlace(s, a) /\ SamePlace(a, [a EXCEPT !.status = status])
<1> DEFINE rest == Without(s.pending, ids)
           left == s.inFlight \ ids
           t == [s EXCEPT !.pending = rest, !.inFlight = left]
<1>1. Acknowledge(s, ids) = Flush(t) BY DEF Acknowledge
<1>2. rest \in Seq(Batches) /\ left \in SUBSET Batches
  <2>1. s.pending \in Seq(Batches) /\ s.inFlight \in SUBSET Batches BY DEF SessionState
  <2> QED BY <2>1, WithoutSet
<1> HIDE DEF rest, left
<1>3. t \in SessionState /\ SamePlace(s, t) BY <1>2 DEF SessionState, SamePlace
<1> HIDE DEF t
<1>4. SamePlace(t, Flush(t)) /\ SamePlace(Flush(t), [Flush(t) EXCEPT !.status = status])
  BY <1>3, FlushPlace
<1> QED BY <1>1, <1>3, <1>4 DEF SamePlace

LEMMA PublishPlace == ASSUME NEW s \in SessionState PROVE SamePlace(s, Publish(s))
<1>1. SamePlace(s, Flush(s)) BY FlushPlace
<1>2. SamePlace(Flush(s), [Flush(s) EXCEPT !.status = "saving"]) BY FlushPlace
<1>3. Publish(s) \in {s, Flush(s), [Flush(s) EXCEPT !.status = "saving"]} BY DEF Publish
<1> QED BY <1>1, <1>2, <1>3 DEF SamePlace

LEMMA RestoredHears ==
  ASSUME NEW c \in Client, NEW s \in SessionState
  PROVE  LET t == Restored(c, s)
         IN  s.known \subseteq t.known /\ t.down = s.down /\ t.synced = s.synced
BY DEF Restored, SessionState

\* The steps of a session that only queue, connect, save or edit.
LEMMA SeesLocally ==
  ASSUME Inv, AllSee, NEW c \in Client,
         \/ \E transport \in Transports : SetShared(c, transport)
         \/ LoadHistory(c) \/ Connect(c) \/ Disconnect(c) \/ LocalEdit(c) \/ Reload(c)
         \/ SaveTimer(c) \/ SaveNow(c) \/ HttpAnswered(c)
  PROVE  AllSee'
<1> DEFINE g == World
           u == UserOf[c]
           s == session[c]
<1>1. SessionOK(g, u, s) /\ WorldOK(g) /\ s \in SessionState BY DEF Inv, SessionOK
<1> HIDE DEF g
<1>2. ASSUME NEW v, SessionOK(g, u, v), NEW kind \in {"save", "share"}
      PROVE  SamePlace(v, RequestSave(v, kind))
  BY <1>2, RequestSaveOK DEF Works
<1>3. ASSUME NEW transport \in Transports, SetShared(c, transport) PROVE AllSee'
  <2> DEFINE v == [s EXCEPT !.saveTimer = FALSE]
             d == [Disconnected(s) EXCEPT !.transport = "http", !.loading = TRUE,
                                          !.status = "saving"]
  <2>1. \/ Becomes(c, StartWs(s)) /\ UNCHANGED bus
        \/ Becomes(c, RequestSave(v, "share")) /\ UNCHANGED bus
        \/ Becomes(c, d) /\ CutOff(c)
    BY <1>1, <1>3, ClientAssumption DEF SetShared, SessionState
  <2>2. UNCHANGED <<log, missed>> BY <1>3 DEF SetShared
  <2>3. Hears(s, StartWs(s)) BY <1>1, StartWsOK, HearsSame DEF Works
  <2>4. Hears(s, RequestSave(v, "share"))
    <3>1. Same(s, v) BY <1>1 DEF SessionState, Same, Idle, SamePlace
    <3> HIDE DEF v
    <3>2. SessionOK(g, u, v) BY <1>1, <3>1, SameOK
    <3>3. SamePlace(s, RequestSave(v, "share"))
      BY <3>1, <3>2, <1>2 DEF Same, Idle, SamePlace
    <3> QED BY <3>3, HearsSame
  <2>5. Hears(s, d) /\ ~Told(d)
    <3>1. DOMAIN d.down = {} /\ d.synced = FALSE BY <1>1 DEF Disconnected, SessionState
    <3> HIDE DEF d
    <3> QED BY <3>1, HearsNothing
  <2> HIDE DEF v, d
  <2> QED BY <2>1, <2>2, <2>3, <2>4, <2>5, SeesQuietly
<1>4. ASSUME LoadHistory(c) PROVE AllSee'
  <2> DEFINE r == Restored(c, s)
             v == [r EXCEPT !.loading = FALSE, !.shown = TRUE]
             read == [v EXCEPT !.known = @ \cup ToSet(log)]
             saved == [v EXCEPT !.known = @ \cup ToSet(log), !.status = "saved"]
             failed == [v EXCEPT !.status = "error"]
  <2>1. Becomes(c, saved) \/ Becomes(c, RequestSave(read, "save")) \/ Becomes(c, failed)
    BY <1>4 DEF LoadHistory
  <2>2. SessionOK(g, u, r) /\ r \in SessionState BY <1>1, RestoredOK DEF g, SessionOK
  <2>3. s.known \subseteq r.known /\ r.down = s.down /\ r.synced = s.synced
    BY <1>1, RestoredHears
  <2> HIDE DEF r
  <2>4. Same(r, v) BY <2>2 DEF SessionState, Same, Idle, SamePlace
  <2>5. SessionOK(g, u, v) /\ v \in SessionState BY <2>2, <2>4, SameOK DEF SessionOK
  <2> HIDE DEF v
  <2>6. SessionOK(g, u, read)
    <3>1. ToSet(log) = Held(g) BY DEF Held, World, g
    <3>2. read = Apply(v, log) BY DEF Apply
    <3>3. SessionOK(g, u, Apply(v, log)) BY <1>1, <2>5, <3>1, ApplyOK DEF Moves
    <3> QED BY <3>2, <3>3
  <2>7. /\ v.known \subseteq read.known /\ read.down = v.down /\ read.synced = v.synced
        /\ v.known \subseteq saved.known /\ saved.down = v.down /\ saved.synced = v.synced
        /\ failed.known = v.known /\ failed.down = v.down /\ failed.synced = v.synced
    BY <2>5 DEF SessionState
  <2> HIDE DEF read, saved, failed
  <2>8. SamePlace(read, RequestSave(read, "save")) BY <1>2, <2>6
  <2>9. Hears(s, saved) /\ Hears(s, failed) /\ Hears(s, RequestSave(read, "save"))
    BY <2>3, <2>4, <2>7, <2>8, HearsMore DEF Same, Idle, SamePlace
  <2> QED BY <1>4, <2>1, <2>9, SeesQuietly DEF LoadHistory
<1>5. ASSUME Connect(c) PROVE AllSee'
  <2> DEFINE r == Restored(c, s)
             t == [r EXCEPT !.socket = "open",
                     !.up = <<[type |-> "auth", batches |-> <<>>, after |-> 0]>>]
  <2>1. Becomes(c, t) /\ UNCHANGED <<log, missed, bus>> BY <1>5 DEF Connect
  <2>2. r \in SessionState BY <1>1, RestoredOK DEF g, SessionOK
  <2>3. s.known \subseteq r.known /\ r.down = s.down /\ r.synced = s.synced
    BY <1>1, RestoredHears
  <2> HIDE DEF r
  <2>4. t.known = r.known /\ t.down = r.down /\ t.synced = r.synced BY <2>2 DEF SessionState
  <2> HIDE DEF t
  <2> QED BY <2>1, <2>3, <2>4, HearsMore, SeesQuietly
<1>6. ASSUME Disconnect(c) \/ Reload(c) PROVE AllSee'
  <2> DEFINE d == Disconnected(s)
  <2>1. UNCHANGED <<log, missed>> BY <1>6 DEF Disconnect, Reload
  <2>2. DOMAIN d.down = {} /\ d.synced = FALSE BY <1>1 DEF Disconnected, SessionState
  <2>3. DOMAIN NewSession.down = {} /\ NewSession.synced = FALSE BY DEF NewSession
  <2> HIDE DEF d
  <2>4. Hears(s, d) /\ ~Told(d) BY <2>2, HearsNothing
  <2>5. Hears(s, NewSession) /\ ~Told(NewSession) BY <2>3, HearsNothing
  <2>6. CASE Disconnect(c)
    BY <2>1, <2>4, <2>6, SeesQuietly DEF Disconnect, d
  <2>7. CASE Reload(c)
    <3>1. Becomes(c, NewSession) /\ \A m \in bus \ bus' : m.to = c BY <2>7 DEF Reload
    <3>2. \A b \in Durable' : b \in Durable BY <2>1 DEF Durable
    <3> QED BY <2>1, <2>5, <3>1, <3>2, SeesStep
  <2> QED BY <1>6, <2>6, <2>7
<1>7. ASSUME LocalEdit(c) PROVE AllSee'
  <2> DEFINE b == <<c, edits'[c]>>
             noted == [s EXCEPT !.known = @ \cup {b}]
             queued == [noted EXCEPT !.pending = Append(@, b)]
             armed == [queued EXCEPT !.saveTimer = @ \/ ~noted.failed]
             failed == [noted EXCEPT !.failed = TRUE, !.status = "error"]
  <2>1. /\ Becomes(c, Publish(queued)) \/ Becomes(c, armed) \/ Becomes(c, failed)
        /\ UNCHANGED <<log, missed, bus>>
    BY <1>7 DEF LocalEdit
  <2>6. edits[c] < budget.edits[c] /\ edits' = [edits EXCEPT ![c] = @ + 1] BY <1>7 DEF LocalEdit
  <2>2. b \in Batches BY <2>6, FreshBatch
  <2> HIDE DEF b
  <2>3. queued \in SessionState
    <3>1. s.known \cup {b} \in SUBSET Batches /\ Append(s.pending, b) \in Seq(Batches)
      BY <1>1, <2>2 DEF SessionState
    <3> DEFINE known == s.known \cup {b}
               pending == Append(s.pending, b)
    <3>2. queued = [s EXCEPT !.known = known, !.pending = pending] BY <1>1 DEF SessionState
    <3> HIDE DEF known, pending, queued
    <3> QED BY <1>1, <3>1, <3>2 DEF SessionState, known, pending
  <2>4. /\ s.known \subseteq queued.known /\ queued.down = s.down /\ queued.synced = s.synced
        /\ s.known \subseteq armed.known /\ armed.down = s.down /\ armed.synced = s.synced
        /\ s.known \subseteq failed.known /\ failed.down = s.down /\ failed.synced = s.synced
    BY <1>1 DEF SessionState
  <2> HIDE DEF queued, armed, failed
  <2>5. Hears(s, Publish(queued)) /\ Hears(s, armed) /\ Hears(s, failed)
    BY <2>3, <2>4, PublishPlace, HearsMore DEF SamePlace
  <2> QED BY <2>1, <2>5, SeesQuietly
<1>8. ASSUME SaveTimer(c) \/ SaveNow(c) PROVE AllSee'
  <2> DEFINE v == [s EXCEPT !.saveTimer = FALSE]
  <2>1. Becomes(c, RequestSave(v, "save")) \/ Becomes(c, Publish(v))
    BY <1>8 DEF SaveTimer, SaveNow
  <2>2. UNCHANGED <<log, missed, bus>> BY <1>8 DEF SaveTimer, SaveNow
  <2>3. Same(s, v) BY <1>1 DEF SessionState, Same, Idle, SamePlace
  <2> HIDE DEF v
  <2>4. SessionOK(g, u, v) /\ v \in SessionState BY <1>1, <2>3, SameOK DEF SessionOK
  <2>5. SamePlace(s, RequestSave(v, "save")) /\ SamePlace(s, Publish(v))
    BY <1>2, <2>3, <2>4, PublishPlace DEF Same, Idle, SamePlace
  <2> QED BY <2>1, <2>2, <2>5, HearsSame, SeesQuietly
<1>9. ASSUME HttpAnswered(c) PROVE AllSee'
  <2> DEFINE ids == ToSet(s.carried)
             a == Acknowledge(s, ids)
  <2>1. UNCHANGED <<log, missed, bus>> BY <1>9 DEF HttpAnswered
  <2>2. \/ /\ s.http = "done"
           /\ Becomes(c, IF a.pending = <<>> THEN EndSave(a, "saved") ELSE SendHttp(a))
        \/ s.http = "failed" /\ Becomes(c, EndSave(s, "error"))
    BY <1>9 DEF HttpAnswered
  <2>3. CASE /\ s.http = "done"
             /\ Becomes(c, IF a.pending = <<>> THEN EndSave(a, "saved") ELSE SendHttp(a))
    <3>1. ids \in SUBSET Held(g) /\ s.saves # <<>> BY <1>1, <2>3 DEF SessionOK, HttpOK
    <3> HIDE DEF ids
    <3>2. SessionOK(g, u, a) /\ SamePlace(s, a) /\ a.saves = s.saves /\ a.http = s.http
      BY <1>1, <3>1, AcknowledgeOK
    <3> HIDE DEF a
    <3>3. a.pending = <<>> => SamePlace(a, EndSave(a, "saved"))
      BY <2>3, <3>2, EndSaveOK DEF Works
    <3>4. SamePlace(a, SendHttp(a)) BY <3>1, <3>2, SendHttpOK DEF Works
    <3>5. PICK t : Becomes(c, t) /\ SamePlace(a, t) BY <2>3, <3>3, <3>4
    <3>6. SamePlace(s, t) BY <3>2, <3>5 DEF SamePlace
    <3> QED BY <2>1, <3>5, <3>6, HearsSame, SeesQuietly
  <2>4. CASE s.http = "failed" /\ Becomes(c, EndSave(s, "error"))
    <3>1. SamePlace(s, EndSave(s, "error")) BY <1>1, <2>4, EndSaveOK DEF Works
    <3> QED BY <2>1, <2>4, <3>1, HearsSame, SeesQuietly
  <2> QED BY <2>2, <2>3, <2>4
<1> QED BY <1>3, <1>4, <1>5, <1>6, <1>7, <1>8, <1>9
\* A message more, and those before it.
LEMMA HearsAppend ==
  ASSUME NEW s \in SessionState, NEW t, NEW m, t.down = Append(s.down, m), t.known = s.known,
         t.synced = s.synced, m.type = "ready" => ToSet(m.batches) = {},
         ~ (m.type = "page" /\ m.flag)
  PROVE  Hears(s, t) /\ \A b \in ToSet(m.batches) : Coming(t, b)
<1>1. s.down \in Seq(DownMessage) BY DEF SessionState
<1> DEFINE down == s.down
<1> HIDE DEF down
<1>2. down \in Seq(DownMessage) /\ down = s.down BY <1>1 DEF down
<1>3. /\ \A i \in DOMAIN down : i \in DOMAIN Append(down, m) /\ Append(down, m)[i] = down[i]
      /\ \A i \in DOMAIN Append(down, m) :
            (i \in DOMAIN down /\ Append(down, m)[i] = down[i]) \/ Append(down, m)[i] = m
      /\ \E i \in DOMAIN Append(down, m) : Append(down, m)[i] = m
  <2>1. Len(down) + 1 \in DOMAIN Append(down, m) /\ Append(down, m)[Len(down) + 1] = m BY <1>2
  <2>2. \A i \in DOMAIN down : i \in DOMAIN Append(down, m) /\ Append(down, m)[i] = down[i] BY <1>2
  <2>3. \A i \in DOMAIN Append(down, m) :
            (i \in DOMAIN down /\ Append(down, m)[i] = down[i]) \/ Append(down, m)[i] = m
    BY <1>2
  <2> QED BY <2>1, <2>2, <2>3
<1> QED BY <1>2, <1>3 DEF Hears, ReadyIsPlain, Told, Coming

\* The session has handled the first message and knows what it held.
LEMMA HearsTail ==
  ASSUME NEW s \in SessionState, s.down # <<>>, NEW t, t.down = Tail(s.down), s.known \subseteq t.known,
         ReadyIsPlain(s) => ToSet(Head(s.down).batches) \subseteq t.known,
         t.synced => s.synced \/ (Head(s.down).type = "page" /\ Head(s.down).flag)
  PROVE  ReadyIsPlain(s) => Hears(s, t)
<1> DEFINE down == s.down
<1>1. down \in Seq(DownMessage) /\ down # <<>> /\ down = s.down BY DEF SessionState
<1> HIDE DEF down
<1>2. /\ Head(down) = down[1] /\ 1 \in DOMAIN down
      /\ \A i \in DOMAIN Tail(down) : i + 1 \in DOMAIN down /\ Tail(down)[i] = down[i + 1]
  BY <1>1
<1>3. \A i \in DOMAIN down : i = 1 \/ (i - 1 \in DOMAIN Tail(down) /\ Tail(down)[i - 1] = down[i])
  BY <1>1
<1>4. \A b : Coming(s, b) => b \in s.known \/ \E i \in DOMAIN down : b \in ToSet(down[i].batches)
  BY <1>1 DEF Coming
<1>5. ASSUME ReadyIsPlain(s), NEW b, Coming(s, b) PROVE Coming(t, b)
  <2>1. CASE b \in s.known BY <2>1 DEF Coming
  <2>2. CASE \E i \in DOMAIN down : b \in ToSet(down[i].batches)
    <3>1. PICK i \in DOMAIN down : b \in ToSet(down[i].batches) BY <2>2
    <3>2. CASE i = 1 BY <1>1, <1>2, <1>5, <3>1, <3>2 DEF Coming
    <3>3. CASE i # 1
      <4>1. i - 1 \in DOMAIN t.down /\ t.down[i - 1] = down[i] BY <1>1, <1>3, <3>3
      <4> QED BY <3>1, <4>1 DEF Coming
    <3> QED BY <3>2, <3>3
  <2> QED BY <1>4, <1>5, <2>1, <2>2
<1>6. ReadyIsPlain(s) => ReadyIsPlain(t) BY <1>1, <1>2 DEF ReadyIsPlain
<1>7. Told(t) => Told(s) BY <1>1, <1>2 DEF Told
<1> QED BY <1>5, <1>6, <1>7 DEF Hears

LEMMA StoreAdds ==
  ASSUME Inv, NEW chunk, WriteOK(World, chunk), Store(chunk),
         UNCHANGED <<edits, parents, unsaved, stored>>
  PROVE  Durable' \ Durable \subseteq ToSet(chunk) \ ToSet(log)
<1>1. Held(World') = Held(World) \cup ToSet(chunk) BY StoreGrows
<1>2. Held(World') = Durable' /\ Held(World) = Durable BY DEF Held, World, Durable
<1> QED BY <1>1, <1>2 DEF Durable

\* The steps of the server on a session's request or socket.
LEMMA SeesServed ==
  ASSUME Inv, AllSee, NEW c \in Client, ServerStep(c) PROVE AllSee'
<1> DEFINE s == session[c]
<1>1. SessionOK(World, UserOf[c], s) /\ s \in SessionState BY DEF Inv, SessionOK
<1>2. /\ s.up # <<>> => WriteOK(World, Head(s.up).batches)
      /\ s.http = "sent" => WriteOK(World, s.carried)
  <2> DEFINE g == World
  <2>1. SessionOK(g, UserOf[c], s) BY <1>1
  <2> HIDE DEF g, s
  <2>2. s.up \in Seq(UpMessage) BY <1>1 DEF SessionState
  <2>3. s.up # <<>> => 1 \in DOMAIN s.up /\ Head(s.up) = s.up[1] BY <2>2
  <2>4. s.up # <<>> => UpOK(g, s, Head(s.up)) BY <2>1, <2>3 DEF SessionOK, SocketOK
  <2> QED BY <2>1, <2>4 DEF SessionOK, HttpOK, UpOK, g
<1>3. CASE ServeHttp(c)
  <2> DEFINE done == [s EXCEPT !.http = "done"]
             failed == [s EXCEPT !.http = "failed"]
  <2>1. done.known = s.known /\ done.down = s.down /\ done.synced = s.synced
        /\ failed.known = s.known /\ failed.down = s.down /\ failed.synced = s.synced
    BY <1>1 DEF SessionState
  <2>2. Hears(s, done) /\ Hears(s, failed)
    <3> HIDE DEF done, failed
    <3> QED BY <2>1, HearsMore
  <2>3. CASE Store(s.carried) /\ missed' = missed \cup (ToSet(s.carried) \ ToSet(log))
             /\ Becomes(c, done)
    <3>1. UNCHANGED <<edits, parents, unsaved, stored, bus>> BY <1>3 DEF ServeHttp
    <3>2. Durable' \ Durable \subseteq missed'
      BY <1>2, <1>3, <2>3, <3>1, StoreAdds DEF ServeHttp
    <3> HIDE DEF done
    <3> QED BY <2>2, <2>3, <3>1, <3>2, SeesStep
  <2>4. CASE UNCHANGED <<log, missed>> /\ Becomes(c, failed)
    <3>1. UNCHANGED bus BY <1>3 DEF ServeHttp
    <3> HIDE DEF failed
    <3> QED BY <2>2, <2>4, <3>1, SeesQuietly
  <2> QED BY <1>3, <2>3, <2>4 DEF ServeHttp
<1>4. CASE ServeAuth(c)
  <2> DEFINE ready == Message("ready", <<>>, 0, FALSE)
             error == Message("error", <<>>, 0, TRUE)
             taken == [s EXCEPT !.up = Tail(@), !.authenticated = "pending"]
             given == [s EXCEPT !.authenticated = "yes", !.down = Append(@, ready)]
             reply == Reply(s, error)
  <2>1. Becomes(c, taken) \/ Becomes(c, given) \/ Becomes(c, reply) BY <1>4 DEF ServeAuth
  <2>2. UNCHANGED <<log, missed, bus>> BY <1>4 DEF ServeAuth
  <2>3. /\ ready.type = "ready" /\ ToSet(ready.batches) = {} /\ error.type = "error"
    BY EmptyWrite DEF Message
  <2> HIDE DEF ready, error
  <2>4. /\ taken.known = s.known /\ taken.down = s.down /\ taken.synced = s.synced
        /\ given.known = s.known /\ given.down = Append(s.down, ready) /\ given.synced = s.synced
        /\ reply.known = s.known /\ reply.down = Append(s.down, error) /\ reply.synced = s.synced
    BY <1>1 DEF SessionState, Reply
  <2> HIDE DEF taken, given, reply
  <2>5. Hears(s, taken) BY <2>4, HearsMore
  <2>6. Hears(s, given) BY <1>1, <2>3, <2>4, HearsAppend
  <2>7. Hears(s, reply) BY <1>1, <2>3, <2>4, HearsAppend
  <2> QED BY <2>1, <2>2, <2>5, <2>6, <2>7, SeesQuietly
<1>5. CASE ServeEvent(c)
  <2> DEFINE chunk == Head(s.up).batches
  <2>1. PICK m : /\ Becomes(c, Reply(s, m)) /\ m.type \in {"ack", "error"}
                 /\ \/ Store(chunk) /\ Announce(chunk)
                    \/ UNCHANGED <<log, bus>>
    <3>1. \/ Store(chunk) /\ Announce(chunk) /\ Becomes(c, Reply(s, Message("ack", chunk, 0, FALSE)))
          \/ UNCHANGED <<log, bus>> /\ Becomes(c, Reply(s, Message("error", <<>>, 0, TRUE)))
          \/ UNCHANGED <<log, bus>> /\ Becomes(c, Reply(s, Message("error", <<>>, 0, FALSE)))
      BY <1>5 DEF ServeEvent
    <3>2. /\ Message("ack", chunk, 0, FALSE).type = "ack"
          /\ \A f : Message("error", <<>>, 0, f).type = "error"
      BY DEF Message
    <3> QED BY <3>1, <3>2
  <2> DEFINE t == Reply(s, m)
  <2>2. t.known = s.known /\ t.down = Append(s.down, m) /\ t.synced = s.synced
    BY <1>1 DEF SessionState, Reply
  <2> HIDE DEF t
  <2>3. Hears(s, t) BY <1>1, <2>1, <2>2, HearsAppend
  <2>4. UNCHANGED <<edits, parents, unsaved, stored, missed>> /\ s.up # <<>>
    BY <1>5 DEF ServeEvent
  <2>5. ASSUME NEW b \in Durable' \ Durable
        PROVE  \A d \in Client : session[d].authenticated = "yes" => [to |-> d, batch |-> b] \in bus'
    <3>1. CASE Store(chunk) /\ Announce(chunk)
      <4>1. b \in ToSet(chunk) BY <1>2, <2>4, <2>5, <3>1, StoreAdds
      <4> HIDE DEF chunk
      <4> QED BY <3>1, <4>1 DEF Announce
    <3>2. CASE UNCHANGED <<log, bus>> BY <2>5, <3>2 DEF Durable
    <3> QED BY <2>1, <3>1, <3>2
  <2>6. bus \subseteq bus' BY <2>1 DEF Announce
  <2> QED BY <2>1, <2>3, <2>4, <2>5, <2>6, SeesStep DEF t
<1>6. CASE ServeRepair(c)
  <2> DEFINE after == Head(s.up).after
             m == Page(after)
             t == Reply(s, m)
  <2>1. Becomes(c, t) /\ UNCHANGED <<log, missed, bus>>
    BY <1>6 DEF ServeRepair
  <2>2. m.type = "page" BY DEF Page, Message
  <2>10. m.flag => m.batches = SubSeq(log, after + 1, Len(log)) BY DEF Page, Message
  <2> HIDE DEF m
  <2>3. t.known = s.known /\ t.down = Append(s.down, m) /\ t.synced = s.synced
    BY <1>1 DEF SessionState, Reply
  <2> HIDE DEF t
  <2>4. CASE ~m.flag
    <3>1. Hears(s, t) BY <1>1, <2>2, <2>3, <2>4, HearsAppend
    <3> QED BY <2>1, <3>1, SeesQuietly
  <2>5. CASE m.flag
    <3>1. s.down \in Seq(DownMessage) BY <1>1 DEF SessionState
    <3>2. /\ \A i \in DOMAIN t.down : (i \in DOMAIN s.down /\ t.down[i] = s.down[i]) \/ t.down[i] = m
          /\ \E i \in DOMAIN t.down : t.down[i] = m
      <4> DEFINE down == s.down
      <4>1. down \in Seq(DownMessage) BY <3>1
      <4> HIDE DEF down
      <4>2. Len(down) + 1 \in DOMAIN Append(down, m) /\ Append(down, m)[Len(down) + 1] = m BY <4>1
      <4>3. \A i \in DOMAIN Append(down, m) :
              (i \in DOMAIN down /\ Append(down, m)[i] = down[i]) \/ Append(down, m)[i] = m
        BY <4>1
      <4> QED BY <2>3, <4>2, <4>3 DEF down
    <3>3. ReadyIsPlain(t) BY <2>2, <3>2 DEF AllSee, Sees, ReadyIsPlain
    <3>4. ASSUME NEW b \in Durable PROVE Coming(t, b)
      <4>1. /\ log \in Seq(Batches) /\ s.up \in Seq(UpMessage) /\ s.up # <<>>
            /\ s.cursor \in Nat
        BY <1>1, <1>6 DEF Inv, WorldOK, World, SessionState, ServeRepair
      <4>2. Head(s.up) = s.up[1] /\ 1 \in DOMAIN s.up /\ after \in Nat
        <5> DEFINE up == s.up
        <5> HIDE DEF up
        <5>1. Head(up) = up[1] /\ 1 \in DOMAIN up /\ Head(up) \in UpMessage BY <4>1 DEF up
        <5>2. Head(up).after \in Nat BY <5>1 DEF UpMessage
        <5> QED BY <5>1, <5>2 DEF up
      <4>3. after <= s.cursor /\ s.cursor <= Len(log) /\ \A i \in 1 .. s.cursor : log[i] \in s.known
        BY <1>1, <4>2 DEF SessionOK, SocketOK, UpOK, CursorOK, World
      <4> HIDE DEF after
      <4>4. PICK i \in 1 .. Len(log) : b = log[i] BY <3>4, <4>1 DEF Durable, ToSet
      <4>5. CASE i <= after
        <5>1. i \in 1 .. s.cursor BY <4>1, <4>2, <4>3, <4>4, <4>5
        <5> QED BY <2>3, <4>3, <4>4, <5>1 DEF Coming
      <4>6. CASE i > after
        <5>1. i - after \in DOMAIN m.batches /\ m.batches[i - after] = b
          BY <2>5, <2>10, <4>1, <4>2, <4>4, <4>6
        <5> QED BY <3>2, <5>1 DEF Coming, ToSet
      <4> QED BY <4>2, <4>4, <4>5, <4>6
    <3>5. session' = [session EXCEPT ![c] = t] BY <2>1 DEF Becomes
    <3>6. session'[c] = t /\ \A d \in Client \ {c} : session'[d] = session[d]
      BY <3>5 DEF Inv
    <3> SUFFICES ASSUME NEW d \in Client PROVE Sees(d)' BY DEF AllSee
    <3>7. CASE d = c BY <2>1, <3>3, <3>4, <3>6, <3>7 DEF Sees, Durable
    <3>8. CASE d # c BY <2>1, <3>6, <3>8 DEF AllSee, Sees, Durable
    <3> QED BY <3>7, <3>8
  <2> QED BY <2>4, <2>5
<1> QED BY <1>3, <1>4, <1>5, <1>6 DEF ServerStep
LEMMA SeesOrphan == ASSUME Inv, AllSee, ServeOrphan PROVE AllSee'
<1>1. PICK w \in orphans :
        /\ \/ /\ Store(w.batches)
              /\ \/ Announce(w.batches) /\ UNCHANGED missed
                 \/ missed' = missed \cup (ToSet(w.batches) \ ToSet(log)) /\ UNCHANGED bus
           \/ UNCHANGED <<log, bus, missed>>
        /\ UNCHANGED <<session, edits, parents, stored, unsaved>>
  BY DEF ServeOrphan
<1>2. WriteOK(World, w.batches) BY DEF Inv, OrphansOK
<1> SUFFICES ASSUME NEW c \in Client PROVE AllSee' BY DEF AllSee
<1>3. Becomes(c, session[c]) BY <1>1 DEF Becomes, Inv
<1>4. Hears(session[c], session[c]) BY DEF Hears
<1>5. CASE Store(w.batches)
  <2>1. Durable' \ Durable \subseteq ToSet(w.batches) \ ToSet(log)
    BY <1>1, <1>2, <1>5, StoreAdds
  <2>2. CASE Announce(w.batches) /\ UNCHANGED missed
    <3>1. bus \subseteq bus' BY <2>2 DEF Announce
    <3>2. \A b \in Durable' \ Durable :
            \A d \in Client : session[d].authenticated = "yes" => [to |-> d, batch |-> b] \in bus'
      BY <2>1, <2>2 DEF Announce
    <3> QED BY <1>3, <1>4, <2>2, <3>1, <3>2, SeesStep
  <2>3. CASE missed' = missed \cup (ToSet(w.batches) \ ToSet(log)) /\ UNCHANGED bus
    BY <1>3, <1>4, <2>1, <2>3, SeesStep
  <2>4. CASE UNCHANGED <<log, bus, missed>> BY <1>3, <1>4, <2>4, SeesQuietly
  <2> QED BY <1>1, <2>2, <2>3, <2>4
<1>6. CASE UNCHANGED <<log, bus, missed>> BY <1>3, <1>4, <1>6, SeesQuietly
<1> QED BY <1>1, <1>5, <1>6

\* What was published arrives, or is counted as missed.
LEMMA SeesDelivery == ASSUME Inv, AllSee, Deliver PROVE AllSee'
<1>1. PICK m \in bus :
        /\ bus' = bus \ {m}
        /\ \/ /\ Becomes(m.to, [session[m.to] EXCEPT
                    !.down = Append(@, Message("event", <<m.batch>>, 0, FALSE))])
              /\ UNCHANGED missed
           \/ missed' = missed \cup {m.batch} /\ UNCHANGED session
        /\ UNCHANGED log
  BY DEF Deliver
<1> DEFINE c == m.to
           s == session[c]
           e == Message("event", <<m.batch>>, 0, FALSE)
           t == [s EXCEPT !.down = Append(@, e)]
<1>2. c \in Client /\ s \in SessionState BY DEF Inv, BusOK
<1>3. \A b \in Durable' : b \in Durable BY <1>1 DEF Durable
<1>4. CASE Becomes(c, t) /\ UNCHANGED missed
  <2>1. e.type = "event" /\ e.batches = <<m.batch>> BY DEF Message
  <2>2. m.batch \in ToSet(e.batches)
    <3>1. 1 \in DOMAIN <<m.batch>> /\ <<m.batch>>[1] = m.batch OBVIOUS
    <3> HIDE DEF e
    <3> QED BY <2>1, <3>1 DEF ToSet
  <2> HIDE DEF e
  <2>3. t.down = Append(s.down, e) /\ t.known = s.known /\ t.synced = s.synced
    BY <1>2 DEF SessionState
  <2> HIDE DEF t
  <2>4. Hears(s, t) /\ Coming(t, m.batch) BY <1>2, <2>1, <2>2, <2>3, HearsAppend
  <2> QED BY <1>1, <1>2, <1>3, <1>4, <2>4, SeesStep
<1>5. CASE missed' = missed \cup {m.batch} /\ UNCHANGED session
  <2>1. Becomes(c, s) BY <1>5 DEF Becomes, Inv
  <2>2. Hears(s, s) BY DEF Hears
  <2> HIDE DEF c
  <2> QED BY <1>1, <1>2, <1>3, <1>5, <2>1, <2>2, SeesStep
<1> QED BY <1>1, <1>4, <1>5

\* What a message held is known when it has been handled.
LEMMA SeesReceive == ASSUME Inv, AllSee, NEW c \in Client, Receive(c) PROVE AllSee'
<1> DEFINE x == session[c]
           m == Head(x.down)
           s == [x EXCEPT !.down = Tail(@)]
           ready == ReceiveReady(s)
           page == ReceivePage(s, m)
           event == Apply(s, m.batches)
           ack == ReceiveAck(s, m)
           refused == [Disconnected(s) EXCEPT !.fatal = m.flag]
<1>1. /\ x \in SessionState /\ x.down # <<>> /\ ReadyIsPlain(x) /\ UNCHANGED <<log, missed>>
      /\ SocketOK(World, x)
  BY DEF Inv, AllSee, Sees, Receive, SessionOK
<1>2. m \in DownMessage /\ (ReadyIsPlain(x) /\ m.type = "ready" => ToSet(m.batches) = {})
      /\ (m.type = "ack" => ToSet(m.batches) \subseteq x.known)
  <2>1. x.down \in Seq(DownMessage) BY <1>1 DEF SessionState
  <2> DEFINE g == World
  <2>2. SocketOK(g, x) BY <1>1
  <2> HIDE DEF x, g
  <2>3. 1 \in DOMAIN x.down /\ m = x.down[1] /\ m \in DownMessage BY <1>1, <2>1
  <2> HIDE DEF m
  <2> QED BY <2>2, <2>3 DEF ReadyIsPlain, SocketOK, DownOK
<1>3. /\ Becomes(c, CASE m.type = "ready" -> ready
                      [] m.type = "page" -> page
                      [] m.type = "event" -> event
                      [] m.type = "ack" -> ack
                      [] m.type = "error" -> refused)
      /\ IF m.type = "error" THEN CutOff(c) ELSE UNCHANGED bus
  BY DEF Receive
<1>4. s.down = Tail(x.down) /\ s.known = x.known /\ s.synced = x.synced
  BY <1>1 DEF SessionState
<1>5. s \in SessionState
  <2> DEFINE down == Tail(x.down)
  <2>1. down \in Seq(DownMessage) BY <1>1 DEF SessionState
  <2>2. s = [x EXCEPT !.down = down] OBVIOUS
  <2> HIDE DEF down, s
  <2> QED BY <1>1, <2>1, <2>2 DEF SessionState
<1>6. m.type \in {"ready", "page", "event", "ack", "error"} /\ m.batches \in Seq(Batches)
      /\ m.next \in Nat
  BY <1>2 DEF DownMessage
<1> HIDE DEF x, m, s
<1>7. m.type = "ready" => Hears(x, ready)
  <2>1. ready.down = s.down /\ ready.known = s.known /\ ready.synced = FALSE
    BY <1>5 DEF ReceiveReady, RequestRepair, SessionState
  <2> HIDE DEF ready
  <2> QED BY <1>1, <1>2, <1>4, <2>1, HearsTail DEF m
<1>8. m.type = "page" => Hears(x, page)
  <2> DEFINE t == [Apply(s, m.batches) EXCEPT !.cursor = IF m.next > @ THEN m.next ELSE @]
             v == [t EXCEPT !.synced = TRUE, !.shown = TRUE]
             p == Publish(v)
             asked == RequestRepair(t, m.next)
             saved == [p EXCEPT !.status = "saved"]
  <2>1. (page = asked /\ ~m.flag) \/ (page \in {saved, p} /\ m.flag) BY DEF ReceivePage
  <2>2. t \in SessionState /\ t.known = s.known \cup ToSet(m.batches) /\ t.down = s.down
        /\ t.synced = s.synced
    <3> DEFINE known == s.known \cup ToSet(m.batches)
               cursor == IF m.next > s.cursor THEN m.next ELSE s.cursor
    <3>1. known \in SUBSET Batches /\ cursor \in Nat BY <1>5, <1>6 DEF SessionState, ToSet
    <3>2. t = [s EXCEPT !.known = known, !.cursor = cursor] /\ known = s.known \cup ToSet(m.batches)
      BY <1>5 DEF SessionState, Apply
    <3> HIDE DEF known, cursor, t
    <3> QED BY <1>5, <3>1, <3>2 DEF SessionState
  <2> HIDE DEF t
  <2>3. v \in SessionState /\ v.known = t.known /\ v.down = t.down /\ v.synced = TRUE
    BY <2>2 DEF SessionState
  <2>4. asked.known = t.known /\ asked.down = t.down /\ asked.synced = t.synced
    BY <2>2 DEF SessionState, RequestRepair
  <2> HIDE DEF v, asked
  <2>5. SamePlace(v, p) BY <2>3, PublishPlace
  <2>6. SamePlace(p, saved)
    <3> DEFINE f == Flush(v)
               y == [f EXCEPT !.status = "saving"]
    <3>1. p \in {v, f, y} BY DEF Publish
    <3>2. SamePlace(f, [f EXCEPT !.status = "saved"]) BY <2>3, FlushPlace
    <3>3. SamePlace(v, [v EXCEPT !.status = "saved"]) BY <2>3 DEF SessionState, SamePlace
    <3>4. [y EXCEPT !.status = "saved"] = [f EXCEPT !.status = "saved"] OBVIOUS
    <3>5. SamePlace(f, y) BY <2>3, FlushPlace
    <3>6. SamePlace(y, [y EXCEPT !.status = "saved"]) BY <3>2, <3>4, <3>5 DEF SamePlace
    <3> HIDE DEF f, y, p
    <3> QED BY <3>1, <3>2, <3>3, <3>6
  <2> HIDE DEF p, saved
  <2>7. ToSet(m.batches) \subseteq page.known /\ x.known \subseteq page.known
        /\ page.down = Tail(x.down) /\ (page.synced => x.synced \/ m.flag)
    BY <1>4, <2>1, <2>2, <2>3, <2>4, <2>5, <2>6 DEF SamePlace
  <2> HIDE DEF page
  <2> QED BY <1>1, <2>7, HearsTail DEF m
<1>9. m.type = "event" => Hears(x, event)
  <2>1. event.down = s.down /\ event.known = s.known \cup ToSet(m.batches) /\ event.synced = s.synced
    BY <1>5 DEF Apply, SessionState
  <2> HIDE DEF event
  <2> QED BY <1>1, <1>4, <2>1, HearsTail DEF m
<1>10. m.type = "ack" => Hears(x, ack)
  <2> DEFINE a == Acknowledge(s, ToSet(m.batches))
  <2>1. ack \in {a, [a EXCEPT !.status = "saved"], [a EXCEPT !.status = "saving"]}
    BY DEF ReceiveAck
  <2>2. /\ SamePlace(s, a) /\ SamePlace(a, [a EXCEPT !.status = "saved"])
        /\ SamePlace(a, [a EXCEPT !.status = "saving"])
    BY <1>5, AcknowledgePlace
  <2>4. SamePlace(s, ack)
    <3> HIDE DEF a, ack
    <3> QED BY <2>1, <2>2 DEF SamePlace
  <2>3. ack.down = s.down /\ ack.known = s.known /\ ack.synced = s.synced
    BY <2>4 DEF SamePlace
  <2> HIDE DEF ack
  <2> QED BY <1>1, <1>2, <1>4, <2>3, HearsTail DEF m
<1>11. Hears(x, refused) /\ ~Told(refused)
  <2>1. DOMAIN refused.down = {} /\ refused.synced = FALSE BY <1>5 DEF Disconnected, SessionState
  <2> HIDE DEF refused
  <2> QED BY <2>1, HearsNothing
<1> HIDE DEF ready, page, event, ack, refused
<1>12. PICK t : Becomes(c, t) /\ Hears(x, t) /\ (UNCHANGED bus \/ (CutOff(c) /\ ~Told(t)))
  BY <1>3, <1>6, <1>7, <1>8, <1>9, <1>10, <1>11
<1> QED BY <1>1, <1>12, SeesQuietly DEF x

LEMMA AllSeeInit == Init => AllSee
<1> SUFFICES ASSUME Init, NEW c \in Client PROVE Sees(c) BY DEF AllSee
<1>1. session[c] = NewSession BY DEF Init
<1>2. DOMAIN NewSession.down = {} /\ NewSession.synced = FALSE BY DEF NewSession
<1> QED BY <1>1, <1>2 DEF Sees, ReadyIsPlain, Told

LEMMA AllSeeNext == Inv /\ AllSee /\ [Next]_vars => AllSee'
<1> SUFFICES ASSUME Inv, AllSee, [Next]_vars PROVE AllSee' OBVIOUS
<1>1. CASE UNCHANGED vars BY <1>1 DEF vars, AllSee, Sees, Durable
<1>2. ASSUME NEW c \in Client, SessionStep(c) PROVE AllSee'
  BY <1>2, SeesLocally, SeesReceive DEF SessionStep
<1> QED BY <1>1, <1>2, SeesLocally, SeesServed, SeesOrphan, SeesDelivery DEF Next

\* A session knows the history before its cursor, whatever pages it was sent;
\* once its repair is complete nothing that was published passes it by, because
\* the room publishes to it from before the last page is read.
THEOREM SyncedSessionsSeeAll == Spec => []SyncedSeesAll
<1>1. ASSUME Inv, AllSee PROVE SyncedSeesAll
  <2> SUFFICES ASSUME NEW c \in Client
               PROVE  LET s == session[c]
                      IN  /\ ToSet(SubSeq(log, 1, s.cursor)) \subseteq s.known
                          /\ s.synced => \A b \in Durable :
                               \/ b \in s.known \cup missed
                               \/ [to |-> c, batch |-> b] \in bus
                               \/ \E i \in DOMAIN s.down : b \in ToSet(s.down[i].batches)
    BY DEF SyncedSeesAll
  <2> DEFINE s == session[c]
             before == SubSeq(log, 1, s.cursor)
  <2>1. /\ log \in Seq(Batches) /\ s.cursor \in Nat /\ s.cursor <= Len(log)
        /\ \A i \in 1 .. s.cursor : log[i] \in s.known
    BY <1>1 DEF Inv, WorldOK, World, SessionOK, CursorOK, SessionState
  <2>2. Sees(c) BY <1>1 DEF AllSee
  <2> HIDE DEF s
  <2>3. DOMAIN before = 1 .. s.cursor /\ \A i \in 1 .. s.cursor : before[i] = log[i] BY <2>1
  <2> HIDE DEF before
  <2>4. ToSet(before) \subseteq s.known BY <2>1, <2>3 DEF ToSet
  <2>5. s.synced => \A b \in Durable :
                      b \in missed \/ [to |-> c, batch |-> b] \in bus \/ Coming(s, b)
    BY <2>2 DEF Sees, Told, s
  <2> QED BY <2>4, <2>5 DEF Coming, s, before
<1>2. Spec => []AllSee BY InvInit, InvNext, AllSeeInit, AllSeeNext, PTL DEF Spec
<1> QED BY <1>1, <1>2, InvAlways, PTL
-----------------------------------------------------------------------------
(* Repair comes first.                                                     *)

\* No ready and no page is on its way.
Quiet(s) == \A i \in DOMAIN s.down : s.down[i].type \notin {"ready", "page"}

\* There is nothing to send until the session is authenticated and has asked.
Unheard(s) ==
  /\ s.down = <<>> /\ ~s.synced /\ s.inFlight = {}
  /\ s.up = <<>> \/ (s.authenticated = "no" /\ Len(s.up) = 1 /\ s.up[1].type = "auth")

\* One thing at a time: the session asks for a page, or the next page or Ready
\* is on its way; nothing was sent, and nothing acknowledged.
Repairing(s) ==
  /\ ~s.synced /\ s.inFlight = {}
  /\ \A i \in DOMAIN s.down : s.down[i].type # "ack"
  /\ \/ Len(s.up) = 1 /\ s.up[1].type = "repair" /\ Quiet(s) /\ s.socket = "ready"
     \/ /\ s.up = <<>>
        /\ \A i, j \in DOMAIN s.down :
             s.down[i].type \in {"ready", "page"} /\ s.down[j].type \in {"ready", "page"} => i = j
        /\ \A i \in DOMAIN s.down : s.down[i].type = "page" => s.socket = "ready"

\* The repair is complete, and only edits are sent.
Repaired(s) ==
  /\ s.synced /\ s.socket = "ready" /\ Quiet(s)
  /\ \A i \in DOMAIN s.up : s.up[i].type = "event"

\* Only a shared document has a socket.
OnlySocket(s) == s.transport # "ws" => s.socket = "none"

Shared(s) ==
  /\ OnlySocket(s)
  /\ s.authenticated # "yes" => Unheard(s)
  /\ s.authenticated = "yes" => Repairing(s) \/ Repaired(s)

AllShared == \A c \in Client : Shared(session[c])

SameTransport(s, t) == t.transport = s.transport

LEMMA OnlySocketStays ==
  ASSUME NEW s, NEW t, OnlySocket(s), SameTransport(s, t), s.socket # "none" \/ t.socket = s.socket
  PROVE  OnlySocket(t)
BY DEF OnlySocket, SameTransport

\* What the session had to send may have been sent, if it was repaired.
Sends(s, t) ==
  /\ SamePlace(s, t) /\ SameTransport(s, t)
  /\ \/ t.up = s.up /\ t.inFlight = s.inFlight
     \/ s.synced /\ \E m : m.type = "event" /\ t.up = Append(s.up, m)

LEMMA SendsShared ==
  ASSUME NEW s \in SessionState, NEW t, Shared(s), Sends(s, t)
  PROVE  Shared(t)
<1>1. OnlySocket(t) BY OnlySocketStays DEF Sends, SamePlace, Shared
<1>2. CASE t.up = s.up /\ t.inFlight = s.inFlight
  BY <1>1, <1>2 DEF Sends, SamePlace, Shared, Unheard, Repairing, Repaired, Quiet
<1>3. CASE s.synced /\ \E m : m.type = "event" /\ t.up = Append(s.up, m)
  <2>1. PICK m : m.type = "event" /\ t.up = Append(s.up, m) BY <1>3
  <2>2. s.authenticated = "yes" /\ Repaired(s) BY <1>3 DEF Shared, Unheard, Repairing
  <2>3. \A i \in DOMAIN t.up : (i \in DOMAIN s.up /\ t.up[i] = s.up[i]) \/ t.up[i] = m
    <3> DEFINE up == s.up
    <3>1. up \in Seq(UpMessage) BY DEF SessionState
    <3> HIDE DEF up
    <3>2. \A i \in DOMAIN Append(up, m) : (i \in DOMAIN up /\ Append(up, m)[i] = up[i]) \/ Append(up, m)[i] = m
      BY <3>1
    <3> QED BY <2>1, <3>2 DEF up
  <2>4. Repaired(t) BY <2>1, <2>2, <2>3 DEF Repaired, Quiet, Sends, SamePlace
  <2> QED BY <1>1, <2>2, <2>4 DEF Shared, Sends, SamePlace
<1> QED BY <1>2, <1>3 DEF Sends

LEMMA FlushSends ==
  ASSUME NEW s \in SessionState, s.inFlight = {} => s.synced, NEW status
  PROVE  LET f == Flush(s) IN Sends(s, f) /\ Sends(s, [f EXCEPT !.status = status])
<1> DEFINE m == [type |-> "event", batches |-> Chunk(s), after |-> 0]
           sent == ToSet(Chunk(s))
           up == Append(s.up, m)
           f == [s EXCEPT !.inFlight = sent, !.up = up]
<1>1. \/ Flush(s) = s
      \/ Flush(s) = f /\ s.inFlight = {}
  BY DEF Flush
<1>2. Sends(s, s) /\ Sends(s, [s EXCEPT !.status = status])
  BY DEF Sends, SamePlace, SameTransport, SessionState
<1>3. m.type = "event" /\ up = Append(s.up, m) OBVIOUS
<1> HIDE DEF m, sent, up
<1>4. SamePlace(s, f) /\ SameTransport(s, f) /\ f.up = up BY DEF SamePlace, SameTransport, SessionState
<1>5. /\ SamePlace(s, [f EXCEPT !.status = status]) /\ SameTransport(s, [f EXCEPT !.status = status])
      /\ [f EXCEPT !.status = status].up = up
  BY DEF SamePlace, SameTransport, SessionState
<1> HIDE DEF f
<1>6. s.inFlight = {} => Sends(s, f) /\ Sends(s, [f EXCEPT !.status = status])
  BY <1>3, <1>4, <1>5 DEF Sends
<1> QED BY <1>1, <1>2, <1>6

LEMMA PublishSends == ASSUME NEW s \in SessionState PROVE Sends(s, Publish(s))
<1>1. Sends(s, s) BY DEF Sends, SamePlace, SameTransport
<1>2. s.synced => Sends(s, Flush(s)) /\ Sends(s, [Flush(s) EXCEPT !.status = "saving"])
  BY FlushSends
<1>3. Publish(s) = s \/ (s.synced /\ Publish(s) \in {Flush(s), [Flush(s) EXCEPT !.status = "saving"]})
  BY DEF Publish
<1> QED BY <1>1, <1>2, <1>3

\* A disconnected session starts again.
LEMMA DisconnectedShared ==
  ASSUME NEW s \in SessionState, NEW flag
  PROVE  Shared(Disconnected(s)) /\ Shared([Disconnected(s) EXCEPT !.fatal = flag])
<1> DEFINE none == <<>>
           nothing == {}
           d == [s EXCEPT !.socket = "none", !.synced = FALSE, !.inFlight = nothing,
                          !.up = none, !.down = none, !.authenticated = "no"]
           e == [d EXCEPT !.fatal = flag]
<1>1. Disconnected(s) = d /\ none = <<>> /\ nothing = {} BY DEF Disconnected
<1> HIDE DEF none, nothing
<1>2. ASSUME NEW t, t \in {d, e} PROVE Shared(t)
  <2>1. /\ SameTransport(s, t) /\ t.authenticated = "no" /\ t.down = none /\ t.up = none
        /\ t.synced = FALSE /\ t.inFlight = nothing /\ t.socket = "none"
    BY <1>2 DEF SameTransport, SessionState
  <2> HIDE DEF d, e
  <2>2. OnlySocket(t) BY <2>1 DEF OnlySocket, SameTransport
  <2>3. Unheard(t) BY <1>1, <2>1 DEF Unheard
  <2> QED BY <2>1, <2>2, <2>3 DEF Shared
<1> QED BY <1>1, <1>2

\* The socket and what is sent on it stay as they are.
Steady(s, t) ==
  /\ t.up = s.up /\ t.down = s.down /\ t.inFlight = s.inFlight /\ t.synced = s.synced
  /\ t.socket = s.socket /\ t.authenticated = s.authenticated
  /\ t.transport \in {s.transport, "ws"}

LEMMA SteadyShared == ASSUME NEW s, NEW t, Shared(s), Steady(s, t) PROVE Shared(t)
BY DEF Shared, Steady, OnlySocket, Unheard, Repairing, Repaired, Quiet

LEMMA SteadyThen == ASSUME NEW s, NEW t, NEW v, Steady(s, t), Steady(t, v) PROVE Steady(s, v)
BY DEF Steady

\* A save leaves the socket alone.
LEMMA RunSteady == ASSUME NEW s \in SessionState PROVE Steady(s, Run(s))
<1> DEFINE none == <<>>
           t == [s EXCEPT !.saves = none, !.status = IF s.restored THEN "saved" ELSE "error"]
<1>1. Run(s) \in {s, SendHttp(s), t, StartWs(t)} BY DEF Run
<1>2. Steady(s, s) /\ Steady(s, SendHttp(s)) /\ Steady(s, t)
  BY DEF Steady, SendHttp, SessionState
<1>3. Steady(s, StartWs(t))
  <2> DEFINE v == [s EXCEPT !.saves = none, !.status = IF s.restored THEN "saved" ELSE "error",
                            !.transport = "ws", !.fatal = FALSE]
  <2>1. StartWs(t) = v BY DEF StartWs
  <2>2. Steady(s, v) BY DEF Steady, SessionState
  <2> QED BY <2>1, <2>2
<1> QED BY <1>1, <1>2, <1>3

LEMMA RequestSaveSteady ==
  ASSUME NEW s \in SessionState, NEW kind \in {"save", "share"} PROVE Steady(s, RequestSave(s, kind))
<1> DEFINE saves == Append(s.saves, kind)
           t == [s EXCEPT !.saves = saves, !.status = "saving"]
<1>1. saves \in Seq({"save", "share"})
  <2>1. s.saves \in Seq({"save", "share"}) BY DEF SessionState
  <2> QED BY <2>1
<1> HIDE DEF saves
<1>2. t \in SessionState /\ Steady(s, t) BY <1>1 DEF SessionState, Steady
<1>3. RequestSave(s, kind) = Run(t) BY DEF RequestSave, saves
<1> HIDE DEF t
<1> QED BY <1>2, <1>3, RunSteady, SteadyThen

LEMMA EndSaveSteady ==
  ASSUME NEW s \in SessionState, s.saves # <<>>, NEW status \in {"saved", "error"}
  PROVE  Steady(s, EndSave(s, status))
<1> DEFINE saves == Tail(s.saves)
           none == <<>>
           shows == IF Len(s.saves) = 1 THEN status ELSE s.status
           t == [s EXCEPT !.saves = saves, !.http = "idle", !.carried = none, !.status = shows]
           v == [s EXCEPT !.saves = saves, !.http = "idle", !.carried = none, !.status = shows,
                          !.transport = "ws", !.fatal = FALSE]
<1>1. saves \in Seq({"save", "share"}) /\ none \in Seq(Batches)
  <2>1. s.saves \in Seq({"save", "share"}) BY DEF SessionState
  <2> QED BY <2>1
<1>2. shows \in {"idle", "saving", "saved", "error"} BY DEF SessionState
<1>3. t = [s EXCEPT !.saves = Tail(@), !.http = "idle", !.carried = <<>>,
                    !.status = IF Len(s.saves) = 1 THEN status ELSE @]
  BY DEF SessionState
<1>4. v = StartWs(t) BY DEF StartWs
<1>5. EndSave(s, status) \in {Run(t), Run(v)} BY <1>3, <1>4 DEF EndSave
<1> HIDE DEF saves, none, shows
<1>6. t \in SessionState /\ Steady(s, t) BY <1>1, <1>2 DEF SessionState, Steady
<1>7. v \in SessionState /\ Steady(s, v) BY <1>1, <1>2 DEF SessionState, Steady
<1> HIDE DEF t, v
<1> QED BY <1>5, <1>6, <1>7, RunSteady, SteadyThen

LEMMA RestoredSteady ==
  ASSUME NEW c \in Client, NEW s \in SessionState PROVE Steady(s, Restored(c, s))
BY DEF Restored, Steady, SessionState

\* What is durable leaves the queue of a session that has no socket.
LEMMA AcknowledgeSteady ==
  ASSUME NEW s \in SessionState, s.socket = "none", s.inFlight = {}, NEW ids
  PROVE  Acknowledge(s, ids) \in SessionState /\ Steady(s, Acknowledge(s, ids))
<1> DEFINE rest == Without(s.pending, ids)
           left == s.inFlight \ ids
           t == [s EXCEPT !.pending = rest, !.inFlight = left]
<1>1. Acknowledge(s, ids) = Flush(t) BY DEF Acknowledge
<1>2. rest \in Seq(Batches)
  <2>1. s.pending \in Seq(Batches) BY DEF SessionState
  <2> QED BY <2>1, WithoutSet
<1>3. left = s.inFlight OBVIOUS
<1> HIDE DEF rest, left
<1>4. t \in SessionState /\ Steady(s, t) /\ t.socket = "none"
  BY <1>2, <1>3 DEF SessionState, Steady
<1> HIDE DEF t
<1>5. Flush(t) = t BY <1>4 DEF Flush
<1> QED BY <1>1, <1>4, <1>5

\* No HTTP save is answered while the document is shared.
NoLateAnswer == \A c \in Client : session[c].http = "done" => session[c].transport # "ws"

LEMMA SharedMove ==
  ASSUME Inv, AllShared, NEW c \in Client, NEW t, Becomes(c, t), Shared(t) PROVE AllShared'
<1>1. session'[c] = t /\ \A d \in Client \ {c} : session'[d] = session[d] BY DEF Becomes, Inv
<1> QED BY <1>1 DEF AllShared

\* What the save coordinator does, HTTP and the switch between transports.
LEMMA SharedSaves ==
  ASSUME Inv, AllShared, NoLateAnswer, NEW c \in Client,
         \/ \E transport \in Transports : SetShared(c, transport)
         \/ LoadHistory(c) \/ SaveTimer(c) \/ SaveNow(c) \/ HttpAnswered(c) \/ ServeHttp(c)
  PROVE  AllShared'
<1> DEFINE s == session[c]
<1>1. /\ s \in SessionState /\ SocketOK(World, s) /\ HttpOK(World, s) /\ Shared(s)
  BY DEF Inv, SessionOK, AllShared
<1>2. ASSUME NEW t, Becomes(c, t), Steady(s, t) PROVE AllShared'
  BY <1>1, <1>2, SteadyShared, SharedMove
<1>3. ASSUME NEW transport \in Transports, SetShared(c, transport) PROVE AllShared'
  <2> DEFINE timed == [s EXCEPT !.saveTimer = FALSE]
             d == [Disconnected(s) EXCEPT !.transport = "http", !.loading = TRUE,
                                          !.status = "saving"]
  <2>1. Becomes(c, StartWs(s)) \/ Becomes(c, RequestSave(timed, "share")) \/ Becomes(c, d)
    <3>1. transport \in {"http", "ws"} /\ s.transport \in {"none", "http", "ws"}
          /\ s.transport # transport
      BY <1>1, <1>3, ClientAssumption DEF SetShared, SessionState
    <3> QED BY <1>3, <3>1 DEF SetShared
  <2>2. Steady(s, StartWs(s)) BY <1>1 DEF StartWs, Steady, SessionState
  <2>3. Steady(s, RequestSave(timed, "share"))
    <3>1. timed \in SessionState /\ Steady(s, timed) BY <1>1 DEF SessionState, Steady
    <3> HIDE DEF timed
    <3> QED BY <3>1, RequestSaveSteady, SteadyThen
  <2>4. Shared(d)
    <3>1. d.authenticated = "no" /\ d.socket = "none" /\ d.down = <<>> /\ d.up = <<>>
          /\ d.synced = FALSE /\ d.inFlight = {}
      BY <1>1 DEF Disconnected, SessionState
    <3> HIDE DEF d
    <3> QED BY <3>1 DEF Shared, OnlySocket, Unheard
  <2> HIDE DEF d, timed
  <2> QED BY <1>2, <2>1, <2>2, <2>3, <2>4, SharedMove
<1>4. ASSUME LoadHistory(c) PROVE AllShared'
  <2> DEFINE r == Restored(c, s)
             t == [r EXCEPT !.loading = FALSE, !.shown = TRUE]
             known == t.known \cup ToSet(log)
             w == [t EXCEPT !.known = known]
  <2>1. \/ Becomes(c, [w EXCEPT !.status = "saved"]) \/ Becomes(c, RequestSave(w, "save"))
        \/ Becomes(c, [t EXCEPT !.status = "error"])
    <3>1. \/ Becomes(c, IF t.pending = <<>>
                         THEN [t EXCEPT !.known = @ \cup ToSet(log), !.status = "saved"]
                         ELSE RequestSave([t EXCEPT !.known = @ \cup ToSet(log)], "save"))
          \/ Becomes(c, [t EXCEPT !.status = "error"])
      BY <1>4 DEF LoadHistory
    <3>2. r \in SessionState BY <1>1, RestoredOK DEF Inv, SessionOK
    <3> HIDE DEF r
    <3>3. w = [t EXCEPT !.known = @ \cup ToSet(log)]
          /\ [w EXCEPT !.status = "saved"] = [t EXCEPT !.known = @ \cup ToSet(log), !.status = "saved"]
      BY <3>2 DEF SessionState
    <3> QED BY <3>1, <3>3
  <2>2. r \in SessionState /\ Steady(s, r)
    BY <1>1, RestoredOK, RestoredSteady DEF Inv, SessionOK
  <2>3. known \in SUBSET Batches
    <3>1. ToSet(log) \subseteq Batches BY DEF Inv, WorldOK, World, ToSet
    <3>2. t.known \in SUBSET Batches BY <2>2 DEF SessionState
    <3> QED BY <3>1, <3>2
  <2> HIDE DEF r, known
  <2>4. /\ w \in SessionState /\ Steady(r, w) /\ Steady(r, [w EXCEPT !.status = "saved"])
        /\ Steady(r, [t EXCEPT !.status = "error"])
    BY <2>2, <2>3 DEF SessionState, Steady
  <2> HIDE DEF w, t
  <2>5. Steady(w, RequestSave(w, "save")) BY <2>4, RequestSaveSteady
  <2> HIDE DEF s
  <2> QED BY <1>2, <2>1, <2>2, <2>4, <2>5, SteadyThen
<1>5. ASSUME SaveTimer(c) \/ SaveNow(c) PROVE AllShared'
  <2> DEFINE t == [s EXCEPT !.saveTimer = FALSE]
  <2>1. Becomes(c, RequestSave(t, "save")) \/ Becomes(c, Publish(t))
    BY <1>5 DEF SaveTimer, SaveNow
  <2>2. t \in SessionState /\ Steady(s, t) BY <1>1 DEF SessionState, Steady
  <2> HIDE DEF t
  <2>3. Steady(s, RequestSave(t, "save")) BY <2>2, RequestSaveSteady, SteadyThen
  <2>4. Shared(Publish(t)) BY <1>1, <2>2, SteadyShared, PublishSends, SendsShared
  <2> QED BY <1>2, <2>1, <2>3, <2>4, SharedMove
<1>6. ASSUME HttpAnswered(c) PROVE AllShared'
  <2> DEFINE ids == ToSet(s.carried)
             a == Acknowledge(s, ids)
  <2>1. \/ s.http = "done" /\ (Becomes(c, EndSave(a, "saved")) \/ Becomes(c, SendHttp(a)))
        \/ s.http = "failed" /\ Becomes(c, EndSave(s, "error"))
    BY <1>6 DEF HttpAnswered
  <2>2. s.saves # <<>> BY <1>1, <2>1 DEF HttpOK
  <2>3. CASE s.http = "failed" /\ Becomes(c, EndSave(s, "error"))
    BY <1>1, <1>2, <2>2, <2>3, EndSaveSteady
  <2>4. CASE s.http = "done" /\ (Becomes(c, EndSave(a, "saved")) \/ Becomes(c, SendHttp(a)))
    <3>1. s.socket = "none" /\ s.inFlight = {}
      BY <1>1, <2>4 DEF NoLateAnswer, Shared, OnlySocket, SocketOK
    <3>2. a \in SessionState /\ Steady(s, a) BY <1>1, <3>1, AcknowledgeSteady
    <3>3. a.saves = s.saves
      <4>1. s \in SessionState /\ s.socket = "none" BY <1>1, <3>1
      <4> HIDE DEF ids, s
      <4> QED BY <4>1 DEF Acknowledge, Flush, SessionState
    <3> HIDE DEF a
    <3>4. Steady(a, EndSave(a, "saved")) BY <2>2, <3>2, <3>3, EndSaveSteady
    <3>5. Steady(a, SendHttp(a)) BY <3>2 DEF SendHttp, Steady, SessionState
    <3> QED BY <1>2, <2>4, <3>2, <3>4, <3>5, SteadyThen
  <2> QED BY <2>1, <2>3, <2>4
<1>7. ASSUME ServeHttp(c) PROVE AllShared'
  <2>1. PICK http : Becomes(c, [s EXCEPT !.http = http]) BY <1>7 DEF ServeHttp
  <2>2. Steady(s, [s EXCEPT !.http = http]) BY <1>1 DEF SessionState, Steady
  <2> QED BY <1>2, <2>1, <2>2
<1> QED BY <1>3, <1>4, <1>5, <1>6, <1>7

LEMMA SharedLocally ==
  ASSUME Inv, AllShared, NEW c \in Client,
         Connect(c) \/ Disconnect(c) \/ LocalEdit(c) \/ Reload(c)
  PROVE  AllShared'
<1> DEFINE s == session[c]
<1>1. /\ s \in SessionState /\ SocketOK(World, s) /\ SessionOK(World, UserOf[c], s) /\ WorldOK(World)
      /\ Shared(s) /\ OnlySocket(s)
  BY DEF Inv, SessionOK, AllShared, Shared
<1>4. ASSUME Connect(c) PROVE AllShared'
  <2> DEFINE r == Restored(c, s)
             m == [type |-> "auth", batches |-> <<>>, after |-> 0]
             up == <<m>>
             t == [r EXCEPT !.socket = "open", !.up = up]
  <2>1. Becomes(c, t) /\ s.socket = "none" /\ s.transport = "ws" BY <1>4 DEF Connect
  <2>2. r \in SessionState BY <1>1, RestoredOK DEF SessionOK
  <2>3. /\ r.down = s.down /\ r.synced = s.synced /\ SameTransport(s, r) /\ r.inFlight = s.inFlight
        /\ r.authenticated = s.authenticated
    BY <1>1 DEF Restored, SessionState, SameTransport
  <2>4. m.type = "auth" /\ Len(up) = 1 /\ up[1] = m OBVIOUS
  <2> HIDE DEF m, up, r
  <2>5. /\ t.down = r.down /\ t.synced = r.synced /\ SameTransport(r, t) /\ t.inFlight = r.inFlight
        /\ t.authenticated = r.authenticated /\ t.up = up /\ t.socket = "open"
    BY <2>2 DEF SessionState, SameTransport
  <2> HIDE DEF t, s
  <2>6. s.authenticated = "no" BY <1>1, <2>1 DEF SocketOK
  <2>7. OnlySocket(t) BY <1>1, <2>1, <2>3, <2>5 DEF OnlySocket, SameTransport
  <2>8. Unheard(t) BY <1>1, <2>3, <2>4, <2>5, <2>6 DEF Shared, Unheard
  <2> QED BY <2>1, <2>3, <2>5, <2>6, <2>7, <2>8, SharedMove DEF Shared
<1>5. ASSUME Disconnect(c) PROVE AllShared'
  BY <1>1, <1>5, DisconnectedShared, SharedMove DEF Disconnect
<1>6. Shared(NewSession)
  BY DEF NewSession, Shared, OnlySocket, Unheard
<1>7. ASSUME Reload(c) PROVE AllShared' BY <1>6, <1>7, SharedMove DEF Reload
<1>8. ASSUME LocalEdit(c) PROVE AllShared'
  <2> DEFINE b == <<c, edits'[c]>>
             noted == [s EXCEPT !.known = @ \cup {b}]
             queued == [noted EXCEPT !.pending = Append(@, b)]
             failed == [noted EXCEPT !.failed = TRUE, !.status = "error"]
             timed == [queued EXCEPT !.saveTimer = @ \/ ~noted.failed]
  <2>2. Becomes(c, Publish(queued)) \/ Becomes(c, timed) \/ Becomes(c, failed) BY <1>8 DEF LocalEdit
  <2>3. edits[c] < budget.edits[c] /\ edits' = [edits EXCEPT ![c] = @ + 1] BY <1>8 DEF LocalEdit
  <2>4. b \in Batches BY <2>3, FreshBatch
  <2> HIDE DEF b
  <2>5. queued \in SessionState
    <3> DEFINE known == s.known \cup {b}
               pending == Append(s.pending, b)
    <3>1. known \in SUBSET Batches /\ pending \in Seq(Batches) BY <1>1, <2>4 DEF SessionState
    <3>2. queued = [s EXCEPT !.known = known, !.pending = pending] BY <1>1 DEF SessionState
    <3> HIDE DEF known, pending, queued
    <3> QED BY <1>1, <3>1, <3>2 DEF SessionState
  <2>6. ASSUME NEW t, t \in {queued, timed, failed} PROVE Shared(t)
    <3>1. Steady(s, t) BY <1>1, <2>6 DEF SessionState, Steady
    <3> QED BY <1>1, <3>1, SteadyShared
  <2> HIDE DEF queued, timed, failed
  <2>7. Sends(queued, Publish(queued)) BY <2>5, PublishSends
  <2>8. Shared(Publish(queued)) BY <2>5, <2>6, <2>7, SendsShared
  <2> QED BY <2>2, <2>6, <2>8, SharedMove
<1> QED BY <1>4, <1>5, <1>7, <1>8

\* The first message in its turn.
LEMMA FirstOf ==
  ASSUME NEW S, NEW q \in Seq(S), q # <<>>
  PROVE  /\ 1 \in DOMAIN q /\ Head(q) = q[1]
         /\ Len(q) = 1 => Tail(q) = <<>>
         /\ \A i \in DOMAIN Tail(q) :
              i \in Nat /\ i + 1 \in DOMAIN q /\ Tail(q)[i] = q[i + 1] /\ i + 1 # 1
<1>1. 1 \in DOMAIN q /\ Head(q) = q[1] OBVIOUS
<1>2. Tail(q) \in Seq(S) /\ Len(Tail(q)) = Len(q) - 1 OBVIOUS
<1>3. Len(q) = 1 => Tail(q) = <<>>
  <2> SUFFICES ASSUME Len(q) = 1 PROVE Tail(q) = <<>> OBVIOUS
  <2>1. Len(Tail(q)) = 0 BY <1>2
  <2> DEFINE w == Tail(q)
  <2>2. w \in Seq(S) /\ Len(w) = 0 BY <1>2, <2>1
  <2> HIDE DEF w
  <2>3. w = <<>> BY <2>2
  <2> QED BY <2>3 DEF w
<1>4. \A i \in DOMAIN Tail(q) :
        i \in Nat /\ i + 1 \in DOMAIN q /\ Tail(q)[i] = q[i + 1] /\ i + 1 # 1
  OBVIOUS
<1> QED BY <1>1, <1>3, <1>4

LEMMA LastOf ==
  ASSUME NEW S, NEW q \in Seq(S), NEW m
  PROVE  \A i \in DOMAIN Append(q, m) :
           \/ i \in DOMAIN q /\ Append(q, m)[i] = q[i]
           \/ i = Len(q) + 1 /\ Append(q, m)[i] = m
OBVIOUS

LEMMA SharedServed ==
  ASSUME Inv, AllShared, NEW c \in Client, ServeAuth(c) \/ ServeEvent(c) \/ ServeRepair(c)
  PROVE  AllShared'
<1> DEFINE s == session[c]
<1>1. /\ s \in SessionState /\ SocketOK(World, s) /\ Shared(s)
      /\ s.up \in Seq(UpMessage) /\ s.down \in Seq(DownMessage)
  BY DEF Inv, SessionOK, AllShared, SessionState
<1>2. s.up # <<>> => 1 \in DOMAIN s.up /\ Head(s.up) = s.up[1] BY <1>1, FirstOf
<1>3. CASE ServeAuth(c)
  <2> DEFINE ready == Message("ready", <<>>, 0, FALSE)
             taken == [s EXCEPT !.up = Tail(@), !.authenticated = "pending"]
             given == [s EXCEPT !.authenticated = "yes", !.down = Append(@, ready)]
  <2>1. CASE s.up # <<>> /\ Head(s.up).type = "auth" /\ Becomes(c, taken)
    <3>1. taken.up = Tail(s.up) /\ taken.down = s.down /\ taken.synced = s.synced
          /\ taken.inFlight = s.inFlight /\ taken.authenticated = "pending"
          /\ SameTransport(s, taken) /\ taken.socket = s.socket
      BY <1>1 DEF SessionState, SameTransport
    <3> HIDE DEF taken, s
    <3>2. s.authenticated = "no" BY <1>1, <1>2, <2>1 DEF SocketOK
    <3>3. Tail(s.up) = <<>> BY <1>1, <2>1, <3>2, FirstOf DEF Shared, Unheard
    <3>4. Shared(taken)
      BY <1>1, <3>1, <3>2, <3>3 DEF Shared, SameTransport, OnlySocket, Unheard
    <3> QED BY <2>1, <3>4, SharedMove
  <2>2. CASE s.authenticated = "pending" /\ Becomes(c, given)
    <3>1. given.up = s.up /\ given.down = Append(s.down, ready) /\ given.synced = s.synced
          /\ given.inFlight = s.inFlight /\ given.authenticated = "yes"
          /\ SameTransport(s, given) /\ given.socket = s.socket
      BY <1>1 DEF SessionState, SameTransport
    <3>2. ready.type = "ready" BY DEF Message
    <3> HIDE DEF ready, given, s
    <3>3. Unheard(s) /\ s.up = <<>> /\ s.down = <<>> BY <1>1, <2>2 DEF Shared, Unheard
    <3>4. \A i \in DOMAIN given.down : i = 1 /\ given.down[i] = ready
      BY <3>1, <3>3
    <3>5. Repairing(given) BY <3>1, <3>2, <3>3, <3>4 DEF Unheard, Repairing
    <3>6. Shared(given) BY <1>1, <3>1, <3>5 DEF Shared, SameTransport, OnlySocket
    <3> QED BY <2>2, <3>6, SharedMove
  <2>3. CASE s.up # <<>> /\ Head(s.up).type # "auth" /\ s.authenticated = "pending"
    <3> HIDE DEF s
    <3> QED BY <1>1, <2>3 DEF Shared, Unheard
  <2> QED BY <1>3, <2>1, <2>2, <2>3 DEF ServeAuth
<1>4. CASE ServeEvent(c)
  <2>1. PICK m : Becomes(c, Reply(s, m)) /\ m.type \in {"ack", "error"}
    <3>1. /\ \A q : Message("ack", q, 0, FALSE).type = "ack"
          /\ \A f : Message("error", <<>>, 0, f).type = "error"
      BY DEF Message
    <3> QED BY <1>4, <3>1 DEF ServeEvent
  <2> DEFINE t == Reply(s, m)
  <2>2. t.up = Tail(s.up) /\ t.down = Append(s.down, m) /\ t.synced = s.synced
        /\ t.inFlight = s.inFlight /\ t.authenticated = s.authenticated
        /\ SameTransport(s, t) /\ t.socket = s.socket
    BY <1>1 DEF SessionState, SameTransport, Reply
  <2>3. s.up # <<>> /\ s.authenticated = "yes" /\ Head(s.up).type = "event" BY <1>4 DEF ServeEvent
  <2> HIDE DEF t, s
  <2>4. Repaired(s) BY <1>1, <1>2, <2>3 DEF Shared, Repairing
  <2>5. \A i \in DOMAIN t.up : \E j \in DOMAIN s.up : t.up[i] = s.up[j]
    BY <1>1, <2>2, <2>3, FirstOf
  <2>6. \A i \in DOMAIN t.down : (i \in DOMAIN s.down /\ t.down[i] = s.down[i]) \/ t.down[i] = m
    BY <1>1, <2>2, LastOf
  <2>7. Repaired(t) BY <2>1, <2>2, <2>4, <2>5, <2>6 DEF Repaired, Quiet
  <2>8. Shared(t) BY <1>1, <2>2, <2>3, <2>7 DEF Shared, SameTransport, OnlySocket
  <2> QED BY <2>1, <2>8, SharedMove DEF t
<1>5. CASE ServeRepair(c)
  <2> DEFINE m == Page(Head(s.up).after)
             t == Reply(s, m)
  <2>1. Becomes(c, t) BY <1>5 DEF ServeRepair
  <2>2. m.type = "page" BY DEF Page, Message
  <2> HIDE DEF m
  <2>3. t.up = Tail(s.up) /\ t.down = Append(s.down, m) /\ t.synced = s.synced
        /\ t.inFlight = s.inFlight /\ t.authenticated = s.authenticated
        /\ SameTransport(s, t) /\ t.socket = s.socket
    BY <1>1 DEF SessionState, SameTransport, Reply
  <2>4. s.up # <<>> /\ s.authenticated = "yes" /\ Head(s.up).type = "repair" BY <1>5 DEF ServeRepair
  <2> HIDE DEF t, s
  <2>5. /\ Repairing(s) /\ Len(s.up) = 1 /\ Quiet(s) /\ s.socket = "ready"
    BY <1>1, <1>2, <2>4 DEF Shared, Repairing, Repaired
  <2>6. t.up = <<>> BY <1>1, <2>3, <2>4, <2>5, FirstOf
  <2>7. \A i \in DOMAIN t.down :
          \/ i \in DOMAIN s.down /\ t.down[i] = s.down[i]
          \/ i = Len(s.down) + 1 /\ t.down[i] = m
    BY <1>1, <2>3, LastOf
  <2>8. Repairing(t) BY <2>2, <2>3, <2>5, <2>6, <2>7 DEF Repairing, Quiet
  <2>9. Shared(t) BY <1>1, <2>3, <2>4, <2>8 DEF Shared, SameTransport, OnlySocket
  <2> QED BY <2>1, <2>9, SharedMove
<1> QED BY <1>3, <1>4, <1>5

LEMMA SharedDelivery == ASSUME Inv, AllShared, Deliver PROVE AllShared'
<1>1. PICK x \in bus :
        \/ Becomes(x.to, [session[x.to] EXCEPT
                            !.down = Append(@, Message("event", <<x.batch>>, 0, FALSE))])
        \/ UNCHANGED session
  BY DEF Deliver
<1> DEFINE c == x.to
           s == session[c]
           m == Message("event", <<x.batch>>, 0, FALSE)
           t == [s EXCEPT !.down = Append(@, m)]
<1>2. c \in Client /\ s.authenticated = "yes" BY DEF Inv, BusOK
<1>3. s \in SessionState /\ Shared(s) /\ s.down \in Seq(DownMessage)
  BY <1>2 DEF Inv, AllShared, SessionState
<1>4. CASE Becomes(c, t)
  <2>1. m.type = "event" BY DEF Message
  <2> HIDE DEF m
  <2>2. t.up = s.up /\ t.down = Append(s.down, m) /\ t.synced = s.synced
        /\ t.inFlight = s.inFlight /\ t.authenticated = s.authenticated
        /\ SameTransport(s, t) /\ t.socket = s.socket
    BY <1>3 DEF SessionState, SameTransport
  <2> HIDE DEF t, s
  <2>3. \A i \in DOMAIN t.down : (i \in DOMAIN s.down /\ t.down[i] = s.down[i]) \/ t.down[i] = m
    BY <1>3, <2>2, LastOf
  <2>4. Repairing(s) => Repairing(t) BY <2>1, <2>2, <2>3 DEF Repairing, Quiet
  <2>5. Repaired(s) => Repaired(t) BY <2>1, <2>2, <2>3 DEF Repaired, Quiet
  <2>6. Shared(t) BY <1>2, <1>3, <2>2, <2>4, <2>5 DEF Shared, SameTransport, OnlySocket
  <2> HIDE DEF c
  <2> QED BY <1>2, <1>4, <2>6, SharedMove
<1>5. CASE UNCHANGED session BY <1>5 DEF AllShared
<1> QED BY <1>1, <1>4, <1>5
\* What an event leaves behind: what the session did remains to be done.
LEMMA SharedAfter ==
  ASSUME NEW x \in SessionState, NEW t, Shared(x), x.down # <<>>, SameTransport(x, t),
         t.up = x.up, t.down = Tail(x.down), t.synced = x.synced, t.inFlight = x.inFlight,
         t.authenticated = x.authenticated, t.socket = x.socket
  PROVE  Shared(t)
<1>1. x.down \in Seq(DownMessage) BY DEF SessionState
<1>2. \A i \in DOMAIN t.down :
        i \in Nat /\ i + 1 \in DOMAIN x.down /\ t.down[i] = x.down[i + 1]
  BY <1>1, FirstOf
<1>3. x.authenticated = "yes" BY DEF Shared, Unheard
<1>4. Quiet(x) => Quiet(t) BY <1>2 DEF Quiet
<1>5. Repairing(x) => Repairing(t)
  <2> SUFFICES ASSUME Repairing(x) PROVE Repairing(t) OBVIOUS
  <2>1. ~t.synced /\ t.inFlight = {} /\ \A i \in DOMAIN t.down : t.down[i].type # "ack"
    BY <1>2 DEF Repairing
  <2>2. CASE Len(x.up) = 1 /\ x.up[1].type = "repair" /\ Quiet(x) /\ x.socket = "ready"
    BY <1>4, <2>1, <2>2 DEF Repairing
  <2>3. CASE /\ x.up = <<>>
             /\ \A i, j \in DOMAIN x.down :
                  x.down[i].type \in {"ready", "page"} /\ x.down[j].type \in {"ready", "page"} => i = j
             /\ \A i \in DOMAIN x.down : x.down[i].type = "page" => x.socket = "ready"
    <3>1. \A i, j \in DOMAIN t.down :
            t.down[i].type \in {"ready", "page"} /\ t.down[j].type \in {"ready", "page"}
              => i + 1 = j + 1
      BY <1>2, <2>3
    <3>2. \A i, j \in DOMAIN t.down : i + 1 = j + 1 => i = j BY <1>2
    <3>3. \A i \in DOMAIN t.down : t.down[i].type = "page" => t.socket = "ready" BY <1>2, <2>3
    <3> QED BY <2>1, <2>3, <3>1, <3>2, <3>3 DEF Repairing
  <2> QED BY <2>2, <2>3 DEF Repairing
<1>6. Repaired(x) => Repaired(t) BY <1>4 DEF Repaired
<1> QED BY <1>3, <1>5, <1>6 DEF Shared, SameTransport, OnlySocket

\* Ready and a page come when the session waits for nothing else.
LEMMA TurnOf ==
  ASSUME NEW x \in SessionState, Shared(x), x.down # <<>>
  PROVE  /\ x.authenticated = "yes" /\ OnlySocket(x)
         /\ Head(x.down).type \in {"ready", "page"} =>
              /\ x.up = <<>> /\ ~x.synced /\ x.inFlight = {}
              /\ \A i \in DOMAIN Tail(x.down) : Tail(x.down)[i].type \notin {"ready", "page", "ack"}
              /\ Head(x.down).type = "page" => x.socket = "ready"
         /\ Head(x.down).type = "ack" => Repaired(x)
<1>1. x.down \in Seq(DownMessage) BY DEF SessionState
<1>2. 1 \in DOMAIN x.down /\ Head(x.down) = x.down[1] BY <1>1, FirstOf
<1>3. \A i \in DOMAIN Tail(x.down) :
        i + 1 \in DOMAIN x.down /\ Tail(x.down)[i] = x.down[i + 1] /\ i + 1 # 1
  BY <1>1, FirstOf
<1>4. x.authenticated = "yes" BY DEF Shared, Unheard
<1>5. ASSUME Head(x.down).type \in {"ready", "page"}
      PROVE  /\ x.up = <<>> /\ ~x.synced /\ x.inFlight = {}
             /\ \A i \in DOMAIN Tail(x.down) : Tail(x.down)[i].type \notin {"ready", "page", "ack"}
             /\ Head(x.down).type = "page" => x.socket = "ready"
  <2>1. ~Quiet(x) BY <1>2, <1>5 DEF Quiet
  <2>2. Repairing(x) BY <1>4, <2>1 DEF Shared, Repaired
  <2>3. /\ x.up = <<>>
        /\ \A i, j \in DOMAIN x.down :
             x.down[i].type \in {"ready", "page"} /\ x.down[j].type \in {"ready", "page"} => i = j
        /\ \A i \in DOMAIN x.down : x.down[i].type = "page" => x.socket = "ready"
        /\ \A i \in DOMAIN x.down : x.down[i].type # "ack"
    BY <2>1, <2>2 DEF Repairing
  <2>4. \A i \in DOMAIN Tail(x.down) : Tail(x.down)[i].type \notin {"ready", "page", "ack"}
    BY <1>2, <1>3, <1>5, <2>3
  <2> QED BY <1>2, <2>2, <2>3, <2>4 DEF Repairing
<1>6. Head(x.down).type = "ack" => Repaired(x) BY <1>2, <1>4 DEF Shared, Repairing
<1> QED BY <1>4, <1>5, <1>6 DEF Shared

LEMMA RepairAsked ==
  ASSUME NEW x \in SessionState, NEW n, x.up = <<>>
  PROVE  LET t == RequestRepair(x, n)
         IN  /\ Len(t.up) = 1 /\ t.up[1].type = "repair" /\ SamePlace(x, t) /\ SameTransport(x, t)
             /\ t.inFlight = x.inFlight
<1> DEFINE m == [type |-> "repair", batches |-> <<>>, after |-> n]
           up == Append(x.up, m)
           t == [x EXCEPT !.up = up]
<1>1. RequestRepair(x, n) = t BY DEF RequestRepair
<1>2. m.type = "repair" OBVIOUS
<1> HIDE DEF m
<1>3. Len(up) = 1 /\ up[1] = m OBVIOUS
<1> HIDE DEF up
<1>4. t.up = up /\ SamePlace(x, t) /\ SameTransport(x, t) /\ t.inFlight = x.inFlight
  BY DEF SessionState, SamePlace, SameTransport
<1> HIDE DEF t
<1> QED BY <1>1, <1>2, <1>3, <1>4
\* Ready: the session has nothing to do but to ask.
LEMMA SharedReady ==
  ASSUME NEW s \in SessionState, OnlySocket(s), s.transport = "ws", s.authenticated = "yes",
         s.up = <<>>, s.inFlight = {},
         \A i \in DOMAIN s.down : s.down[i].type \notin {"ready", "page", "ack"}
  PROVE  Shared(ReceiveReady(s))
<1> DEFINE t == [s EXCEPT !.socket = "ready", !.fatal = FALSE, !.synced = FALSE]
           u == RequestRepair(t, s.cursor)
<1>1. /\ t \in SessionState /\ t.socket = "ready" /\ t.synced = FALSE /\ t.up = s.up
      /\ t.down = s.down /\ SameTransport(s, t) /\ t.inFlight = s.inFlight
      /\ t.authenticated = s.authenticated
  BY DEF SessionState, SameTransport
<1>2. ReceiveReady(s) = u BY DEF ReceiveReady
<1> HIDE DEF t
<1>3. /\ Len(u.up) = 1 /\ u.up[1].type = "repair" /\ SamePlace(t, u) /\ SameTransport(t, u)
      /\ u.inFlight = t.inFlight
  BY <1>1, RepairAsked
<1> HIDE DEF u
<1>4. Repairing(u) BY <1>1, <1>3 DEF SamePlace, Repairing, Quiet
<1>5. OnlySocket(u) BY <1>1, <1>3 DEF SamePlace, SameTransport, OnlySocket
<1> QED BY <1>1, <1>2, <1>3, <1>4, <1>5 DEF Shared, SamePlace

\* A page: the session asks for the next one, or starts to send.
LEMMA SharedPage ==
  ASSUME NEW s \in SessionState, OnlySocket(s), s.transport = "ws", s.authenticated = "yes",
         s.up = <<>>, s.inFlight = {}, ~s.synced, s.socket = "ready", NEW m \in DownMessage,
         \A i \in DOMAIN s.down : s.down[i].type \notin {"ready", "page", "ack"}
  PROVE  Shared(ReceivePage(s, m))
<1> DEFINE known == s.known \cup ToSet(m.batches)
           cursor == IF m.next > s.cursor THEN m.next ELSE s.cursor
           t == [s EXCEPT !.known = known, !.cursor = cursor]
           v == [t EXCEPT !.synced = TRUE, !.shown = TRUE]
           p == Publish(v)
           asked == RequestRepair(t, m.next)
           saved == [p EXCEPT !.status = "saved"]
           page == ReceivePage(s, m)
<1>1. known \in SUBSET Batches /\ cursor \in Nat BY DEF SessionState, DownMessage, ToSet
<1>2. t = [Apply(s, m.batches) EXCEPT !.cursor = IF m.next > @ THEN m.next ELSE @]
  BY DEF SessionState, Apply
<1>3. (page = asked /\ ~m.flag) \/ (page \in {saved, p} /\ m.flag)
  BY <1>2 DEF ReceivePage
<1> HIDE DEF known, cursor, page
<1>4. /\ t \in SessionState /\ t.up = s.up /\ t.down = s.down /\ t.synced = s.synced
      /\ t.socket = s.socket /\ t.inFlight = s.inFlight /\ t.authenticated = s.authenticated
      /\ SameTransport(s, t)
  BY <1>1 DEF SessionState, SameTransport
<1> HIDE DEF t
<1>5. /\ v \in SessionState /\ v.up = t.up /\ v.down = t.down /\ v.synced = TRUE
      /\ v.socket = t.socket /\ v.inFlight = t.inFlight /\ v.authenticated = t.authenticated
      /\ v.transport = t.transport /\ v.loading = t.loading /\ v.saveTimer = t.saveTimer
      /\ v.saves = t.saves /\ v.http = t.http
  BY <1>4 DEF SessionState
<1> HIDE DEF v
<1>6. Shared(v)
  <2>1. OnlySocket(v) BY <1>4, <1>5 DEF OnlySocket, SameTransport
  <2>2. Repaired(v) BY <1>4, <1>5 DEF Repaired, Quiet
  <2> QED BY <2>1, <2>2, <1>4, <1>5 DEF Shared
<1>7. Sends(v, Flush(v)) /\ Sends(v, [Flush(v) EXCEPT !.status = "saved"])
      /\ Sends(v, [Flush(v) EXCEPT !.status = "saving"])
  BY <1>5, FlushSends
<1>8. p \in {Flush(v), [Flush(v) EXCEPT !.status = "saving"]} BY <1>5 DEF Publish
<1> DEFINE f == Flush(v)
<1>9. [[f EXCEPT !.status = "saving"] EXCEPT !.status = "saved"] = [f EXCEPT !.status = "saved"]
  OBVIOUS
<1> HIDE DEF p
<1>10. Sends(v, p) /\ Sends(v, saved) BY <1>7, <1>8, <1>9
<1>11. Shared(p) /\ Shared(saved) BY <1>5, <1>6, <1>10, SendsShared
<1>12. Shared(asked)
  <2>1. /\ Len(asked.up) = 1 /\ asked.up[1].type = "repair" /\ SamePlace(t, asked)
        /\ SameTransport(t, asked) /\ asked.inFlight = t.inFlight
    BY <1>4, RepairAsked
  <2> HIDE DEF asked
  <2>2. Repairing(asked) BY <1>4, <2>1 DEF SamePlace, Repairing, Quiet
  <2>3. OnlySocket(asked) BY <1>4, <2>1 DEF SamePlace, SameTransport, OnlySocket
  <2> QED BY <1>4, <2>1, <2>2, <2>3 DEF Shared, SamePlace
<1> HIDE DEF asked, saved
<1> QED BY <1>3, <1>11, <1>12 DEF page

\* An acknowledgement: what is left may be sent.
LEMMA SharedAck ==
  ASSUME NEW s \in SessionState, Shared(s), s.authenticated = "yes", Repaired(s), NEW m
  PROVE  Shared(ReceiveAck(s, m))
<1> DEFINE ids == ToSet(m.batches)
           rest == Without(s.pending, ids)
           left == s.inFlight \ ids
           t == [s EXCEPT !.pending = rest, !.inFlight = left]
           a == Flush(t)
           ack == ReceiveAck(s, m)
<1>1. a = Acknowledge(s, ids) BY DEF Acknowledge
<1>2. ack \in {a, [a EXCEPT !.status = "saved"], [a EXCEPT !.status = "saving"]}
  BY <1>1 DEF ReceiveAck
<1>3. rest \in Seq(Batches) /\ left \in SUBSET Batches
  <2>1. s.pending \in Seq(Batches) /\ s.inFlight \in SUBSET Batches BY DEF SessionState
  <2> QED BY <2>1, WithoutSet
<1> HIDE DEF rest, left, ids
<1>4. /\ t \in SessionState /\ SameTransport(s, t) /\ t.up = s.up /\ t.down = s.down
      /\ t.synced = s.synced /\ t.socket = s.socket /\ t.authenticated = s.authenticated
  BY <1>3 DEF SessionState, SameTransport
<1> HIDE DEF t
<1>5. Repaired(t) BY <1>4 DEF Repaired, Quiet
<1>6. Shared(t) BY <1>4, <1>5 DEF Shared, SameTransport, OnlySocket
<1>7. Sends(t, a) /\ Sends(t, [a EXCEPT !.status = "saved"]) /\ Sends(t, [a EXCEPT !.status = "saving"])
  BY <1>4, <1>5, FlushSends DEF Repaired
<1> HIDE DEF a, ack
<1>8. Sends(t, ack) BY <1>2, <1>7
<1> QED BY <1>4, <1>6, <1>8, SendsShared DEF ack

LEMMA SharedReceive == ASSUME Inv, AllShared, NEW c \in Client, Receive(c) PROVE AllShared'
<1> DEFINE x == session[c]
           m == Head(x.down)
           s == [x EXCEPT !.down = Tail(@)]
           ready == ReceiveReady(s)
           page == ReceivePage(s, m)
           event == Apply(s, m.batches)
           ack == ReceiveAck(s, m)
           refused == [Disconnected(s) EXCEPT !.fatal = m.flag]
<1>1. /\ x \in SessionState /\ x.down # <<>> /\ Shared(x) /\ x.down \in Seq(DownMessage)
  BY DEF Inv, AllShared, Receive, SessionState
<1>2. m \in DownMessage /\ m.type \in {"ready", "page", "event", "ack", "error"}
  <2>1. m \in DownMessage
    <3> DEFINE down == x.down
    <3>1. down \in Seq(DownMessage) /\ down # <<>> BY <1>1
    <3> HIDE DEF down
    <3>2. Head(down) \in DownMessage BY <3>1, FirstOf
    <3> QED BY <3>2 DEF down
  <2> QED BY <2>1 DEF DownMessage
<1>3. Becomes(c, CASE m.type = "ready" -> ready
                   [] m.type = "page" -> page
                   [] m.type = "event" -> event
                   [] m.type = "ack" -> ack
                   [] m.type = "error" -> refused)
  BY DEF Receive
<1>4. /\ s.down = Tail(x.down) /\ s.up = x.up /\ s.synced = x.synced /\ s.inFlight = x.inFlight
      /\ s.authenticated = x.authenticated /\ s.socket = x.socket /\ SameTransport(x, s)
  BY <1>1 DEF SessionState, SameTransport
<1>5. s \in SessionState
  <2> DEFINE down == Tail(x.down)
  <2>1. down \in Seq(DownMessage) BY <1>1 DEF SessionState
  <2>2. s = [x EXCEPT !.down = down] OBVIOUS
  <2> HIDE DEF down, s
  <2> QED BY <1>1, <2>1, <2>2 DEF SessionState
<1>6. /\ x.authenticated = "yes" /\ OnlySocket(x)
      /\ m.type \in {"ready", "page"} =>
           /\ x.up = <<>> /\ ~x.synced /\ x.inFlight = {}
           /\ \A i \in DOMAIN Tail(x.down) : Tail(x.down)[i].type \notin {"ready", "page", "ack"}
           /\ m.type = "page" => x.socket = "ready"
      /\ m.type = "ack" => Repaired(x)
  BY <1>1, TurnOf
<1>7. x.transport = "ws" BY <1>1, <1>6 DEF Inv, SessionOK, SocketOK, OnlySocket
<1> HIDE DEF x, m, s
<1>8. OnlySocket(s) /\ s.transport = "ws"
  BY <1>4, <1>6, <1>7 DEF OnlySocket, SameTransport
<1>9. m.type = "ready" => Shared(ready)
  BY <1>4, <1>5, <1>6, <1>8, SharedReady
<1>10. m.type = "page" => Shared(page)
  BY <1>2, <1>4, <1>5, <1>6, <1>8, SharedPage
<1>11. Shared(s) BY <1>1, <1>4, SharedAfter
<1>12. Shared(event)
  <2>1. /\ event.down = s.down /\ event.up = s.up /\ event.synced = s.synced
        /\ event.inFlight = s.inFlight /\ event.authenticated = s.authenticated
        /\ event.socket = s.socket /\ SameTransport(s, event)
    BY <1>5 DEF Apply, SessionState, SameTransport
  <2> HIDE DEF event
  <2> QED BY <1>11, <2>1 DEF Shared, SameTransport, OnlySocket, Unheard, Repairing, Repaired, Quiet
<1>13. m.type = "ack" => Shared(ack)
  <2>1. Repaired(x) => Repaired(s)
    <3>1. \A i \in DOMAIN s.down : \E j \in DOMAIN x.down : s.down[i] = x.down[j]
      BY <1>1, <1>4, FirstOf
    <3> QED BY <1>4, <3>1 DEF Repaired, Quiet
  <2> QED BY <1>4, <1>5, <1>6, <1>11, <2>1, SharedAck
<1>14. Shared(refused) BY <1>5, <1>8, DisconnectedShared
<1> HIDE DEF ready, page, event, ack, refused
<1>15. PICK t : Becomes(c, t) /\ Shared(t)
  BY <1>2, <1>3, <1>9, <1>10, <1>12, <1>13, <1>14
<1> QED BY <1>15, SharedMove

LEMMA AllSharedInit == Init => AllShared
<1>1. Shared(NewSession) BY DEF NewSession, Shared, OnlySocket, Unheard
<1> QED BY <1>1 DEF Init, AllShared

LEMMA AllSharedNext == NoLateAnswer /\ Inv /\ AllShared /\ [Next]_vars => AllShared'
<1> SUFFICES ASSUME NoLateAnswer, Inv, AllShared, [Next]_vars PROVE AllShared' OBVIOUS
<1>1. CASE UNCHANGED vars BY <1>1 DEF vars, AllShared
<1>2. CASE ServeOrphan BY <1>2 DEF ServeOrphan, AllShared
<1>3. ASSUME NEW c \in Client, SessionStep(c) PROVE AllShared'
  BY <1>3, SharedLocally, SharedSaves, SharedReceive DEF SessionStep
<1>4. ASSUME NEW c \in Client, ServerStep(c) PROVE AllShared'
  BY <1>4, SharedSaves, SharedServed DEF ServerStep
<1> QED BY <1>1, <1>2, <1>3, <1>4, SharedLocally, SharedSaves, SharedDelivery DEF Next

\* "After reconnect, the session repairs first, then exact-resends pending
\* batches": from Ready to the last page the session asks and the room answers,
\* one message at a time, and publishWsPending waits for synced.  One thing can
\* break this, and acknowledgePending is where: the answer of an HTTP save that
\* comes after setShared flushes the queue on a socket that is not repaired yet.
THEOREM RepairComesFirst == Spec /\ []NoLateAnswer => []RepairsFirst
<1>1. ASSUME Inv, AllShared PROVE RepairsFirst
  <2> SUFFICES ASSUME NEW c \in Client, session[c].inFlight # {}
               PROVE  /\ session[c].socket = "ready"
                      /\ \A m \in ToSet(session[c].up) : m.type # "repair"
                      /\ \A m \in ToSet(session[c].down) : m.type # "page"
    BY DEF RepairsFirst
  <2>1. Repaired(session[c]) BY <1>1 DEF AllShared, Shared, Unheard, Repairing
  <2> QED BY <2>1 DEF Repaired, Quiet, ToSet
<1>2. Spec /\ []NoLateAnswer => []AllShared
  BY InvInit, InvNext, AllSharedInit, AllSharedNext, PTL DEF Spec
<1> QED BY <1>1, <1>2, InvAlways, PTL
=============================================================================
