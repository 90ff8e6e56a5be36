------------------------- MODULE PresenceRoomProofs -------------------------
(***************************************************************************)
(* Theorems about PresenceRoom.                                            *)
(*                                                                         *)
(* The invariant has three parts: what holds of a peer by itself, PeerOK;  *)
(* what relates a peer to the room, to the service of leases and to the    *)
(* two locks; and how far close has come.  Most actions move one peer:     *)
(* RoomStep says what such a step may do, and the lemmas about actions     *)
(* show that each one is such a step.  Those that only queue jobs, for one *)
(* peer or for many, leave every peer where it is: Quiet.                  *)
(*                                                                         *)
(* Who is shown needs a second invariant, ViewInv: a connection that some  *)
(* peer still sees is covered, because its own peer has its Leave ahead,   *)
(* or is a session, or, where rooms hibernate, because the record in the   *)
(* store or a Leave that is due stands in for it.  ViewStep and Quieter    *)
(* say of a step what RoomStep and Quiet say for RoomInv.                  *)
(***************************************************************************)
EXTENDS PresenceRoom, TLAPS, FiniteSetTheorems

-----------------------------------------------------------------------------
(* The invariant of a peer.                                                *)

SetupPoints == {"authorize", "recheck", "acquire", "fanout-lock", "drop-stale", "subscribe"}
ReleasePoints == {"release-lock", "unsubscribe", "lease-release"}
ResetPoints == ReleasePoints \cup {"member-remove", "publish-leave"}
ServePoints ==
  {"refresh", "maintain", "set-joined", "join-lease", "publish-join", "list",
   "publish-leaves", "refresh-lease", "refresh-member", "get-member", "set-updated",
   "update-lease", "publish-update"}
IdlePoints == {"none", "start"}

\* Whoever is at one of these holds the fan-out lock.
HoldPoints == {"drop-stale", "subscribe", "unsubscribe"}

Setup == {"auth", "resume"}
Removals == {"reset", "swept", "closed"}

\* Where the running job is suspended, and whether a job of a kind is queued.
Pt(s) == IF s.queue = <<>> THEN "none" ELSE s.queue[1].at
Has(s, kind) == \E i \in DOMAIN s.queue : s.queue[i].kind = kind

\* The fan-out count, and the service of leases, may still know the peer.
Counts(s) == s.fanoutRetained \/ Pt(s) = "release-lock"
HasLease(s) == s.lease \/ Pt(s) = "lease-release"

JobOK(j) ==
  /\ j.kind \in Setup => j.at \in SetupPoints \cup ResetPoints
  /\ j.kind \in Removals => j.at \in ResetPoints \cup {"start"}

\* Only the job at the head has begun.
QueueOK(q) == \A i \in DOMAIN q : JobOK(q[i]) /\ (i > 1 => q[i].at = "start")

\* Which jobs a peer may have, by its phase.
PhaseOK(s) ==
  /\ s.phase \in {"absent", "asleep"} => s.queue = <<>>
  /\ s.phase = "connected" /\ s.queue # <<>> => s.leaveRequested
  /\ \A kind \in Removals : Has(s, kind) => s.leaveRequested

\* What a peer may hold, by its phase and by where its job is.
HeldOK(s) ==
  /\ s.fanoutRetained => Active(s)
  /\ s.lease => Active(s) \/ s.phase = "authenticating"
  /\ Pt(s) \in SetupPoints => s.phase = "authenticating"
  /\ Pt(s) \in {"authorize", "recheck"} => ~s.lease
  /\ Pt(s) \in ResetPoints => s.leaveRequested /\ ~s.fanoutRetained
  /\ Pt(s) \in ReleasePoints => InMap(s)
  /\ Pt(s) \in {"lease-release", "member-remove", "publish-leave"} => ~s.lease

PeerOK(s) == s \in PeerState /\ QueueOK(s.queue) /\ PhaseOK(s) /\ HeldOK(s)

-----------------------------------------------------------------------------
(* The invariant of the room.                                              *)

LockOK == \A p \in Peer : Pt(peer[p]) \in HoldPoints => HoldsLock(p)

Retaining == {p \in Peer : Counts(peer[p])}
CountOK ==
  closing \in {"open", "draining"} =>
    IsFiniteSet(Retaining) /\ retainers = Cardinality(Retaining)

LeasesOK == \A p \in leases : HasLease(peer[p])

\* A peer that has no lease, and will not ask for one once the room is closing.
Settled(s) ==
  ~HasLease(s) /\ Pt(s) \notin {"acquire", "fanout-lock", "drop-stale", "subscribe"}

CloseOK ==
  /\ closing # "open" => \A p \in Peer : Has(peer[p], "closed") \/ Settled(peer[p])
  /\ closing \in {"lock", "closed"} => \A p \in Peer : ~Has(peer[p], "closed")
  /\ faults \in Nat
  /\ closing = "closed" /\ subscription => faults > 0

\* A sweep of a message has its peer wait for it, and a peer waits for one sweep.
SweepsOK ==
  /\ \A i \in DOMAIN maintenance :
       maintenance[i].by # Alarm => Pt(peer[maintenance[i].by]) = "maintain"
  /\ \A i, j \in DOMAIN maintenance :
       maintenance[i].by = maintenance[j].by /\ maintenance[i].by # Alarm => i = j

\* Who waits for the maintenance lock is not overdue, and no sweep removes it.
Fresh(s) == Pt(s) = "maintain" => s.heartbeat # "overdue" /\ ~Has(s, "swept")
WaitOK == host.slow \/ \A p \in Peer : Fresh(peer[p])

PeersOK == \A p \in Peer : PeerOK(peer[p])

RoomInv ==
  TypeOK /\ PeersOK /\ LockOK /\ CountOK /\ LeasesOK /\ CloseOK /\ SweepsOK /\ WaitOK

-----------------------------------------------------------------------------
(* Queues of jobs.                                                         *)

\* t is s, but for the queue.
SameRest(s, t) ==
  /\ t.phase = s.phase /\ t.leaveRequested = s.leaveRequested
  /\ t.fanoutRetained = s.fanoutRetained /\ t.lease = s.lease
  /\ t.connectionId = s.connectionId /\ t.identity = s.identity /\ t.joined = s.joined
  /\ t.heartbeat = s.heartbeat /\ t.open = s.open /\ t.released = s.released

LEMMA HeadIsJob ==
  ASSUME NEW s \in PeerState, s.queue # <<>>
  PROVE  /\ Running(s) = s.queue[1] /\ s.queue[1] \in Job
         /\ 1 \in DOMAIN s.queue /\ s.queue \in Seq(Job)
BY DEF PeerState, Running

\* The head of the queue is rewritten.
LEMMA SetHead ==
  ASSUME NEW s \in PeerState, s.queue # <<>>, NEW j \in Job, j.kind = s.queue[1].kind,
         QueueOK(s.queue), JobOK(j)
  PROVE  LET t == [s EXCEPT !.queue = [s.queue EXCEPT ![1] = j]] IN
         /\ t \in PeerState /\ SameRest(s, t) /\ QueueOK(t.queue) /\ t.queue # <<>>
         /\ t.queue[1] = j
         /\ \A kind : Has(t, kind) <=> Has(s, kind)
<1> DEFINE r == [s.queue EXCEPT ![1] = j]
           t == [s EXCEPT !.queue = r]
<1>1. s.queue \in Seq(Job) /\ 1 \in DOMAIN s.queue BY HeadIsJob
<1>2. /\ r \in Seq(Job) /\ r # <<>> /\ DOMAIN r = DOMAIN s.queue /\ r[1] = j
      /\ \A i \in DOMAIN s.queue : i # 1 => r[i] = s.queue[i]
  BY <1>1
<1> HIDE DEF r
<1>3. t \in PeerState /\ SameRest(s, t) /\ t.queue = r BY <1>2 DEF PeerState, SameRest
<1> HIDE DEF t
<1>4. \A i \in DOMAIN r : r[i].kind = s.queue[i].kind BY <1>2
<1>5. \A kind : Has(t, kind) <=> Has(s, kind) BY <1>2, <1>3, <1>4 DEF Has
<1>6. QueueOK(r)
  <2> SUFFICES ASSUME NEW i \in DOMAIN r PROVE JobOK(r[i]) /\ (i > 1 => r[i].at = "start")
    BY DEF QueueOK
  <2>1. CASE i = 1 BY <2>1, <1>2
  <2>2. CASE i # 1 BY <2>2, <1>2 DEF QueueOK
  <2> QED BY <2>1, <2>2
<1> QED BY <1>2, <1>3, <1>5, <1>6 DEF t, r

\* The running job goes on to another await.
LEMMA GotoIs ==
  ASSUME NEW s \in PeerState, s.queue # <<>>, QueueOK(s.queue), NEW point \in Points,
         s.queue[1].kind \in Setup => point \in SetupPoints \cup ResetPoints,
         s.queue[1].kind \in Removals => point \in ResetPoints \cup {"start"}
  PROVE  LET t == Goto(s, point) IN
         /\ t \in PeerState /\ SameRest(s, t) /\ QueueOK(t.queue) /\ t.queue # <<>>
         /\ Pt(t) = point
         /\ t.queue[1].kind = s.queue[1].kind
         /\ \A kind : Has(t, kind) <=> Has(s, kind)
<1> DEFINE j == [s.queue[1] EXCEPT !.at = point]
           t == [s EXCEPT !.queue = [s.queue EXCEPT ![1] = j]]
<1>1. s.queue[1] \in Job /\ 1 \in DOMAIN s.queue BY HeadIsJob
<1>2. j \in Job /\ j.at = point /\ j.kind = s.queue[1].kind BY <1>1 DEF Job
<1>3. JobOK(j) BY <1>2 DEF JobOK
<1>4. Goto(s, point) = t BY DEF Goto
<1> HIDE DEF j
<1>5. /\ t \in PeerState /\ SameRest(s, t) /\ QueueOK(t.queue) /\ t.queue # <<>>
      /\ t.queue[1] = j
      /\ \A kind : Has(t, kind) <=> Has(s, kind)
  BY <1>2, <1>3, SetHead
<1> HIDE DEF t
<1>6. Pt(t) = point /\ t.queue[1].kind = s.queue[1].kind BY <1>2, <1>5 DEF Pt
<1> QED BY <1>4, <1>5, <1>6

\* The running job is done, and the next one is at its start.
LEMMA DoneIs ==
  ASSUME NEW s \in PeerState, s.queue # <<>>, QueueOK(s.queue)
  PROVE  LET t == Done(s) IN
         /\ t \in PeerState /\ SameRest(s, t) /\ QueueOK(t.queue)
         /\ Pt(t) \in IdlePoints
         /\ \A kind : Has(t, kind) => Has(s, kind)
         /\ \A kind : Has(s, kind) /\ kind # s.queue[1].kind => Has(t, kind)
<1> DEFINE r == Tail(s.queue)
           t == [s EXCEPT !.queue = r]
<1>1. s.queue \in Seq(Job) /\ 1 \in DOMAIN s.queue BY HeadIsJob
<1>2. /\ r \in Seq(Job) /\ DOMAIN r = 1 .. (Len(s.queue) - 1) /\ Len(s.queue) \in Nat
      /\ DOMAIN s.queue = 1 .. Len(s.queue)
      /\ \A i \in DOMAIN r : r[i] = s.queue[i + 1]
      /\ r # <<>> => 1 \in DOMAIN r
  BY <1>1
<1>3. \A i \in DOMAIN r : i \in Nat /\ i + 1 \in DOMAIN s.queue /\ i + 1 > 1 BY <1>2
<1>4. \A i \in DOMAIN s.queue : i # 1 => i - 1 \in DOMAIN r /\ r[i - 1] = s.queue[i] BY <1>2
<1> HIDE DEF r
<1>5. t \in PeerState /\ SameRest(s, t) /\ t.queue = r BY <1>2 DEF PeerState, SameRest
<1>6. Done(s) = t BY DEF Done, r
<1> HIDE DEF t
<1>7. \A i \in DOMAIN r : JobOK(r[i]) /\ r[i].at = "start" BY <1>2, <1>3 DEF QueueOK
<1>8. QueueOK(t.queue) BY <1>5, <1>7 DEF QueueOK
<1>9. Pt(t) \in IdlePoints BY <1>2, <1>5, <1>7 DEF Pt, IdlePoints
<1>10. \A kind : Has(t, kind) => Has(s, kind) BY <1>2, <1>3, <1>5 DEF Has
<1>11. \A kind : Has(s, kind) /\ kind # s.queue[1].kind => Has(t, kind) BY <1>4, <1>5 DEF Has
<1> QED BY <1>5, <1>6, <1>8, <1>9, <1>10, <1>11

\* A job is queued: behind the others, or as the first await of a setup.
LEMMA EnqueueIs ==
  ASSUME NEW s \in PeerState, QueueOK(s.queue), NEW kind, NEW point,
         \/ kind \in Requests \cup Removals /\ point = "start"
         \/ kind \in Setup /\ point \in SetupPoints /\ s.queue = <<>>
  PROVE  LET t == Enqueue(s, kind, point) IN
         /\ t \in PeerState /\ SameRest(s, t) /\ QueueOK(t.queue) /\ t.queue # <<>>
         /\ Pt(t) = IF s.queue = <<>> THEN point ELSE Pt(s)
         /\ \A other : Has(t, other) <=> Has(s, other) \/ other = kind
<1> DEFINE j == [kind |-> kind, at |-> point, leaves |-> {}]
           r == Append(s.queue, j)
           n == Len(s.queue)
           t == [s EXCEPT !.queue = r]
<1>1. j \in Job BY DEF Job, Requests, Removals, Setup, SetupPoints, Points
<1>2. j.kind = kind /\ j.at = point OBVIOUS
<1>3. JobOK(j) BY <1>2 DEF JobOK, Requests, Removals, Setup
<1> HIDE DEF j
<1>4. s.queue \in Seq(Job) BY DEF PeerState
<1>5. /\ r \in Seq(Job) /\ r # <<>> /\ n \in Nat
      /\ DOMAIN r = 1 .. (n + 1) /\ DOMAIN s.queue = 1 .. n
      /\ r[n + 1] = j /\ \A i \in 1 .. n : r[i] = s.queue[i]
      /\ s.queue = <<>> <=> n = 0
  BY <1>1, <1>4
<1> HIDE DEF r, n
<1>6. t \in PeerState /\ SameRest(s, t) /\ t.queue = r BY <1>5 DEF PeerState, SameRest
<1>7. Enqueue(s, kind, point) = t BY DEF Enqueue, r, j
<1> HIDE DEF t
<1>8. QueueOK(r)
  <2> SUFFICES ASSUME NEW i \in DOMAIN r PROVE JobOK(r[i]) /\ (i > 1 => r[i].at = "start")
    BY DEF QueueOK
  <2>1. CASE i \in 1 .. n BY <2>1, <1>5 DEF QueueOK
  <2>2. CASE i = n + 1
    <3>1. n > 0 => point = "start" BY <1>5
    <3> QED BY <2>2, <3>1, <1>2, <1>3, <1>5
  <2> QED BY <2>1, <2>2, <1>5
<1>9. Pt(t) = IF s.queue = <<>> THEN point ELSE Pt(s) BY <1>2, <1>5, <1>6 DEF Pt
<1>10. ASSUME NEW other PROVE Has(t, other) <=> Has(s, other) \/ other = kind
  <2>1. Has(t, other) => Has(s, other) \/ other = kind BY <1>2, <1>5, <1>6 DEF Has
  <2>2. Has(s, other) => Has(t, other) BY <1>5, <1>6 DEF Has
  <2>3. n + 1 \in DOMAIN r BY <1>5
  <2>4. other = kind => Has(t, other) BY <2>3, <1>2, <1>5, <1>6 DEF Has
  <2> QED BY <2>1, <2>2, <2>4
<1> QED BY <1>5, <1>6, <1>7, <1>8, <1>9, <1>10

\* The head of a queue is a job that the peer has, and without jobs it has none.
LEMMA HasHead ==
  ASSUME NEW s \in PeerState
  PROVE  /\ s.queue # <<>> => Has(s, s.queue[1].kind)
         /\ s.queue = <<>> => \A kind : ~Has(s, kind)
         /\ Pt(s) = "none" <=> s.queue = <<>>
         /\ s.queue # <<>> => Pt(s) = s.queue[1].at
<1>1. s.queue = <<>> => \A kind : ~Has(s, kind) BY DEF Has
<1>2. s.queue # <<>> => Has(s, s.queue[1].kind) /\ s.queue[1].at \in Points
  BY HeadIsJob DEF Has, Job
<1>3. "none" \notin Points BY DEF Points
<1> QED BY <1>1, <1>2, <1>3 DEF Pt

-----------------------------------------------------------------------------
(* The parts of resetState.                                                *)

\* A state in which a job may reset its peer, and the fan-out is given up.
Leaves(s) ==
  /\ s \in PeerState /\ s.queue # <<>> /\ QueueOK(s.queue)
  /\ s.leaveRequested /\ ~s.fanoutRetained
  /\ s.phase \notin {"absent", "asleep"}
  /\ s.lease => Active(s) \/ s.phase = "authenticating"

\* What a reset comes to, from one await to the next.
ResetTo(s, t) ==
  /\ PeerOK(t) /\ ~t.fanoutRetained
  /\ Pt(t) \in IdlePoints \cup (ResetPoints \ {"unsubscribe"})
  /\ Pt(t) \in IdlePoints => ~t.lease
  /\ HasLease(t) <=> s.lease
  /\ Pt(t) = "release-lock" <=> s.fanoutRetained
  /\ \A kind : Has(t, kind) => Has(s, kind)
  /\ \A kind : Has(s, kind) => Has(t, kind) \/ (~HasLease(t) /\ Pt(t) \in IdlePoints)

\* The next await of a reset is a legal place for its peer.
LEMMA ResetGoto ==
  ASSUME NEW s, Leaves(s), NEW point \in ResetPoints \ {"unsubscribe", "release-lock"}, ~s.lease,
         point = "lease-release" => InMap(s)
  PROVE  LET t == Goto(s, point) IN
         /\ PeerOK(t) /\ ~t.fanoutRetained /\ ~t.lease /\ Pt(t) = point
         /\ \A kind : Has(t, kind) <=> Has(s, kind)
<1> DEFINE t == Goto(s, point)
<1>1. point \in Points BY DEF ResetPoints, ReleasePoints, Points
<1>2. /\ t \in PeerState /\ SameRest(s, t) /\ QueueOK(t.queue) /\ t.queue # <<>>
      /\ Pt(t) = point
      /\ \A kind : Has(t, kind) <=> Has(s, kind)
  BY <1>1, GotoIs DEF Leaves
<1> HIDE DEF t
<1>3. PhaseOK(t) BY <1>2 DEF PhaseOK, SameRest, Leaves
<1>4. HeldOK(t)
  BY <1>2 DEF HeldOK, SameRest, Leaves, ResetPoints, ReleasePoints, SetupPoints, InMap, Active
<1> QED BY <1>2, <1>3, <1>4 DEF PeerOK, SameRest, Leaves, t

LEMMA FinishResetIs ==
  ASSUME NEW s, Leaves(s), ~s.lease PROVE ResetTo(s, FinishReset(s))
<1> DEFINE u == [s EXCEPT !.connectionId = FALSE, !.phase = "left"]
           t == Done(u)
<1>1. /\ u \in PeerState /\ u.queue = s.queue /\ u.phase = "left" /\ u.leaveRequested
      /\ ~u.fanoutRetained /\ ~u.lease
  BY DEF Leaves, PeerState, Phases
<1>2. \A kind : Has(u, kind) <=> Has(s, kind) BY <1>1 DEF Has
<1>3. FinishReset(s) = t BY DEF FinishReset
<1> HIDE DEF u
<1>4. /\ t \in PeerState /\ SameRest(u, t) /\ QueueOK(t.queue)
      /\ Pt(t) \in IdlePoints
      /\ \A kind : Has(t, kind) => Has(u, kind)
  BY <1>1, DoneIs DEF Leaves
<1> HIDE DEF t
<1>5. /\ t.phase = "left" /\ t.leaveRequested /\ ~t.fanoutRetained /\ ~t.lease
  BY <1>1, <1>4 DEF SameRest
<1>6. PhaseOK(t) BY <1>5 DEF PhaseOK
<1>7. HeldOK(t)
  BY <1>4, <1>5 DEF HeldOK, IdlePoints, SetupPoints, ResetPoints, ReleasePoints
<1>8. PeerOK(t) BY <1>4, <1>6, <1>7 DEF PeerOK
<1> QED
  BY <1>2, <1>3, <1>4, <1>5, <1>8
  DEF ResetTo, Leaves, HasLease, IdlePoints, ResetPoints, ReleasePoints

LEMMA AfterRemovalIs ==
  ASSUME NEW s, Leaves(s), ~s.lease, NEW removed PROVE ResetTo(s, AfterRemoval(s, removed))
<1> DEFINE u == [s EXCEPT !.identity = FALSE, !.joined = FALSE, !.heartbeat = "none"]
<1>1. /\ u \in PeerState /\ u.queue = s.queue /\ u.phase = s.phase
      /\ u.leaveRequested = s.leaveRequested
      /\ u.fanoutRetained = s.fanoutRetained /\ u.lease = s.lease
  BY DEF Leaves, PeerState
<1>2. \A kind : Has(u, kind) <=> Has(s, kind) BY <1>1 DEF Has
<1>3. AfterRemoval(s, removed) \in {Goto(u, "publish-leave"), FinishReset(u)} BY DEF AfterRemoval
<1> HIDE DEF u
<1>4. Leaves(u) BY <1>1 DEF Leaves, Active
<1>5. ResetTo(u, FinishReset(u)) BY <1>1, <1>4, FinishResetIs
<1> DEFINE t == Goto(u, "publish-leave")
<1>6. "publish-leave" \in ResetPoints \ {"unsubscribe", "release-lock"}
  BY DEF ResetPoints, ReleasePoints
<1>7. /\ PeerOK(t) /\ ~t.fanoutRetained /\ ~t.lease /\ Pt(t) = "publish-leave"
      /\ \A kind : Has(t, kind) <=> Has(u, kind)
  BY <1>1, <1>4, <1>6, ResetGoto
<1> HIDE DEF t
<1>8. ResetTo(u, t) BY <1>1, <1>6, <1>7 DEF ResetTo, Leaves, HasLease, IdlePoints
<1>9. \A v : ResetTo(u, v) => ResetTo(s, v) BY <1>1, <1>2 DEF ResetTo
<1> QED BY <1>3, <1>5, <1>8, <1>9 DEF t

LEMMA RemoveMemberIs ==
  ASSUME NEW s, Leaves(s), ~s.lease PROVE ResetTo(s, RemoveMember(s))
<1> DEFINE t == Goto(s, "member-remove")
<1>1. "member-remove" \in ResetPoints \ {"unsubscribe", "release-lock"}
  BY DEF ResetPoints, ReleasePoints
<1>2. /\ PeerOK(t) /\ ~t.fanoutRetained /\ ~t.lease /\ Pt(t) = "member-remove"
      /\ \A kind : Has(t, kind) <=> Has(s, kind)
  BY <1>1, ResetGoto
<1>3. ResetTo(s, AfterRemoval(s, FALSE)) BY AfterRemovalIs
<1>4. RemoveMember(s) \in {t, AfterRemoval(s, FALSE)} BY DEF RemoveMember
<1> HIDE DEF t
<1>5. ResetTo(s, t) BY <1>1, <1>2 DEF ResetTo, Leaves, HasLease, IdlePoints
<1> QED BY <1>3, <1>4, <1>5

LEMMA ReleaseLeaseIs ==
  ASSUME NEW s, Leaves(s) PROVE ResetTo(s, ReleaseLease(s))
<1>1. CASE ~s.lease BY <1>1, RemoveMemberIs DEF ReleaseLease
<1>2. CASE s.lease
  <2> DEFINE u == [s EXCEPT !.lease = FALSE]
             t == Goto(u, "lease-release")
  <2>1. /\ u \in PeerState /\ u.queue = s.queue /\ u.phase = s.phase
        /\ u.leaveRequested = s.leaveRequested
        /\ u.fanoutRetained = s.fanoutRetained /\ ~u.lease
    BY DEF Leaves, PeerState
  <2>2. \A kind : Has(u, kind) <=> Has(s, kind) BY <2>1 DEF Has
  <2>3. ReleaseLease(s) = t BY <1>2 DEF ReleaseLease
  <2> HIDE DEF u
  <2>4. Leaves(u) BY <2>1 DEF Leaves
  <2>5. InMap(u) BY <1>2, <2>1 DEF Leaves, InMap, Active
  <2>6. "lease-release" \in ResetPoints \ {"unsubscribe", "release-lock"}
    BY DEF ResetPoints, ReleasePoints
  <2>7. /\ PeerOK(t) /\ ~t.fanoutRetained /\ ~t.lease /\ Pt(t) = "lease-release"
        /\ \A kind : Has(t, kind) <=> Has(u, kind)
    BY <2>1, <2>4, <2>5, <2>6, ResetGoto
  <2> HIDE DEF t
  <2>8. ResetTo(s, t) BY <1>2, <2>2, <2>6, <2>7 DEF ResetTo, Leaves, HasLease, IdlePoints
  <2> QED BY <2>3, <2>8
<1>3. s.lease \in BOOLEAN BY DEF Leaves, PeerState
<1> QED BY <1>1, <1>2, <1>3

\* A state in which a job may reset its peer.
CanReset(s) ==
  /\ s \in PeerState /\ s.queue # <<>> /\ QueueOK(s.queue)
  /\ s.phase \notin {"absent", "asleep"}
  /\ s.fanoutRetained => Active(s) \/ s.phase = "authenticating"
  /\ s.lease => Active(s) \/ s.phase = "authenticating"

\* Where Resets leaves its peer.
Abandon(s) ==
  LET leaving == [s EXCEPT !.leaveRequested = TRUE, !.fanoutRetained = FALSE]
  IN IF s.fanoutRetained THEN Goto(leaving, "release-lock") ELSE ReleaseLease(leaving)

LEMMA AbandonIs ==
  ASSUME NEW s, CanReset(s) PROVE ResetTo(s, Abandon(s))
<1> DEFINE u == [s EXCEPT !.leaveRequested = TRUE, !.fanoutRetained = FALSE]
           t == Goto(u, "release-lock")
<1>1. /\ u \in PeerState /\ u.queue = s.queue /\ u.phase = s.phase
      /\ u.leaveRequested /\ ~u.fanoutRetained /\ u.lease = s.lease
  BY DEF CanReset, PeerState
<1>2. \A kind : Has(u, kind) <=> Has(s, kind) BY <1>1 DEF Has
<1>3. Abandon(s) = IF s.fanoutRetained THEN t ELSE ReleaseLease(u) BY DEF Abandon
<1> HIDE DEF u
<1>4. Leaves(u) BY <1>1 DEF Leaves, CanReset, Active
<1>5. CASE ~s.fanoutRetained
  <2>1. ResetTo(u, ReleaseLease(u)) BY <1>4, ReleaseLeaseIs
  <2>2. Abandon(s) = ReleaseLease(u) BY <1>3, <1>5
  <2> HIDE DEF t
  <2> QED BY <1>1, <1>2, <1>5, <2>1, <2>2 DEF ResetTo
<1>6. CASE s.fanoutRetained
  <2>1. "release-lock" \in Points /\ "release-lock" \in ResetPoints
    BY DEF Points, ResetPoints, ReleasePoints
  <2>2. /\ t \in PeerState /\ SameRest(u, t) /\ QueueOK(t.queue) /\ t.queue # <<>>
        /\ Pt(t) = "release-lock"
        /\ \A kind : Has(t, kind) <=> Has(u, kind)
    BY <1>1, <1>4, <2>1, GotoIs DEF Leaves
  <2>3. Abandon(s) = t BY <1>3, <1>6
  <2> HIDE DEF t
  <2>4. Active(s) \/ s.phase = "authenticating" BY <1>6 DEF CanReset
  <2>5. PhaseOK(t) BY <1>1, <2>2, <2>4 DEF PhaseOK, SameRest, Active
  <2>6. HeldOK(t)
    BY <1>1, <2>2, <2>4 DEF HeldOK, SameRest, ResetPoints, ReleasePoints, SetupPoints, InMap, Active
  <2>7. ResetTo(s, t)
    BY <1>1, <1>2, <1>6, <2>1, <2>2, <2>5, <2>6
    DEF ResetTo, PeerOK, SameRest, HasLease, IdlePoints
  <2> QED BY <2>3, <2>7
<1>7. s.fanoutRetained \in BOOLEAN BY DEF CanReset, PeerState
<1> QED BY <1>5, <1>6, <1>7

\* So it does with a peer that is closed too.
LEMMA AbandonClosed ==
  ASSUME NEW s, CanReset(s) PROVE ResetTo(s, Abandon([s EXCEPT !.open = FALSE]))
<1> DEFINE u == [s EXCEPT !.open = FALSE]
<1>1. /\ u \in PeerState /\ u.queue = s.queue /\ u.phase = s.phase
      /\ u.fanoutRetained = s.fanoutRetained /\ u.lease = s.lease
  BY DEF CanReset, PeerState
<1> HIDE DEF u
<1>2. CanReset(u) BY <1>1 DEF CanReset, Active
<1>3. ResetTo(u, Abandon(u)) BY <1>2, AbandonIs
<1>4. \A kind : Has(u, kind) <=> Has(s, kind) BY <1>1 DEF Has
<1>5. ResetTo(s, Abandon(u)) BY <1>1, <1>3, <1>4 DEF ResetTo
<1> QED BY <1>5 DEF u

LEMMA PeerCanReset ==
  ASSUME NEW s, PeerOK(s), s.queue # <<>> PROVE CanReset(s)
BY DEF PeerOK, PhaseOK, HeldOK, CanReset

\* Resets and Ends, for a peer in state s that has let go of lock.
LEMMA ResetsIs ==
  ASSUME NEW p \in Peer, peer \in [Peer -> PeerState], NEW s, CanReset(s), NEW lock,
         Resets(p, s, lock) \/ Ends(p, s, lock)
  PROVE  /\ peer' = [peer EXCEPT ![p] = peer'[p]]
         /\ ResetTo(s, peer'[p])
         /\ fanoutQueue' = IF s.fanoutRetained THEN Append(lock, p) ELSE lock
<1> DEFINE u == [s EXCEPT !.open = FALSE]
<1>1. ResetTo(s, Abandon(s)) /\ ResetTo(s, Abandon(u)) BY AbandonIs, AbandonClosed
<1>2. CASE Resets(p, s, lock)
  <2>1. /\ peer' = [peer EXCEPT ![p] = Abandon(s)]
        /\ fanoutQueue' = IF s.fanoutRetained THEN Append(lock, p) ELSE lock
    BY <1>2 DEF Resets, Becomes, Abandon
  <2>2. peer'[p] = Abandon(s) BY <2>1
  <2> QED BY <1>1, <2>1, <2>2
<1>3. CASE Ends(p, s, lock)
  <2>1. u.fanoutRetained = s.fanoutRetained BY DEF CanReset, PeerState
  <2>2. /\ peer' = [peer EXCEPT ![p] = Abandon(u)]
        /\ fanoutQueue' = IF u.fanoutRetained THEN Append(lock, p) ELSE lock
    BY <1>3 DEF Ends, Resets, Becomes, Abandon
  <2>3. peer'[p] = Abandon(u) BY <2>2
  <2> HIDE DEF u
  <2> QED BY <1>1, <2>1, <2>2, <2>3
<1> QED BY <1>2, <1>3

-----------------------------------------------------------------------------
(* A step of one peer.                                                     *)

\* p waits for the lock, keeps it, or lets go of it.
LockStep(p) ==
  \/ /\ fanoutQueue' \in {fanoutQueue, Append(fanoutQueue, p)}
     /\ Pt(peer'[p]) \in HoldPoints => HoldsLock(p)
  \/ /\ HoldsLock(p)
     /\ Pt(peer'[p]) \notin HoldPoints
     /\ fanoutQueue' \in {Tail(fanoutQueue), Append(Tail(fanoutQueue), p)}

CountStep(p) ==
  \/ retainers' = retainers /\ (Counts(peer'[p]) <=> Counts(peer[p]))
  \/ retainers' = retainers + 1 /\ ~Counts(peer[p]) /\ Counts(peer'[p])
  \/ /\ retainers' = IF retainers = 0 THEN 0 ELSE retainers - 1
     /\ Counts(peer[p]) /\ ~Counts(peer'[p])

LeaseStep(p) == leases' \subseteq leases \cup {p} /\ (p \in leases' => HasLease(peer'[p]))

CloseStep(p) ==
  /\ closing' = closing
  /\ faults' \in Nat /\ faults' >= faults
  /\ Has(peer'[p], "closed") => Has(peer[p], "closed")
  /\ closing # "open" /\ (Has(peer[p], "closed") \/ Settled(peer[p]))
       => Has(peer'[p], "closed") \/ Settled(peer'[p])
  /\ subscription' \in BOOLEAN
  /\ subscription' => subscription \/ Pt(peer[p]) = "subscribe"

NewSweep(by, due) == [by |-> by, due |-> due, at |-> "lock", leaves |-> {}]

\* p stays at its sweep, asks for one, or its sweep is over.
MaintenanceStep(p) ==
  \/ maintenance' = maintenance /\ (Pt(peer[p]) = "maintain" => Pt(peer'[p]) = "maintain")
  \/ /\ Pt(peer[p]) # "maintain" /\ Pt(peer'[p]) = "maintain"
     /\ maintenance' = Append(Rearmed(p), NewSweep(p, {}))
  \/ /\ maintenance # <<>> /\ Head(maintenance).by = p
     /\ maintenance' = Tail(maintenance)

StoreTypes ==
  lapsed \subseteq members /\ members \subseteq Peer /\ shown \subseteq Peer /\ lost \subseteq Peer

RoomStep(p) ==
  /\ peer' = [peer EXCEPT ![p] = peer'[p]]
  /\ PeerOK(peer'[p])
  /\ LockStep(p)
  /\ CountStep(p)
  /\ LeaseStep(p)
  /\ CloseStep(p)
  /\ MaintenanceStep(p)
  /\ StoreTypes'
  /\ host' = host
  /\ host.slow \/ Fresh(peer'[p])

LEMMA PeersKept ==
  ASSUME RoomInv, NEW p \in Peer, RoomStep(p)
  PROVE  /\ peer' \in [Peer -> PeerState] /\ PeersOK'
         /\ \A q \in Peer : q # p => peer'[q] = peer[q]
BY DEF RoomInv, TypeOK, PeersOK, PeerOK, RoomStep

LEMMA LockKept ==
  ASSUME RoomInv, NEW p \in Peer, RoomStep(p)
  PROVE  fanoutQueue' \in Seq(Peer \cup {Room}) /\ LockOK'
<1>1. fanoutQueue \in Seq(Peer \cup {Room}) BY DEF RoomInv, TypeOK
<1>2. \A q \in Peer : q # p => peer'[q] = peer[q] BY PeersKept
<1>3. \A q \in Peer : Pt(peer[q]) \in HoldPoints => HoldsLock(q) BY DEF RoomInv, LockOK
<1>4. CASE /\ fanoutQueue' \in {fanoutQueue, Append(fanoutQueue, p)}
           /\ Pt(peer'[p]) \in HoldPoints => HoldsLock(p)
  <2>1. fanoutQueue' \in Seq(Peer \cup {Room}) BY <1>1, <1>4
  <2>2. \A q \in Peer : HoldsLock(q) => HoldsLock(q)' BY <1>1, <1>4 DEF HoldsLock
  <2> QED BY <1>2, <1>3, <1>4, <2>1, <2>2 DEF LockOK
<1>5. CASE /\ HoldsLock(p)
           /\ Pt(peer'[p]) \notin HoldPoints
           /\ fanoutQueue' \in {Tail(fanoutQueue), Append(Tail(fanoutQueue), p)}
  <2>1. Tail(fanoutQueue) \in Seq(Peer \cup {Room}) BY <1>1, <1>5 DEF HoldsLock
  <2>2. fanoutQueue' \in Seq(Peer \cup {Room}) BY <1>5, <2>1
  <2>3. \A q \in Peer : HoldsLock(q) => q = p BY <1>5 DEF HoldsLock
  <2> QED BY <1>2, <1>3, <1>5, <2>2, <2>3 DEF LockOK
<1> QED BY <1>4, <1>5 DEF RoomStep, LockStep

LEMMA CountKept ==
  ASSUME RoomInv, NEW p \in Peer, RoomStep(p)
  PROVE  retainers' \in Nat /\ CountOK'
<1> DEFINE R == Retaining   T == Retaining'
<1>1. retainers \in Nat BY DEF RoomInv, TypeOK
<1>2. \A q \in Peer : q # p => peer'[q] = peer[q] BY PeersKept
<1>3. \A q \in Peer : q # p => (q \in T <=> q \in R) BY <1>2 DEF Retaining
<1>4. (p \in R <=> Counts(peer[p])) /\ (p \in T <=> Counts(peer'[p])) BY DEF Retaining
<1>5. R \subseteq Peer /\ T \subseteq Peer BY DEF Retaining
<1>6. closing' = closing /\ CountStep(p) BY DEF RoomStep, CloseStep
<1>7. retainers' \in Nat BY <1>1, <1>6 DEF CountStep
<1> SUFFICES ASSUME closing \in {"open", "draining"}
             PROVE  IsFiniteSet(T) /\ retainers' = Cardinality(T)
  BY <1>6, <1>7 DEF CountOK
<1>8. IsFiniteSet(R) /\ retainers = Cardinality(R) BY DEF RoomInv, CountOK
<1> HIDE DEF R, T
<1>9. CASE retainers' = retainers /\ (Counts(peer'[p]) <=> Counts(peer[p]))
  <2>1. T = R BY <1>3, <1>4, <1>5, <1>9
  <2> QED BY <1>8, <1>9, <2>1
<1>10. CASE retainers' = retainers + 1 /\ ~Counts(peer[p]) /\ Counts(peer'[p])
  <2>1. T = R \cup {p} /\ p \notin R BY <1>3, <1>4, <1>5, <1>10
  <2> QED BY <1>8, <1>10, <2>1, FS_AddElement
<1>11. CASE /\ retainers' = IF retainers = 0 THEN 0 ELSE retainers - 1
            /\ Counts(peer[p]) /\ ~Counts(peer'[p])
  <2>1. T = R \ {p} /\ p \in R BY <1>3, <1>4, <1>5, <1>11
  <2>2. IsFiniteSet(T) /\ Cardinality(T) = Cardinality(R) - 1 BY <1>8, <2>1, FS_RemoveElement
  <2>3. Cardinality(T) \in Nat BY <2>2, FS_CardinalityType
  <2> QED BY <1>1, <1>8, <1>11, <2>2, <2>3
<1> QED BY <1>6, <1>9, <1>10, <1>11 DEF CountStep

LEMMA CloseKept ==
  ASSUME RoomInv, NEW p \in Peer, RoomStep(p)
  PROVE  CloseOK' /\ closing' = closing /\ subscription' \in BOOLEAN
<1>1. CloseOK /\ CloseStep(p) BY DEF RoomInv, RoomStep
<1>2. \A q \in Peer : q # p => peer'[q] = peer[q] BY PeersKept
<1>3. /\ closing' = closing /\ faults \in Nat /\ faults' \in Nat /\ faults' >= faults
      /\ subscription' \in BOOLEAN /\ subscription \in BOOLEAN
  BY <1>1 DEF CloseStep, CloseOK, RoomInv, TypeOK
<1>4. closing # "open" => \A q \in Peer : Has(peer'[q], "closed") \/ Settled(peer'[q])
  BY <1>1, <1>2 DEF CloseOK, CloseStep
<1>5. closing \in {"lock", "closed"} => \A q \in Peer : ~Has(peer'[q], "closed")
  BY <1>1, <1>2 DEF CloseOK, CloseStep
<1>6. closing = "closed" /\ subscription' => faults' > 0
  <2>1. closing = "closed" => Settled(peer[p]) BY <1>1 DEF CloseOK
  <2>2. closing = "closed" => Pt(peer[p]) # "subscribe" BY <2>1 DEF Settled
  <2>3. closing = "closed" /\ subscription' => subscription BY <1>1, <2>2 DEF CloseStep
  <2>4. closing = "closed" /\ subscription => faults > 0 BY <1>1 DEF CloseOK
  <2> QED BY <1>3, <2>3, <2>4
<1>7. CloseOK' BY <1>3, <1>4, <1>5, <1>6 DEF CloseOK, Has, Settled, HasLease, Pt
<1> QED BY <1>3, <1>7

LEMMA Distinct == \A p \in Peer : p # Alarm /\ p # Room
BY RoomAssumption

LEMMA RearmedIs ==
  ASSUME NEW p, maintenance \in Seq(Sweep)
  PROVE  /\ Rearmed(p) \in Seq(Sweep) /\ DOMAIN Rearmed(p) = DOMAIN maintenance
         /\ Len(Rearmed(p)) = Len(maintenance)
         /\ \A i \in DOMAIN maintenance :
              /\ Rearmed(p)[i].by = maintenance[i].by /\ Rearmed(p)[i].at = maintenance[i].at
              /\ Rearmed(p)[i].leaves = maintenance[i].leaves
<1> DEFINE r == Rearmed(p)
           n == Len(maintenance)
<1>1. n \in Nat /\ DOMAIN maintenance = 1 .. n OBVIOUS
<1>2. r = [i \in 1 .. n |-> [maintenance[i] EXCEPT !.due = @ \ {p}]] BY <1>1 DEF Rearmed
<1>3. \A i \in 1 .. n :
        /\ [maintenance[i] EXCEPT !.due = @ \ {p}] \in Sweep
        /\ [maintenance[i] EXCEPT !.due = @ \ {p}].by = maintenance[i].by
        /\ [maintenance[i] EXCEPT !.due = @ \ {p}].at = maintenance[i].at
        /\ [maintenance[i] EXCEPT !.due = @ \ {p}].leaves = maintenance[i].leaves
  <2> SUFFICES ASSUME NEW i \in 1 .. n
               PROVE  /\ [maintenance[i] EXCEPT !.due = @ \ {p}] \in Sweep
                      /\ [maintenance[i] EXCEPT !.due = @ \ {p}].by = maintenance[i].by
                      /\ [maintenance[i] EXCEPT !.due = @ \ {p}].at = maintenance[i].at
                      /\ [maintenance[i] EXCEPT !.due = @ \ {p}].leaves = maintenance[i].leaves
    OBVIOUS
  <2>1. maintenance[i] \in Sweep BY <1>1
  <2> QED BY <2>1 DEF Sweep
<1> HIDE DEF n, r
<1>4. r \in [1 .. n -> Sweep] BY <1>2, <1>3
<1>5. r \in Seq(Sweep) /\ DOMAIN r = 1 .. n /\ Len(r) = n BY <1>1, <1>4
<1>6. \A i \in 1 .. n : /\ r[i].by = maintenance[i].by /\ r[i].at = maintenance[i].at
                       /\ r[i].leaves = maintenance[i].leaves
  BY <1>2, <1>3
<1> QED BY <1>1, <1>5, <1>6 DEF r, n

LEMMA SweepIs ==
  ASSUME NEW by \in Peer \cup {Alarm}, NEW due \in SUBSET Peer
  PROVE  NewSweep(by, due) \in Sweep /\ NewSweep(by, due).by = by
BY DEF NewSweep, Sweep

\* One more sweep waits: its caller waits for no other one.
LEMMA SweepWaits ==
  ASSUME SweepsOK, maintenance \in Seq(Sweep), NEW queue \in Seq(Sweep),
         DOMAIN queue = DOMAIN maintenance,
         \A i \in DOMAIN maintenance : queue[i].by = maintenance[i].by,
         NEW sweep \in Sweep, maintenance' = Append(queue, sweep),
         \/ sweep.by = Alarm
         \/ sweep.by \in Peer /\ Pt(peer[sweep.by]) # "maintain" /\ Pt(peer'[sweep.by]) = "maintain",
         \A q \in Peer : q # sweep.by => Pt(peer'[q]) = Pt(peer[q])
  PROVE  maintenance' \in Seq(Sweep) /\ SweepsOK'
<1> DEFINE n == Len(queue)
<1>1. /\ n \in Nat /\ DOMAIN maintenance = 1 .. n
      /\ maintenance' \in Seq(Sweep) /\ DOMAIN maintenance' = 1 .. (n + 1)
      /\ maintenance'[n + 1] = sweep
      /\ \A i \in 1 .. n : maintenance'[i].by = maintenance[i].by
      /\ \A i \in 1 .. n : maintenance[i].by \in Peer \cup {Alarm}
  <2>1. n \in Nat /\ DOMAIN queue = 1 .. n /\ DOMAIN maintenance = 1 .. n OBVIOUS
  <2>2. /\ maintenance' \in Seq(Sweep) /\ DOMAIN maintenance' = 1 .. (n + 1)
        /\ maintenance'[n + 1] = sweep
        /\ \A i \in 1 .. n : maintenance'[i] = queue[i]
    BY <2>1
  <2>3. \A i \in 1 .. n : maintenance[i] \in Sweep BY <2>1
  <2>4. \A i \in 1 .. n : maintenance[i].by \in Peer \cup {Alarm} BY <2>3 DEF Sweep
  <2> HIDE DEF n
  <2>5. \A i \in 1 .. n : maintenance'[i].by = maintenance[i].by BY <2>1, <2>2
  <2> QED BY <2>1, <2>2, <2>4, <2>5
<1>2. \A i \in 1 .. n : maintenance[i].by # Alarm => Pt(peer[maintenance[i].by]) = "maintain"
  BY <1>1 DEF SweepsOK
<1>3. \A i \in 1 .. n : sweep.by # Alarm => maintenance[i].by # sweep.by BY <1>1, <1>2
<1>4. \A i \in 1 .. n : maintenance[i].by # Alarm => Pt(peer'[maintenance[i].by]) = "maintain"
  BY <1>1, <1>2, <1>3
<1>5. \A i \in 1 .. n + 1 :
        maintenance'[i].by # Alarm => Pt(peer'[maintenance'[i].by]) = "maintain"
  BY <1>1, <1>4
<1>6. \A i, j \in 1 .. n :
        maintenance[i].by = maintenance[j].by /\ maintenance[i].by # Alarm => i = j
  BY <1>1 DEF SweepsOK
<1>7. \A i, j \in 1 .. n + 1 :
        maintenance'[i].by = maintenance'[j].by /\ maintenance'[i].by # Alarm => i = j
  BY <1>1, <1>3, <1>6
<1>8. SweepsOK' BY <1>1, <1>5, <1>7 DEF SweepsOK, Pt
<1> QED BY <1>1, <1>8

\* The sweep that holds the lock is over: its caller waits for no other one.
LEMMA SweepOver ==
  ASSUME SweepsOK, maintenance \in Seq(Sweep), maintenance # <<>>,
         maintenance' = Tail(maintenance),
         \A q \in Peer : q # Head(maintenance).by => Pt(peer'[q]) = Pt(peer[q])
  PROVE  maintenance' \in Seq(Sweep) /\ SweepsOK'
<1> DEFINE n == Len(maintenance)
<1>1. /\ n \in Nat /\ DOMAIN maintenance = 1 .. n /\ 1 \in 1 .. n
      /\ maintenance' \in Seq(Sweep) /\ DOMAIN maintenance' = 1 .. (n - 1)
      /\ \A i \in 1 .. n - 1 : maintenance'[i] = maintenance[i + 1]
      /\ Head(maintenance) = maintenance[1]
  OBVIOUS
<1>2. \A i \in 1 .. n : maintenance[i] \in Sweep BY <1>1
<1>3. \A i \in 1 .. n : maintenance[i].by \in Peer \cup {Alarm} BY <1>2 DEF Sweep
<1> HIDE DEF n
<1>4. \A i \in 1 .. n - 1 : i \in Nat /\ i + 1 \in 1 .. n /\ i + 1 # 1 BY <1>1
<1>5. ASSUME NEW i \in 1 .. n - 1, maintenance'[i].by # Alarm
      PROVE  Pt(peer'[maintenance'[i].by]) = "maintain"
  <2>1. maintenance[i + 1].by # maintenance[1].by BY <1>1, <1>4, <1>5 DEF SweepsOK
  <2>2. Pt(peer[maintenance[i + 1].by]) = "maintain" BY <1>1, <1>4, <1>5 DEF SweepsOK
  <2> QED BY <1>1, <1>3, <1>4, <1>5, <2>1, <2>2
<1>6. ASSUME NEW i \in 1 .. n - 1, NEW j \in 1 .. n - 1,
             maintenance'[i].by = maintenance'[j].by, maintenance'[i].by # Alarm
      PROVE  i = j
  <2>1. i + 1 = j + 1 BY <1>1, <1>4, <1>6 DEF SweepsOK
  <2> QED BY <1>4, <2>1
<1>7. SweepsOK' BY <1>1, <1>5, <1>6 DEF SweepsOK, Pt
<1> QED BY <1>1, <1>7

LEMMA SweepsKept ==
  ASSUME RoomInv, NEW p \in Peer, RoomStep(p)
  PROVE  maintenance' \in Seq(Sweep) /\ SweepsOK'
<1>1. SweepsOK /\ maintenance \in Seq(Sweep) BY DEF RoomInv, TypeOK
<1>2. \A q \in Peer : q # p => peer'[q] = peer[q] BY PeersKept
<1>3. CASE maintenance' = maintenance /\ (Pt(peer[p]) = "maintain" => Pt(peer'[p]) = "maintain")
  <2>1. \A i \in DOMAIN maintenance : maintenance[i] \in Sweep BY <1>1
  <2>2. \A i \in DOMAIN maintenance : maintenance[i].by # Alarm => maintenance[i].by \in Peer
    BY <2>1 DEF Sweep
  <2>3. \A i \in DOMAIN maintenance :
          maintenance[i].by # Alarm => Pt(peer'[maintenance[i].by]) = "maintain"
    BY <1>1, <1>2, <1>3, <2>2 DEF SweepsOK
  <2> QED BY <1>1, <1>3, <2>3 DEF SweepsOK, Pt
<1>4. CASE /\ Pt(peer[p]) # "maintain" /\ Pt(peer'[p]) = "maintain"
           /\ maintenance' = Append(Rearmed(p), NewSweep(p, {}))
  <2>1. NewSweep(p, {}) \in Sweep /\ NewSweep(p, {}).by = p BY SweepIs
  <2>2. /\ Rearmed(p) \in Seq(Sweep) /\ DOMAIN Rearmed(p) = DOMAIN maintenance
        /\ \A i \in DOMAIN maintenance : Rearmed(p)[i].by = maintenance[i].by
    BY <1>1, RearmedIs
  <2>3. \A q \in Peer : q # p => Pt(peer'[q]) = Pt(peer[q]) BY <1>2
  <2> QED BY <1>1, <1>4, <2>1, <2>2, <2>3, SweepWaits
<1>5. CASE /\ maintenance # <<>> /\ Head(maintenance).by = p
           /\ maintenance' = Tail(maintenance)
  BY <1>1, <1>2, <1>5, SweepOver
<1> QED BY <1>3, <1>4, <1>5 DEF RoomStep, MaintenanceStep

LEMMA RoomStepKeeps ==
  ASSUME RoomInv, NEW p \in Peer, RoomStep(p) PROVE RoomInv'
<1>1. /\ peer' \in [Peer -> PeerState] /\ PeersOK'
      /\ \A q \in Peer : q # p => peer'[q] = peer[q]
  BY PeersKept
<1>2. fanoutQueue' \in Seq(Peer \cup {Room}) /\ LockOK' BY LockKept
<1>3. retainers' \in Nat /\ CountOK' BY CountKept
<1>4. CloseOK' /\ closing' = closing /\ subscription' \in BOOLEAN BY CloseKept
<1>5. maintenance' \in Seq(Sweep) /\ SweepsOK' BY SweepsKept
<1>6. leases' \subseteq Peer /\ LeasesOK'
  <2>1. leases \subseteq Peer /\ \A q \in leases : HasLease(peer[q])
    BY DEF RoomInv, TypeOK, LeasesOK
  <2>2. leases' \subseteq leases \cup {p} /\ (p \in leases' => HasLease(peer'[p]))
    BY DEF RoomStep, LeaseStep
  <2>3. \A q \in leases' : HasLease(peer'[q]) BY <1>1, <2>1, <2>2
  <2> QED BY <2>1, <2>2, <2>3 DEF LeasesOK, HasLease, Pt
<1>7. StoreTypes' /\ host' = host BY DEF RoomStep
<1>8. WaitOK'
  <2>1. host.slow \/ \A q \in Peer : Fresh(peer'[q]) BY <1>1 DEF RoomInv, WaitOK, RoomStep
  <2> QED BY <1>7, <2>1 DEF WaitOK, Fresh, Pt, Has
<1>9. TypeOK'
  BY <1>1, <1>2, <1>3, <1>4, <1>5, <1>6, <1>7 DEF TypeOK, StoreTypes, RoomInv
<1> QED BY <1>1, <1>2, <1>3, <1>4, <1>5, <1>6, <1>8, <1>9 DEF RoomInv

-----------------------------------------------------------------------------
(* The kinds of steps.                                                     *)

Alone(p) ==
  /\ peer' = [peer EXCEPT ![p] = peer'[p]]
  /\ closing' = closing /\ host' = host
  /\ faults' \in Nat /\ faults' >= faults
  /\ StoreTypes'

\* A message is served: the peer keeps what it holds.
Calm(s, t) ==
  /\ PeerOK(t)
  /\ Pt(t) \in IdlePoints \cup ServePoints
  /\ t.fanoutRetained = s.fanoutRetained /\ t.lease = s.lease
  /\ Has(t, "closed") <=> Has(s, "closed")

\* A reset begins; lock is the fan-out queue once p has let go of it.
Quits(p, lock) ==
  /\ ResetTo(peer[p], peer'[p])
  /\ fanoutQueue' = IF peer[p].fanoutRetained THEN Append(lock, p) ELSE lock

LEMMA InvIs ==
  ASSUME RoomInv, NEW p \in Peer
  PROVE  /\ PeerOK(peer[p]) /\ peer[p] \in PeerState /\ QueueOK(peer[p].queue)
         /\ peer \in [Peer -> PeerState] /\ maintenance \in Seq(Sweep)
         /\ fanoutQueue \in Seq(Peer \cup {Room}) /\ retainers \in Nat
         /\ subscription \in BOOLEAN /\ faults \in Nat /\ StoreTypes
         /\ p \in leases => HasLease(peer[p])
BY DEF RoomInv, TypeOK, PeersOK, PeerOK, CloseOK, LeasesOK, StoreTypes

LEMMA CalmStep ==
  ASSUME RoomInv, NEW p \in Peer, Alone(p),
         Pt(peer[p]) \in {"start"} \cup ServePoints,
         Calm(peer[p], peer'[p]), MaintenanceStep(p), host.slow \/ Fresh(peer'[p]),
         UNCHANGED <<fanoutQueue, retainers, subscription, leases>>
  PROVE  RoomStep(p)
<1> DEFINE s == peer[p]   t == peer'[p]
<1>1. /\ PeerOK(s) /\ s \in PeerState /\ subscription \in BOOLEAN /\ leases \subseteq Peer
      /\ p \in leases => HasLease(s)
  BY InvIs DEF RoomInv, TypeOK
<1>2. PeerOK(t) /\ t \in PeerState BY DEF Calm, PeerOK
<1>3. Counts(t) <=> Counts(s)
  BY <1>1, <1>2 DEF Counts, Calm, PeerState, ServePoints, IdlePoints
<1>4. HasLease(t) <=> HasLease(s)
  BY <1>1, <1>2 DEF HasLease, Calm, PeerState, ServePoints, IdlePoints
<1>5. Settled(s) => Settled(t) BY <1>4 DEF Settled, Calm, ServePoints, IdlePoints
<1>6. Pt(t) \notin HoldPoints BY DEF Calm, HoldPoints, ServePoints, IdlePoints
<1> HIDE DEF s, t
<1>7. LockStep(p) BY <1>6 DEF LockStep, t
<1>8. CountStep(p) BY <1>3 DEF CountStep, s, t
<1>9. LeaseStep(p) BY <1>1, <1>4 DEF LeaseStep, s, t
<1>10. CloseStep(p) BY <1>1, <1>5 DEF CloseStep, Calm, Alone, s, t
<1> QED BY <1>2, <1>7, <1>8, <1>9, <1>10 DEF RoomStep, Alone, t

LEMMA QuitStep ==
  ASSUME RoomInv, NEW p \in Peer, Alone(p), NEW lock,
         Pt(peer[p]) \notin ResetPoints,
         Quits(p, lock), lock = fanoutQueue \/ (HoldsLock(p) /\ lock = Tail(fanoutQueue)),
         MaintenanceStep(p),
         UNCHANGED <<retainers, subscription, leases>>
  PROVE  RoomStep(p)
<1> DEFINE s == peer[p]   t == peer'[p]
<1>1. /\ PeerOK(s) /\ s \in PeerState /\ subscription \in BOOLEAN /\ leases \subseteq Peer
      /\ p \in leases => HasLease(s)
  BY InvIs DEF RoomInv, TypeOK
<1>2. ResetTo(s, t) /\ PeerOK(t) /\ t \in PeerState BY DEF Quits, ResetTo, PeerOK
<1>3. Pt(s) # "release-lock" /\ Pt(s) # "lease-release" BY DEF ResetPoints, ReleasePoints
<1>4. Counts(t) <=> Counts(s) BY <1>1, <1>2, <1>3 DEF Counts, ResetTo
<1>5. HasLease(t) <=> HasLease(s) BY <1>1, <1>2, <1>3 DEF HasLease, ResetTo
<1>6. /\ Pt(t) \in IdlePoints \cup (ResetPoints \ {"unsubscribe"})
      /\ Has(s, "closed") => Has(t, "closed") \/ (~HasLease(t) /\ Pt(t) \in IdlePoints)
      /\ Has(t, "closed") => Has(s, "closed")
  BY <1>2 DEF ResetTo
<1>7. ~HasLease(t) => Settled(t) BY <1>6 DEF Settled, ResetPoints, ReleasePoints, IdlePoints
<1>8. Settled(s) => ~HasLease(s) BY DEF Settled
<1>9. Pt(t) \notin HoldPoints BY <1>6 DEF HoldPoints, ResetPoints, ReleasePoints, IdlePoints
<1>10. Pt(t) # "maintain" BY <1>6 DEF ResetPoints, ReleasePoints, IdlePoints
<1> HIDE DEF s, t
<1>11. LockStep(p) BY <1>9 DEF LockStep, Quits, t
<1>12. CountStep(p) BY <1>4 DEF CountStep, s, t
<1>13. LeaseStep(p) BY <1>1, <1>5 DEF LeaseStep, s, t
<1>14. CloseStep(p) BY <1>1, <1>5, <1>6, <1>7, <1>8 DEF CloseStep, Alone, s, t
<1> QED BY <1>2, <1>10, <1>11, <1>12, <1>13, <1>14 DEF RoomStep, Alone, Fresh, t

-----------------------------------------------------------------------------
(* A message, from one await to the next.                                  *)

LEMMA AtIs ==
  ASSUME RoomInv, NEW p \in Peer, NEW point, At(p, point)
  PROVE  /\ peer[p].queue # <<>> /\ Pt(peer[p]) = point
         /\ Running(peer[p]) = peer[p].queue[1] /\ peer[p].queue[1] \in Job
         /\ JobOK(peer[p].queue[1]) /\ peer[p].queue[1].at = point
         /\ CanReset(peer[p])
<1>1. PeerOK(peer[p]) /\ peer[p] \in PeerState /\ QueueOK(peer[p].queue) BY InvIs
<1>2. peer[p].queue # <<>> /\ Running(peer[p]).at = point BY DEF At
<1>3. /\ Running(peer[p]) = peer[p].queue[1] /\ peer[p].queue[1] \in Job
      /\ 1 \in DOMAIN peer[p].queue
  BY <1>1, <1>2, HeadIsJob
<1>4. JobOK(peer[p].queue[1]) BY <1>1, <1>3 DEF QueueOK
<1>5. CanReset(peer[p]) BY <1>1, <1>2, PeerCanReset
<1> QED BY <1>2, <1>3, <1>4, <1>5 DEF Pt

LEMMA BoundsAre ==
  ASSUME RoomInv, Succeeds \/ Fails \/ Sends \/ TimePasses
  PROVE  host' = host /\ faults' \in Nat /\ faults' >= faults
<1>1. faults \in Nat BY DEF RoomInv, CloseOK
<1> QED BY <1>1 DEF Succeeds, Fails, Sends, TimePasses, bounds

\* A peer that keeps what it holds, and goes on with a message or to its next job.
LEMMA Moved ==
  ASSUME NEW s, PeerOK(s), s.queue # <<>>, NEW t \in PeerState, SameRest(s, t),
         QueueOK(t.queue), Pt(t) \in IdlePoints \cup ServePoints,
         \A kind : Has(t, kind) => Has(s, kind)
  PROVE  PeerOK(t)
<1>1. PhaseOK(t) BY DEF PeerOK, PhaseOK, SameRest
<1>2. HeldOK(t)
  BY DEF PeerOK, HeldOK, SameRest, IdlePoints, ServePoints, SetupPoints, ResetPoints,
         ReleasePoints, InMap, Active
<1> QED BY <1>1, <1>2 DEF PeerOK

LEMMA ServeGoto ==
  ASSUME NEW s, PeerOK(s), s.queue # <<>>, s.queue[1].kind \in Requests, NEW point \in ServePoints
  PROVE  /\ Calm(s, Goto(s, point)) /\ SameRest(s, Goto(s, point))
         /\ Pt(Goto(s, point)) = point
         /\ \A kind : Has(Goto(s, point), kind) <=> Has(s, kind)
<1> DEFINE t == Goto(s, point)
<1>1. s \in PeerState /\ QueueOK(s.queue) /\ point \in Points BY DEF PeerOK, ServePoints, Points
<1>2. s.queue[1].kind \notin Setup /\ s.queue[1].kind \notin Removals
  BY DEF Requests, Setup, Removals
<1>3. /\ t \in PeerState /\ SameRest(s, t) /\ QueueOK(t.queue)
      /\ Pt(t) = point /\ \A kind : Has(t, kind) <=> Has(s, kind)
  BY <1>1, <1>2, GotoIs
<1> HIDE DEF t
<1>4. PeerOK(t) BY <1>3, Moved
<1> QED BY <1>3, <1>4 DEF Calm, SameRest, t

LEMMA ServeDone ==
  ASSUME NEW s, PeerOK(s), s.queue # <<>>, s.queue[1].kind \in Requests
  PROVE  Calm(s, Done(s)) /\ Pt(Done(s)) \in IdlePoints
<1> DEFINE t == Done(s)
<1>1. s \in PeerState /\ QueueOK(s.queue) BY DEF PeerOK
<1>2. s.queue[1].kind # "closed" BY DEF Requests
<1>3. /\ t \in PeerState /\ SameRest(s, t) /\ QueueOK(t.queue) /\ Pt(t) \in IdlePoints
      /\ \A kind : Has(t, kind) => Has(s, kind)
      /\ Has(s, "closed") => Has(t, "closed")
  BY <1>1, <1>2, DoneIs
<1> HIDE DEF t
<1>4. PeerOK(t) BY <1>3, Moved
<1> QED BY <1>3, <1>4 DEF Calm, SameRest, t

\* Whatever the bounds count, p is the only peer that a message moves.
LEMMA MessageAlone ==
  ASSUME RoomInv, NEW p \in Peer, Succeeds \/ Fails, closing' = closing, StoreTypes',
         peer' = [peer EXCEPT ![p] = peer'[p]]
  PROVE  Alone(p)
BY BoundsAre DEF Alone

\* A message that ends its session, or goes on.
LEMMA ServedStep ==
  ASSUME RoomInv, NEW p \in Peer, NEW point \in ServePoints \ {"maintain"}, At(p, point),
         Succeeds \/ Fails, StoreTypes',
         UNCHANGED <<closing, retainers, subscription, maintenance, leases>>,
         \/ Ends(p, peer[p], fanoutQueue)
         \/ \E t : /\ Becomes(p, t) /\ UNCHANGED fanoutQueue
                   /\ Calm(peer[p], t) /\ Pt(t) # "maintain"
  PROVE  RoomStep(p)
<1>1. /\ peer \in [Peer -> PeerState] /\ CanReset(peer[p]) /\ Pt(peer[p]) = point
  BY AtIs, InvIs
<1>2. Pt(peer[p]) # "maintain" /\ MaintenanceStep(p) BY <1>1 DEF MaintenanceStep
<1>3. CASE Ends(p, peer[p], fanoutQueue)
  <2>1. peer' = [peer EXCEPT ![p] = peer'[p]] /\ Quits(p, fanoutQueue)
    BY <1>1, <1>3, ResetsIs DEF Quits
  <2>2. Alone(p) BY <2>1, MessageAlone
  <2>3. Pt(peer[p]) \notin ResetPoints BY <1>1 DEF ResetPoints, ReleasePoints, ServePoints
  <2> QED BY <1>2, <2>1, <2>2, <2>3, QuitStep
<1>4. ASSUME NEW t, Becomes(p, t), UNCHANGED fanoutQueue, Calm(peer[p], t), Pt(t) # "maintain"
      PROVE  RoomStep(p)
  <2>1. peer' = [peer EXCEPT ![p] = peer'[p]] /\ peer'[p] = t BY <1>1, <1>4 DEF Becomes
  <2>2. Alone(p) BY <2>1, MessageAlone
  <2>3. Fresh(t) BY <1>4 DEF Fresh
  <2> QED BY <1>1, <1>2, <1>4, <2>1, <2>2, <2>3, CalmStep
<1> QED BY <1>3, <1>4

LEMMA ServingIs ==
  ASSUME RoomInv, NEW p \in Peer, NEW point \in ServePoints, At(p, point)
  PROVE  /\ PeerOK(peer[p]) /\ peer[p].queue # <<>> /\ peer[p].queue[1].kind \in Requests
         /\ StoreTypes
<1>1. /\ peer[p].queue # <<>> /\ peer[p].queue[1] \in Job
      /\ JobOK(peer[p].queue[1]) /\ peer[p].queue[1].at = point
  BY AtIs
<1>2. peer[p].queue[1].kind \in Setup \cup Removals \cup Requests
  BY <1>1 DEF Job, Setup, Removals
<1>3. point \notin SetupPoints \cup ResetPoints \cup {"start"}
  BY DEF ServePoints, SetupPoints, ResetPoints, ReleasePoints
<1> QED BY <1>1, <1>2, <1>3, InvIs DEF JobOK

LEMMA MemberSetKeeps ==
  ASSUME RoomInv, NEW p \in Peer, MemberSet(p) PROVE RoomStep(p)
<1>1. PICK point \in {"set-joined", "set-updated"} : At(p, point) BY DEF MemberSet
<1> DEFINE next == IF At(p, "set-joined") THEN "join-lease" ELSE "update-lease"
           t == Goto(peer[p], next)
<1>2. /\ point \in ServePoints \ {"maintain"} /\ next \in ServePoints /\ next # "maintain"
  BY DEF ServePoints
<1>3. /\ PeerOK(peer[p]) /\ peer[p].queue # <<>> /\ peer[p].queue[1].kind \in Requests
      /\ StoreTypes
  BY <1>1, <1>2, ServingIs
<1>4. Calm(peer[p], t) /\ Pt(t) = next BY <1>2, <1>3, ServeGoto
<1>5. /\ Succeeds \/ Fails
      /\ UNCHANGED <<closing, retainers, subscription, maintenance, leases>>
      /\ StoreTypes'
  BY <1>3 DEF MemberSet, StoreTypes, viewVars, storeVars
<1>6. \/ Ends(p, peer[p], fanoutQueue)
      \/ Becomes(p, t) /\ UNCHANGED fanoutQueue
  BY DEF MemberSet
<1> HIDE DEF t, next
<1> QED BY <1>1, <1>2, <1>4, <1>5, <1>6, ServedStep

LEMMA LeaseCheckedKeeps ==
  ASSUME RoomInv, NEW p \in Peer, LeaseChecked(p) PROVE RoomStep(p)
<1> DEFINE s == peer[p]
           u == [s EXCEPT !.joined = TRUE, !.phase = "joined"]
           t == IF At(p, "join-lease") THEN Goto(u, "publish-join") ELSE Goto(s, "publish-update")
<1>1. PICK point \in {"join-lease", "update-lease"} : At(p, point) BY DEF LeaseChecked
<1>2. point \in ServePoints \ {"maintain"} /\ {"publish-join", "publish-update"} \subseteq ServePoints
  BY DEF ServePoints
<1>3. /\ PeerOK(s) /\ s.queue # <<>> /\ s.queue[1].kind \in Requests
      /\ StoreTypes /\ Pt(s) = point
  BY <1>1, <1>2, ServingIs, AtIs
<1>4. /\ u \in PeerState /\ u.queue = s.queue /\ u.phase = "joined" /\ u.lease = s.lease
      /\ u.fanoutRetained = s.fanoutRetained /\ u.leaveRequested = s.leaveRequested
  BY <1>3 DEF PeerOK, PeerState, Phases
<1>5. /\ Succeeds \/ Fails
      /\ UNCHANGED <<closing, retainers, subscription, maintenance, leases>>
      /\ StoreTypes'
  BY <1>3 DEF LeaseChecked, StoreTypes, viewVars, storeVars
<1>6. \/ Ends(p, s, fanoutQueue)
      \/ Becomes(p, t) /\ UNCHANGED fanoutQueue
  BY DEF LeaseChecked
<1> HIDE DEF u
<1>7. PeerOK(u) /\ Pt(u) = Pt(s) /\ (\A kind : Has(u, kind) <=> Has(s, kind))
  <2>1. Pt(u) = Pt(s) /\ (\A kind : Has(u, kind) <=> Has(s, kind)) BY <1>4 DEF Pt, Has
  <2>2. PhaseOK(u) BY <1>3, <1>4, <2>1 DEF PeerOK, PhaseOK
  <2>3. HeldOK(u)
    BY <1>2, <1>3, <1>4, <2>1
    DEF HeldOK, Active, SetupPoints, ResetPoints, ReleasePoints, ServePoints
  <2> QED BY <1>3, <1>4, <2>1, <2>2, <2>3 DEF PeerOK
<1>8. Calm(u, Goto(u, "publish-join")) /\ Pt(Goto(u, "publish-join")) = "publish-join"
  BY <1>2, <1>3, <1>4, <1>7, ServeGoto
<1>9. Calm(s, Goto(s, "publish-update")) /\ Pt(Goto(s, "publish-update")) = "publish-update"
  BY <1>2, <1>3, ServeGoto
<1>10. Calm(s, Goto(u, "publish-join")) BY <1>4, <1>7, <1>8 DEF Calm
<1>11. Calm(s, t) /\ Pt(t) # "maintain" BY <1>8, <1>9, <1>10
<1> HIDE DEF t
<1> QED BY <1>1, <1>2, <1>5, <1>6, <1>11, ServedStep

LEMMA PublishedKeeps ==
  ASSUME RoomInv, NEW p \in Peer, Published(p) PROVE RoomStep(p)
<1>1. PICK point \in {"publish-join", "publish-update"} : At(p, point) BY DEF Published
<1> DEFINE t == Done(peer[p])
<1>2. point \in ServePoints \ {"maintain"} BY DEF ServePoints
<1>3. /\ PeerOK(peer[p]) /\ peer[p].queue # <<>> /\ peer[p].queue[1].kind \in Requests
      /\ StoreTypes
  BY <1>1, <1>2, ServingIs
<1>4. Calm(peer[p], t) /\ Pt(t) # "maintain" BY <1>3, ServeDone DEF IdlePoints
<1>5. /\ Succeeds \/ Fails
      /\ UNCHANGED <<closing, retainers, subscription, maintenance, leases>>
      /\ StoreTypes'
  BY <1>3 DEF Published, StoreTypes, viewVars, storeVars
<1>6. \/ Ends(p, peer[p], fanoutQueue)
      \/ Becomes(p, t) /\ UNCHANGED fanoutQueue
  BY DEF Published
<1> HIDE DEF t
<1> QED BY <1>1, <1>2, <1>4, <1>5, <1>6, ServedStep

\* The running message remembers whom it announces.
LEMMA LeavesIs ==
  ASSUME NEW s, PeerOK(s), s.queue # <<>>, NEW leaves \in SUBSET Peer
  PROVE  LET t == [s EXCEPT !.queue[1].leaves = leaves] IN
         /\ PeerOK(t) /\ SameRest(s, t) /\ t.queue # <<>> /\ Pt(t) = Pt(s)
         /\ t.queue[1].kind = s.queue[1].kind
         /\ \A kind : Has(t, kind) <=> Has(s, kind)
<1> DEFINE j == [s.queue[1] EXCEPT !.leaves = leaves]
           t == [s EXCEPT !.queue = [s.queue EXCEPT ![1] = j]]
<1>1. s \in PeerState /\ QueueOK(s.queue) BY DEF PeerOK
<1>2. s.queue[1] \in Job /\ 1 \in DOMAIN s.queue BY <1>1, HeadIsJob
<1>3. j \in Job /\ j.at = s.queue[1].at /\ j.kind = s.queue[1].kind BY <1>2 DEF Job
<1>4. JobOK(j) BY <1>1, <1>2, <1>3 DEF JobOK, QueueOK
<1>5. [s EXCEPT !.queue[1].leaves = leaves] = t OBVIOUS
<1> HIDE DEF j
<1>6. /\ t \in PeerState /\ SameRest(s, t) /\ QueueOK(t.queue) /\ t.queue # <<>>
      /\ t.queue[1] = j
      /\ \A kind : Has(t, kind) <=> Has(s, kind)
  BY <1>1, <1>3, <1>4, SetHead
<1> HIDE DEF t
<1>7. Pt(t) = Pt(s) BY <1>3, <1>6 DEF Pt
<1>8. PhaseOK(t) BY <1>6 DEF PeerOK, PhaseOK, SameRest
<1>9. HeldOK(t) BY <1>6, <1>7 DEF PeerOK, HeldOK, SameRest, InMap, Active
<1> QED BY <1>3, <1>5, <1>6, <1>7, <1>8, <1>9 DEF PeerOK

LEMMA ListedKeeps ==
  ASSUME RoomInv, NEW p \in Peer, Listed(p) PROVE RoomStep(p)
<1> DEFINE s == peer[p]
           u == [s EXCEPT !.queue[1].leaves = lapsed]
           t == Goto(u, "publish-leaves")
<1>1. /\ "list" \in ServePoints \ {"maintain"} /\ "publish-leaves" \in ServePoints
      /\ At(p, "list")
  BY DEF ServePoints, Listed
<1>2. /\ PeerOK(s) /\ s.queue # <<>> /\ s.queue[1].kind \in Requests /\ StoreTypes
  BY <1>1, ServingIs
<1>3. /\ PeerOK(u) /\ SameRest(s, u) /\ u.queue # <<>> /\ u.queue[1].kind \in Requests
      /\ \A kind : Has(u, kind) <=> Has(s, kind)
  <2>1. lapsed \in SUBSET Peer BY <1>2 DEF StoreTypes
  <2> QED BY <1>2, <2>1, LeavesIs
<1>4. /\ Succeeds \/ Fails
      /\ UNCHANGED <<closing, retainers, subscription, maintenance, leases>>
      /\ StoreTypes'
  BY <1>2 DEF Listed, StoreTypes, viewVars, storeVars
<1>5. \/ Ends(p, s, fanoutQueue)
      \/ Becomes(p, t) /\ UNCHANGED fanoutQueue
  BY DEF Listed
<1> HIDE DEF u
<1>6. Calm(u, t) /\ Pt(t) = "publish-leaves" BY <1>1, <1>3, ServeGoto
<1> HIDE DEF t
<1>7. Calm(s, t) BY <1>3, <1>6 DEF Calm, SameRest
<1> QED BY <1>1, <1>4, <1>5, <1>6, <1>7, ServedStep

LEMMA LeavesPublishedKeeps ==
  ASSUME RoomInv, NEW p \in Peer, LeavesPublished(p) PROVE RoomStep(p)
<1> DEFINE s == peer[p]
           leaves == Running(s).leaves
           u(c) == [s EXCEPT !.queue[1].leaves = @ \ {c}]
<1>1. /\ "publish-leaves" \in ServePoints \ {"maintain"} /\ At(p, "publish-leaves")
  BY DEF ServePoints, LeavesPublished
<1>2. /\ PeerOK(s) /\ s.queue # <<>> /\ s.queue[1].kind \in Requests /\ StoreTypes
      /\ s.queue[1] \in Job /\ Running(s) = s.queue[1] /\ Pt(s) = "publish-leaves"
  BY <1>1, ServingIs, AtIs
<1>3. leaves = s.queue[1].leaves /\ leaves \in SUBSET Peer BY <1>2 DEF Job
<1>4. Calm(s, Done(s)) /\ Pt(Done(s)) # "maintain" BY <1>2, ServeDone DEF IdlePoints
<1>5. ASSUME NEW c \in leaves PROVE Calm(s, u(c)) /\ Pt(u(c)) # "maintain"
  <2>1. u(c) = [s EXCEPT !.queue[1].leaves = s.queue[1].leaves \ {c}] OBVIOUS
  <2>2. s.queue[1].leaves \ {c} \in SUBSET Peer BY <1>3
  <2>3. /\ PeerOK(u(c)) /\ SameRest(s, u(c)) /\ Pt(u(c)) = Pt(s)
        /\ \A kind : Has(u(c), kind) <=> Has(s, kind)
    BY <1>2, <2>1, <2>2, LeavesIs
  <2> HIDE DEF u
  <2> QED BY <1>2, <2>3 DEF Calm, SameRest, ServePoints
<1>6. /\ Succeeds \/ Fails
      /\ UNCHANGED <<closing, retainers, subscription, maintenance, leases>>
      /\ StoreTypes'
  BY <1>2, <1>3 DEF LeavesPublished, StoreTypes, viewVars, storeVars
<1>7. \/ Ends(p, s, fanoutQueue)
      \/ Becomes(p, Done(s)) /\ UNCHANGED fanoutQueue
      \/ \E c \in leaves : Becomes(p, u(c)) /\ UNCHANGED fanoutQueue
  BY DEF LeavesPublished, viewVars
<1> HIDE DEF u, leaves
<1> QED BY <1>1, <1>4, <1>5, <1>6, <1>7, ServedStep

LEMMA HeartbeatLeaseKeeps ==
  ASSUME RoomInv, NEW p \in Peer, HeartbeatLease(p) PROVE RoomStep(p)
<1> DEFINE t == Goto(peer[p], "refresh-member")
<1>1. /\ "refresh-lease" \in ServePoints \ {"maintain"} /\ "refresh-member" \in ServePoints
      /\ At(p, "refresh-lease")
  BY DEF ServePoints, HeartbeatLease
<1>2. /\ PeerOK(peer[p]) /\ peer[p].queue # <<>> /\ peer[p].queue[1].kind \in Requests
      /\ StoreTypes
  BY <1>1, ServingIs
<1>3. Calm(peer[p], t) /\ Pt(t) = "refresh-member" BY <1>1, <1>2, ServeGoto
<1>4. /\ Succeeds \/ Fails
      /\ UNCHANGED <<closing, retainers, subscription, maintenance, leases>>
      /\ StoreTypes'
  BY <1>2 DEF HeartbeatLease, StoreTypes, viewVars, storeVars
<1>5. \/ Ends(p, peer[p], fanoutQueue)
      \/ Becomes(p, t) /\ UNCHANGED fanoutQueue
  BY DEF HeartbeatLease
<1> HIDE DEF t
<1> QED BY <1>1, <1>3, <1>4, <1>5, ServedStep

LEMMA HeartbeatMemberKeeps ==
  ASSUME RoomInv, NEW p \in Peer, HeartbeatMember(p) PROVE RoomStep(p)
<1> DEFINE t == Done(peer[p])
<1>1. "refresh-member" \in ServePoints \ {"maintain"} /\ At(p, "refresh-member")
  BY DEF ServePoints, HeartbeatMember
<1>2. /\ PeerOK(peer[p]) /\ peer[p].queue # <<>> /\ peer[p].queue[1].kind \in Requests
      /\ StoreTypes
  BY <1>1, ServingIs
<1>3. Calm(peer[p], t) /\ Pt(t) # "maintain" BY <1>2, ServeDone DEF IdlePoints
<1>4. /\ Succeeds \/ Fails
      /\ UNCHANGED <<closing, retainers, subscription, maintenance, leases>>
      /\ StoreTypes'
  BY <1>2 DEF HeartbeatMember, StoreTypes, viewVars, storeVars
<1>5. \/ Ends(p, peer[p], fanoutQueue)
      \/ Becomes(p, t) /\ UNCHANGED fanoutQueue
  BY DEF HeartbeatMember
<1> HIDE DEF t
<1> QED BY <1>1, <1>3, <1>4, <1>5, ServedStep

LEMMA MemberReadKeeps ==
  ASSUME RoomInv, NEW p \in Peer, MemberRead(p) PROVE RoomStep(p)
<1> DEFINE t == Goto(peer[p], "set-updated")
           u == Done(peer[p])
<1>1. /\ "get-member" \in ServePoints \ {"maintain"} /\ "set-updated" \in ServePoints
      /\ At(p, "get-member")
  BY DEF ServePoints, MemberRead
<1>2. /\ PeerOK(peer[p]) /\ peer[p].queue # <<>> /\ peer[p].queue[1].kind \in Requests
      /\ StoreTypes
  BY <1>1, ServingIs
<1>3. Calm(peer[p], t) /\ Pt(t) = "set-updated" BY <1>1, <1>2, ServeGoto
<1>4. Calm(peer[p], u) /\ Pt(u) # "maintain" BY <1>2, ServeDone DEF IdlePoints
<1>5. /\ Succeeds \/ Fails
      /\ UNCHANGED <<closing, retainers, subscription, maintenance, leases>>
      /\ StoreTypes'
  BY <1>2 DEF MemberRead, StoreTypes, viewVars, storeVars
<1>6. \/ Ends(p, peer[p], fanoutQueue)
      \/ Becomes(p, t) /\ UNCHANGED fanoutQueue
      \/ Becomes(p, u) /\ UNCHANGED fanoutQueue
  BY DEF MemberRead
<1> HIDE DEF t, u
<1> QED BY <1>1, <1>3, <1>4, <1>5, <1>6, ServedStep

\* A message whose sweep is over, or that needs none, begins.
LEMMA DispatchIs ==
  ASSUME RoomInv, NEW p \in Peer, NEW s, PeerOK(s), s.queue # <<>>,
         s.queue[1].kind \in Requests, Dispatch(p, s)
  PROVE  \/ \E t : Becomes(p, t) /\ fanoutQueue' = fanoutQueue /\ Calm(s, t) /\ Pt(t) # "maintain"
         \/ Ends(p, s, fanoutQueue)
<1>1. s \in PeerState /\ Running(s) = s.queue[1] BY HeadIsJob DEF PeerOK
<1>2. /\ {"set-joined", "list", "refresh-lease", "get-member"} \subseteq ServePoints \ {"maintain"}
  BY DEF ServePoints
<1>3. \A point \in {"set-joined", "list", "refresh-lease", "get-member"} :
        Calm(s, Goto(s, point)) /\ Pt(Goto(s, point)) # "maintain"
  BY <1>2, ServeGoto
<1>4. \/ \E point \in {"set-joined", "list", "refresh-lease", "get-member"} :
           Becomes(p, Goto(s, point)) /\ UNCHANGED fanoutQueue
      \/ Ends(p, s, fanoutQueue)
  BY <1>1 DEF Dispatch, Requests
<1> QED BY <1>3, <1>4

\* The heartbeat is set again, and then the message is served or waits for a sweep.
LEMMA MaintainKeeps ==
  ASSUME RoomInv, NEW p \in Peer, Pt(peer[p]) \in {"start", "refresh"},
         peer[p].queue # <<>>, peer[p].queue[1].kind \in Requests, Live(peer[p]),
         Maintain(p, peer[p]), Succeeds \/ Fails, StoreTypes',
         UNCHANGED <<closing, retainers, subscription, leases>>
  PROVE  RoomStep(p)
<1> DEFINE s == peer[p]
           u == [s EXCEPT !.heartbeat = "armed"]
<1>1. PeerOK(s) /\ s \in PeerState /\ peer \in [Peer -> PeerState] BY InvIs
<1>2. /\ u \in PeerState /\ u.queue = s.queue /\ u.phase = s.phase /\ u.lease = s.lease
      /\ u.fanoutRetained = s.fanoutRetained /\ u.leaveRequested = s.leaveRequested
      /\ u.heartbeat = "armed"
  BY <1>1 DEF PeerState
<1>3. \/ OnMessage /\ Becomes(p, Goto(u, "maintain")) /\ UNCHANGED fanoutQueue
         /\ maintenance' = Append(Rearmed(p), NewSweep(p, {}))
      \/ Dispatch(p, u) /\ maintenance' = maintenance
  BY DEF Maintain, NewSweep
<1>4. ~s.leaveRequested BY DEF Live
<1> HIDE DEF u
<1>5. Pt(u) = Pt(s) /\ (\A kind : Has(u, kind) <=> Has(s, kind)) BY <1>2 DEF Pt, Has
<1>6. PeerOK(u)
  <2>1. PhaseOK(u) BY <1>1, <1>2, <1>5 DEF PeerOK, PhaseOK
  <2>2. HeldOK(u) BY <1>1, <1>2, <1>5 DEF PeerOK, HeldOK, InMap, Active
  <2> QED BY <1>1, <1>2, <2>1, <2>2 DEF PeerOK
<1>7. Pt(s) # "maintain" /\ Pt(s) \in {"start"} \cup ServePoints BY DEF ServePoints
<1>8. \A t : Calm(u, t) => Calm(s, t) BY <1>2, <1>5 DEF Calm
<1>9. \A t : ResetTo(u, t) => ResetTo(s, t) BY <1>2, <1>5 DEF ResetTo
<1>10. CASE /\ Becomes(p, Goto(u, "maintain")) /\ UNCHANGED fanoutQueue
            /\ maintenance' = Append(Rearmed(p), NewSweep(p, {}))
  <2> DEFINE t == Goto(u, "maintain")
  <2>1. "maintain" \in ServePoints BY DEF ServePoints
  <2>2. /\ Calm(u, t) /\ SameRest(u, t) /\ Pt(t) = "maintain"
        /\ \A kind : Has(t, kind) <=> Has(u, kind)
    BY <1>2, <1>6, <2>1, ServeGoto
  <2>3. peer' = [peer EXCEPT ![p] = t] BY <1>10 DEF Becomes
  <2> HIDE DEF t
  <2>4. peer' = [peer EXCEPT ![p] = peer'[p]] /\ peer'[p] = t BY <1>1, <2>3
  <2>5. ~Has(s, "swept") BY <1>1, <1>4 DEF PeerOK, PhaseOK, Removals
  <2>6. Fresh(t) BY <1>2, <1>5, <2>2, <2>5 DEF Fresh, SameRest
  <2>7. MaintenanceStep(p) BY <1>7, <1>10, <2>2, <2>4 DEF MaintenanceStep
  <2>8. Alone(p) BY <2>4, MessageAlone
  <2> QED BY <1>7, <1>8, <1>10, <2>2, <2>4, <2>6, <2>7, <2>8, CalmStep
<1>11. CASE Dispatch(p, u) /\ maintenance' = maintenance
  <2>1. \/ \E t : Becomes(p, t) /\ fanoutQueue' = fanoutQueue /\ Calm(u, t) /\ Pt(t) # "maintain"
        \/ Ends(p, u, fanoutQueue)
    BY <1>2, <1>6, <1>11, DispatchIs
  <2>2. MaintenanceStep(p) BY <1>7, <1>11 DEF MaintenanceStep
  <2>3. ASSUME NEW t, Becomes(p, t), fanoutQueue' = fanoutQueue, Calm(u, t), Pt(t) # "maintain"
        PROVE  RoomStep(p)
    <3>1. peer' = [peer EXCEPT ![p] = peer'[p]] /\ peer'[p] = t BY <1>1, <2>3 DEF Becomes
    <3>2. Alone(p) BY <3>1, MessageAlone
    <3> QED BY <1>7, <1>8, <2>2, <2>3, <3>1, <3>2, CalmStep DEF Fresh
  <2>4. CASE Ends(p, u, fanoutQueue)
    <3>1. CanReset(u) BY <1>2, <1>6, PeerCanReset
    <3>2. /\ peer' = [peer EXCEPT ![p] = peer'[p]] /\ ResetTo(u, peer'[p])
          /\ fanoutQueue' = IF u.fanoutRetained THEN Append(fanoutQueue, p) ELSE fanoutQueue
      BY <1>1, <2>4, <3>1, ResetsIs
    <3>3. Quits(p, fanoutQueue) BY <1>2, <1>9, <3>2 DEF Quits
    <3>4. Alone(p) BY <3>2, MessageAlone
    <3>5. Pt(s) \notin ResetPoints BY DEF ResetPoints, ReleasePoints
    <3> QED BY <2>2, <3>3, <3>4, <3>5, QuitStep
  <2> QED BY <2>1, <2>3, <2>4
<1> QED BY <1>3, <1>10, <1>11

LEMMA StartJobKeeps ==
  ASSUME RoomInv, NEW p \in Peer, StartJob(p) PROVE RoomStep(p)
<1> DEFINE s == peer[p]
<1>1. At(p, "start") BY DEF StartJob
<1>2. /\ PeerOK(s) /\ peer \in [Peer -> PeerState] /\ StoreTypes
      /\ s.queue # <<>> /\ Pt(s) = "start" /\ Running(s) = s.queue[1] /\ CanReset(s)
  BY <1>1, AtIs, InvIs
<1>3. /\ Succeeds /\ StoreTypes'
      /\ UNCHANGED <<closing, retainers, subscription, leases>>
  BY <1>2 DEF StartJob, Succeeds, StoreTypes, viewVars, storeVars
<1>4. \/ Resets(p, s, fanoutQueue) /\ UNCHANGED maintenance
      \/ /\ s.queue[1].kind \in Requests
         /\ \/ Becomes(p, Done(s)) /\ UNCHANGED <<fanoutQueue, maintenance>>
            \/ Becomes(p, Goto(s, "refresh")) /\ UNCHANGED <<fanoutQueue, maintenance>>
            \/ Live(s) /\ Maintain(p, s)
  BY <1>2 DEF StartJob
<1>5. CASE Resets(p, s, fanoutQueue) /\ UNCHANGED maintenance
  <2>1. peer' = [peer EXCEPT ![p] = peer'[p]] /\ Quits(p, fanoutQueue)
    BY <1>2, <1>5, ResetsIs DEF Quits
  <2>2. Alone(p) BY <1>3, <2>1, MessageAlone
  <2>3. Pt(s) \notin ResetPoints BY <1>2 DEF ResetPoints, ReleasePoints
  <2>4. MaintenanceStep(p) BY <1>2, <1>5 DEF MaintenanceStep
  <2> QED BY <1>3, <2>1, <2>2, <2>3, <2>4, QuitStep
<1>6. ASSUME NEW t, Becomes(p, t), UNCHANGED <<fanoutQueue, maintenance>>, Calm(s, t),
             Pt(t) # "maintain"
      PROVE  RoomStep(p)
  <2>1. peer' = [peer EXCEPT ![p] = peer'[p]] /\ peer'[p] = t BY <1>2, <1>6 DEF Becomes
  <2>2. Alone(p) BY <1>3, <2>1, MessageAlone
  <2>3. MaintenanceStep(p) BY <1>2, <1>6 DEF MaintenanceStep
  <2>4. Fresh(t) BY <1>6 DEF Fresh
  <2> QED BY <1>2, <1>3, <1>6, <2>1, <2>2, <2>3, <2>4, CalmStep
<1>7. CASE /\ s.queue[1].kind \in Requests
           /\ Becomes(p, Done(s)) /\ UNCHANGED <<fanoutQueue, maintenance>>
  <2>1. Calm(s, Done(s)) /\ Pt(Done(s)) # "maintain" BY <1>2, <1>7, ServeDone DEF IdlePoints
  <2> QED BY <1>6, <1>7, <2>1
<1>8. CASE /\ s.queue[1].kind \in Requests
           /\ Becomes(p, Goto(s, "refresh")) /\ UNCHANGED <<fanoutQueue, maintenance>>
  <2>1. "refresh" \in ServePoints BY DEF ServePoints
  <2>2. Calm(s, Goto(s, "refresh")) /\ Pt(Goto(s, "refresh")) # "maintain"
    BY <1>2, <1>8, <2>1, ServeGoto
  <2> QED BY <1>6, <1>8, <2>2
<1>9. CASE s.queue[1].kind \in Requests /\ Live(s) /\ Maintain(p, s)
  BY <1>2, <1>3, <1>9, MaintainKeeps
<1> QED BY <1>4, <1>5, <1>7, <1>8, <1>9

LEMMA RefreshedKeeps ==
  ASSUME RoomInv, NEW p \in Peer, Refreshed(p) PROVE RoomStep(p)
<1> DEFINE s == peer[p]
<1>1. At(p, "refresh") /\ "refresh" \in ServePoints \ {"maintain"} BY DEF Refreshed, ServePoints
<1>2. /\ PeerOK(s) /\ s.queue # <<>> /\ Pt(s) = "refresh" /\ s.queue[1].kind \in Requests
      /\ StoreTypes
  BY <1>1, AtIs, ServingIs
<1>3. /\ Succeeds \/ Fails
      /\ StoreTypes'
      /\ UNCHANGED <<closing, retainers, subscription, leases>>
  BY <1>2 DEF Refreshed, StoreTypes, viewVars, storeVars
<1>4. \/ Live(s) /\ Maintain(p, s)
      \/ Becomes(p, Done(s)) /\ UNCHANGED <<fanoutQueue, maintenance>>
      \/ Ends(p, s, fanoutQueue) /\ UNCHANGED maintenance
  BY DEF Refreshed
<1>5. CASE Live(s) /\ Maintain(p, s) BY <1>2, <1>3, <1>5, MaintainKeeps
<1>6. CASE \/ Becomes(p, Done(s)) /\ UNCHANGED <<fanoutQueue, maintenance>>
           \/ Ends(p, s, fanoutQueue) /\ UNCHANGED maintenance
  <2> DEFINE t == Done(s)
  <2>1. Calm(s, t) /\ Pt(t) # "maintain" BY <1>2, ServeDone DEF IdlePoints
  <2> HIDE DEF t
  <2>2. \/ Ends(p, s, fanoutQueue)
        \/ Becomes(p, t) /\ UNCHANGED fanoutQueue
    BY <1>6 DEF t
  <2>3. UNCHANGED maintenance BY <1>6
  <2> QED BY <1>1, <1>3, <2>1, <2>2, <2>3, ServedStep
<1> QED BY <1>4, <1>5, <1>6

LEMMA MessageStepKeeps ==
  ASSUME RoomInv, NEW p \in Peer, MessageStep(p) PROVE RoomStep(p)
BY StartJobKeeps, RefreshedKeeps, MemberSetKeeps, LeaseCheckedKeeps, PublishedKeeps, ListedKeeps,
   LeavesPublishedKeeps, HeartbeatLeaseKeeps, HeartbeatMemberKeeps, MemberReadKeeps
   DEF MessageStep

-----------------------------------------------------------------------------
(* A reset, from one await to the next.                                    *)

LEMMA ReleasingIs ==
  ASSUME RoomInv, NEW p \in Peer, NEW point \in ResetPoints, At(p, point)
  PROVE  Leaves(peer[p]) /\ Pt(peer[p]) = point
<1>1. PeerOK(peer[p]) /\ peer[p].queue # <<>> /\ Pt(peer[p]) = point BY InvIs, AtIs
<1> QED BY <1>1 DEF PeerOK, PhaseOK, HeldOK, Leaves

LEMMA ReleaseStep ==
  ASSUME RoomInv, NEW p \in Peer, Alone(p), maintenance' = maintenance,
         NEW point \in ResetPoints, At(p, point), ResetTo(peer[p], peer'[p]),
         fanoutQueue' = fanoutQueue \/ (HoldsLock(p) /\ fanoutQueue' = Tail(fanoutQueue)),
         retainers' = IF point = "release-lock"
                      THEN IF retainers = 0 THEN 0 ELSE retainers - 1
                      ELSE retainers,
         subscription' = subscription \/ subscription' = FALSE,
         leases' = IF point = "lease-release" THEN leases \ {p} ELSE leases
  PROVE  RoomStep(p)
<1> DEFINE s == peer[p]   t == peer'[p]
<1>1. /\ PeerOK(s) /\ s \in PeerState /\ subscription \in BOOLEAN /\ leases \subseteq Peer
      /\ p \in leases => HasLease(s)
  BY InvIs DEF RoomInv, TypeOK
<1>2. Leaves(s) /\ Pt(s) = point BY ReleasingIs
<1>3. PeerOK(t) /\ t \in PeerState /\ ~s.fanoutRetained BY <1>2 DEF ResetTo, PeerOK, Leaves
<1>4. ~Counts(t) BY <1>3 DEF Counts, ResetTo
<1>5. Counts(s) <=> point = "release-lock" BY <1>2, <1>3 DEF Counts
<1>6. HasLease(t) <=> s.lease BY DEF ResetTo
<1>7. /\ Pt(t) \in IdlePoints \cup (ResetPoints \ {"unsubscribe"})
      /\ Has(s, "closed") => Has(t, "closed") \/ (~HasLease(t) /\ Pt(t) \in IdlePoints)
      /\ Has(t, "closed") => Has(s, "closed")
  BY DEF ResetTo
<1>8. ~HasLease(t) => Settled(t) BY <1>7 DEF Settled, ResetPoints, ReleasePoints, IdlePoints
<1>9. Settled(s) \/ ~HasLease(t) => Settled(t) BY <1>6, <1>8 DEF Settled, HasLease
<1>17. subscription' \in BOOLEAN /\ (subscription' => subscription)
  <2>1. CASE subscription' = subscription BY <1>1, <2>1
  <2>2. CASE subscription' = FALSE
    <3>1. ~subscription' BY <2>2
    <3>2. subscription' \in BOOLEAN BY <2>2
    <3> QED BY <3>1, <3>2
  <2> QED BY <2>1, <2>2
<1>10. Pt(t) \notin HoldPoints /\ Pt(t) # "maintain"
  BY <1>7 DEF HoldPoints, ResetPoints, ReleasePoints, IdlePoints
<1>11. Pt(s) # "maintain" BY <1>2 DEF ResetPoints, ReleasePoints
<1> HIDE DEF s, t
<1>12. LockStep(p) BY <1>10 DEF LockStep, t
<1>13. CountStep(p) BY <1>4, <1>5 DEF CountStep, s, t
<1>14. LeaseStep(p) BY <1>1, <1>2, <1>6 DEF LeaseStep, HasLease, s, t
<1>15. CloseStep(p) BY <1>7, <1>9, <1>17 DEF CloseStep, Alone, s, t
<1>16. MaintenanceStep(p) BY <1>11 DEF MaintenanceStep, s, t
<1> QED BY <1>3, <1>10, <1>12, <1>13, <1>14, <1>15, <1>16 DEF RoomStep, Alone, Fresh, t

LEMMA FanoutReleasedKeeps ==
  ASSUME RoomInv, NEW p \in Peer, FanoutReleased(p) PROVE RoomStep(p)
<1> DEFINE s == peer[p]   u == Goto(s, "unsubscribe")
<1>1. /\ At(p, "release-lock") /\ HoldsLock(p)
      /\ "release-lock" \in ResetPoints /\ "unsubscribe" \in ResetPoints
      /\ "unsubscribe" \in Points
  BY DEF FanoutReleased, ResetPoints, ReleasePoints, Points
<1>2. /\ Leaves(s) /\ Pt(s) = "release-lock" /\ PeerOK(s) /\ s.queue # <<>>
      /\ s \in PeerState /\ QueueOK(s.queue)
      /\ peer \in [Peer -> PeerState] /\ StoreTypes /\ subscription \in BOOLEAN
      /\ p \in leases => HasLease(s)
  BY <1>1, ReleasingIs, AtIs, InvIs
<1>3. /\ retainers' = IF retainers = 0 THEN 0 ELSE retainers - 1
      /\ \/ Becomes(p, u) /\ UNCHANGED fanoutQueue
         \/ Becomes(p, ReleaseLease(s)) /\ fanoutQueue' = Tail(fanoutQueue)
      /\ Succeeds /\ StoreTypes'
      /\ UNCHANGED <<closing, subscription, maintenance, leases>>
  BY <1>2 DEF FanoutReleased, Succeeds, StoreTypes, viewVars, storeVars
<1>4. CASE Becomes(p, ReleaseLease(s)) /\ fanoutQueue' = Tail(fanoutQueue)
  <2>1. ResetTo(s, ReleaseLease(s)) BY <1>2, ReleaseLeaseIs
  <2>2. peer' = [peer EXCEPT ![p] = peer'[p]] /\ peer'[p] = ReleaseLease(s)
    BY <1>2, <1>4 DEF Becomes
  <2>3. Alone(p) BY <1>3, <2>2, MessageAlone
  <2>4. ResetTo(peer[p], peer'[p]) BY <2>1, <2>2
  <2> QED BY <1>1, <1>3, <1>4, <2>3, <2>4, ReleaseStep
<1>5. CASE Becomes(p, u) /\ UNCHANGED fanoutQueue
  <2>1. /\ u \in PeerState /\ SameRest(s, u) /\ QueueOK(u.queue) /\ u.queue # <<>>
        /\ Pt(u) = "unsubscribe" /\ (\A kind : Has(u, kind) <=> Has(s, kind))
    BY <1>1, <1>2, GotoIs
  <2>2. peer' = [peer EXCEPT ![p] = u] BY <1>5 DEF Becomes
  <2> HIDE DEF u
  <2>3. peer' = [peer EXCEPT ![p] = peer'[p]] /\ peer'[p] = u BY <1>2, <2>2
  <2>4. PhaseOK(u) BY <1>2, <2>1 DEF PeerOK, PhaseOK, SameRest
  <2>5. HeldOK(u)
    BY <1>1, <1>2, <2>1 DEF PeerOK, HeldOK, SameRest, SetupPoints, ReleasePoints, InMap, Active
  <2>6. PeerOK(u) /\ ~u.fanoutRetained BY <1>2, <2>1, <2>4, <2>5 DEF PeerOK, SameRest, Leaves
  <2>7. LockStep(p) BY <1>1, <1>5 DEF LockStep
  <2>8. CountStep(p) BY <1>2, <1>3, <2>1, <2>3, <2>6 DEF CountStep, Counts
  <2>9. LeaseStep(p) BY <1>2, <1>3, <2>1, <2>3 DEF LeaseStep, HasLease, SameRest
  <2>10. Alone(p) BY <1>3, <2>3, MessageAlone
  <2>11. Settled(s) => Settled(u) BY <2>1 DEF Settled, HasLease, SameRest
  <2>12. CloseStep(p) BY <1>2, <1>3, <2>1, <2>3, <2>10, <2>11 DEF CloseStep, Alone
  <2>13. MaintenanceStep(p) BY <1>2, <1>3 DEF MaintenanceStep
  <2> QED BY <2>1, <2>3, <2>6, <2>7, <2>8, <2>9, <2>10, <2>12, <2>13 DEF RoomStep, Alone, Fresh
<1> QED BY <1>3, <1>4, <1>5

LEMMA UnsubscribedKeeps ==
  ASSUME RoomInv, NEW p \in Peer, Unsubscribed(p) PROVE RoomStep(p)
<1> DEFINE s == peer[p]   t == ReleaseLease(s)
<1>1. At(p, "unsubscribe") /\ "unsubscribe" \in ResetPoints
  BY DEF Unsubscribed, ResetPoints, ReleasePoints
<1>2. /\ Leaves(s) /\ Pt(s) = "unsubscribe" /\ peer \in [Peer -> PeerState] /\ StoreTypes
  BY <1>1, ReleasingIs, InvIs
<1>3. HoldsLock(p) BY <1>2 DEF RoomInv, LockOK, HoldPoints
<1>4. /\ Becomes(p, t) /\ fanoutQueue' = Tail(fanoutQueue)
      /\ subscription' = subscription \/ subscription' = FALSE
      /\ Succeeds \/ Fails
      /\ StoreTypes'
      /\ UNCHANGED <<closing, retainers, maintenance, leases>>
  BY <1>2 DEF Unsubscribed, StoreTypes, viewVars, storeVars
<1>5. ResetTo(s, t) BY <1>2, ReleaseLeaseIs
<1> HIDE DEF t
<1>6. peer' = [peer EXCEPT ![p] = peer'[p]] /\ peer'[p] = t BY <1>2, <1>4 DEF Becomes
<1>7. Alone(p) BY <1>4, <1>6, MessageAlone
<1>8. ResetTo(peer[p], peer'[p]) BY <1>5, <1>6
<1> QED BY <1>1, <1>3, <1>4, <1>7, <1>8, ReleaseStep

LEMMA LeaseReleasedKeeps ==
  ASSUME RoomInv, NEW p \in Peer, LeaseReleased(p) PROVE RoomStep(p)
<1> DEFINE s == peer[p]   t == RemoveMember(s)
<1>1. At(p, "lease-release") /\ "lease-release" \in ResetPoints
  BY DEF LeaseReleased, ResetPoints, ReleasePoints
<1>2. /\ Leaves(s) /\ Pt(s) = "lease-release" /\ PeerOK(s)
      /\ peer \in [Peer -> PeerState] /\ StoreTypes
  BY <1>1, ReleasingIs, InvIs
<1>3. ~s.lease BY <1>2 DEF PeerOK, HeldOK
<1>4. /\ Becomes(p, t) /\ leases' = leases \ {p} /\ Succeeds /\ StoreTypes'
      /\ UNCHANGED <<closing, fanoutQueue, retainers, subscription, maintenance>>
  BY <1>2 DEF LeaseReleased, Succeeds, StoreTypes, roomVars, viewVars, storeVars
<1>5. ResetTo(s, t) BY <1>2, <1>3, RemoveMemberIs
<1> HIDE DEF t
<1>6. peer' = [peer EXCEPT ![p] = peer'[p]] /\ peer'[p] = t BY <1>2, <1>4 DEF Becomes
<1>7. Alone(p) BY <1>4, <1>6, MessageAlone
<1>8. ResetTo(peer[p], peer'[p]) BY <1>5, <1>6
<1> QED BY <1>1, <1>4, <1>7, <1>8, ReleaseStep

LEMMA MemberRemovedKeeps ==
  ASSUME RoomInv, NEW p \in Peer, MemberRemoved(p) PROVE RoomStep(p)
<1> DEFINE s == peer[p]
<1>1. At(p, "member-remove") /\ "member-remove" \in ResetPoints
  BY DEF MemberRemoved, ResetPoints
<1>2. /\ Leaves(s) /\ Pt(s) = "member-remove" /\ PeerOK(s)
      /\ peer \in [Peer -> PeerState] /\ StoreTypes
  BY <1>1, ReleasingIs, InvIs
<1>3. ~s.lease BY <1>2 DEF PeerOK, HeldOK
<1>4. /\ Succeeds \/ Fails
      /\ StoreTypes'
      /\ UNCHANGED <<closing, fanoutQueue, retainers, subscription, maintenance, leases>>
  BY <1>2 DEF MemberRemoved, StoreTypes, roomVars, viewVars, storeVars
<1>5. PICK removed : Becomes(p, AfterRemoval(s, removed)) BY DEF MemberRemoved
<1> DEFINE t == AfterRemoval(s, removed)
<1>6. ResetTo(s, t) BY <1>2, <1>3, AfterRemovalIs
<1> HIDE DEF t
<1>7. peer' = [peer EXCEPT ![p] = t] BY <1>5 DEF Becomes, t
<1>8. peer' = [peer EXCEPT ![p] = peer'[p]] /\ peer'[p] = t BY <1>2, <1>7
<1>9. Alone(p) BY <1>4, <1>8, MessageAlone
<1>10. ResetTo(peer[p], peer'[p]) BY <1>6, <1>8
<1> QED BY <1>1, <1>4, <1>9, <1>10, ReleaseStep

LEMMA LeavePublishedKeeps ==
  ASSUME RoomInv, NEW p \in Peer, LeavePublished(p) PROVE RoomStep(p)
<1> DEFINE s == peer[p]   t == FinishReset(s)
<1>1. At(p, "publish-leave") /\ "publish-leave" \in ResetPoints
  BY DEF LeavePublished, ResetPoints
<1>2. /\ Leaves(s) /\ Pt(s) = "publish-leave" /\ PeerOK(s)
      /\ peer \in [Peer -> PeerState] /\ StoreTypes
  BY <1>1, ReleasingIs, InvIs
<1>3. ~s.lease BY <1>2 DEF PeerOK, HeldOK
<1>4. /\ Becomes(p, t) /\ (Succeeds \/ Fails) /\ StoreTypes'
      /\ UNCHANGED <<closing, fanoutQueue, retainers, subscription, maintenance, leases>>
  BY <1>2 DEF LeavePublished, StoreTypes, roomVars, storeVars
<1>5. ResetTo(s, t) BY <1>2, <1>3, FinishResetIs
<1> HIDE DEF t
<1>6. peer' = [peer EXCEPT ![p] = peer'[p]] /\ peer'[p] = t BY <1>2, <1>4 DEF Becomes
<1>7. Alone(p) BY <1>4, <1>6, MessageAlone
<1>8. ResetTo(peer[p], peer'[p]) BY <1>5, <1>6
<1> QED BY <1>1, <1>4, <1>7, <1>8, ReleaseStep

LEMMA ResetStepKeeps ==
  ASSUME RoomInv, NEW p \in Peer, ResetStep(p) PROVE RoomStep(p)
BY FanoutReleasedKeeps, UnsubscribedKeeps, LeaseReleasedKeeps, MemberRemovedKeeps,
   LeavePublishedKeeps DEF ResetStep

-----------------------------------------------------------------------------
(* The setup of a session, from one await to the next.                     *)

LEMMA SettingUpIs ==
  ASSUME RoomInv, NEW p \in Peer, NEW point \in SetupPoints, At(p, point)
  PROVE  /\ PeerOK(peer[p]) /\ peer[p].queue # <<>> /\ Pt(peer[p]) = point
         /\ peer[p].phase = "authenticating" /\ ~Active(peer[p])
         /\ ~peer[p].fanoutRetained
         /\ peer[p].queue[1].kind \notin Removals
         /\ point \in {"authorize", "recheck"} => ~peer[p].lease
         /\ point \notin {"authorize", "recheck"} => ~Settled(peer[p])
<1>1. /\ PeerOK(peer[p]) /\ peer[p].queue # <<>> /\ Pt(peer[p]) = point
      /\ JobOK(peer[p].queue[1]) /\ peer[p].queue[1].at = point
  BY AtIs, InvIs
<1>2. peer[p].phase = "authenticating" BY <1>1 DEF PeerOK, HeldOK
<1>3. ~Active(peer[p]) BY <1>2 DEF Active
<1>4. point \notin ResetPoints \cup {"start"} BY DEF SetupPoints, ResetPoints, ReleasePoints
<1>5. point \notin {"authorize", "recheck"} => ~Settled(peer[p])
  BY <1>1 DEF Settled, SetupPoints
<1> QED BY <1>1, <1>2, <1>3, <1>4, <1>5 DEF JobOK, PeerOK, HeldOK

\* A setup goes on, and its peer may take the lock, a lease or the fan-out.
LEMMA SetupGoes ==
  ASSUME RoomInv, NEW p \in Peer, Alone(p), maintenance' = maintenance,
         NEW point \in SetupPoints, At(p, point),
         NEW t, peer'[p] = t, PeerOK(t), Pt(t) \in SetupPoints \cup IdlePoints,
         retainers' = (IF t.fanoutRetained THEN retainers + 1 ELSE retainers),
         LockStep(p), LeaseStep(p),
         Has(t, "closed") <=> Has(peer[p], "closed"),
         point \in {"authorize", "recheck"} => closing = "open",
         subscription' \in BOOLEAN,
         subscription' => subscription \/ point = "subscribe"
  PROVE  RoomStep(p)
<1>1. /\ ~peer[p].fanoutRetained /\ Pt(peer[p]) = point
      /\ point \notin {"authorize", "recheck"} => ~Settled(peer[p])
  BY SettingUpIs
<1>2. Pt(t) # "release-lock" /\ Pt(t) # "maintain"
  BY DEF SetupPoints, IdlePoints
<1>3. point # "release-lock" /\ point # "maintain" BY DEF SetupPoints
<1>4. t.fanoutRetained \in BOOLEAN BY DEF PeerOK, PeerState
<1>5. CountStep(p) BY <1>1, <1>2, <1>3, <1>4 DEF CountStep, Counts
<1>6. CloseStep(p) BY <1>1 DEF CloseStep, Alone
<1>7. MaintenanceStep(p) BY <1>1, <1>3 DEF MaintenanceStep
<1> QED BY <1>2, <1>5, <1>6, <1>7 DEF RoomStep, Alone, Fresh

\* A setup ends its session: u is its peer with what it has just got.
LEMMA SetupQuits ==
  ASSUME RoomInv, NEW p \in Peer, Alone(p), maintenance' = maintenance,
         NEW point \in SetupPoints, At(p, point),
         NEW t, peer'[p] = t, NEW u \in PeerState, u.queue = peer[p].queue, ResetTo(u, t),
         NEW lock, lock = fanoutQueue \/ (HoldsLock(p) /\ lock = Tail(fanoutQueue)),
         fanoutQueue' = (IF u.fanoutRetained THEN Append(lock, p) ELSE lock),
         retainers' = (IF u.fanoutRetained THEN retainers + 1 ELSE retainers),
         leases' \subseteq leases \cup {p}, p \in leases' => u.lease,
         point \in {"authorize", "recheck"} => ~u.lease,
         subscription' \in BOOLEAN,
         subscription' => subscription \/ point = "subscribe"
  PROVE  RoomStep(p)
<1>1. /\ ~peer[p].fanoutRetained /\ Pt(peer[p]) = point
      /\ point \notin {"authorize", "recheck"} => ~Settled(peer[p])
  BY SettingUpIs
<1>2. \A kind : Has(u, kind) <=> Has(peer[p], kind) BY DEF Has
<1>3. PeerOK(t) /\ ~t.fanoutRetained /\ (Pt(t) = "release-lock" <=> u.fanoutRetained)
      /\ (HasLease(t) <=> u.lease)
      /\ Pt(t) \in IdlePoints \cup (ResetPoints \ {"unsubscribe"})
  BY DEF ResetTo
<1>4. /\ Has(peer[p], "closed") => Has(t, "closed") \/ (~HasLease(t) /\ Pt(t) \in IdlePoints)
      /\ Has(t, "closed") => Has(peer[p], "closed")
  BY <1>2 DEF ResetTo
<1>5. Pt(t) \notin HoldPoints /\ Pt(t) # "maintain"
  BY <1>3 DEF HoldPoints, ResetPoints, ReleasePoints, IdlePoints
<1>6. ~HasLease(t) => Settled(t)
  BY <1>3 DEF Settled, ResetPoints, ReleasePoints, IdlePoints
<1>7. point # "release-lock" /\ point # "maintain" BY DEF SetupPoints
<1>8. u.fanoutRetained \in BOOLEAN /\ u.lease \in BOOLEAN BY DEF PeerState
<1>9. LockStep(p) BY <1>5, <1>8 DEF LockStep
<1>10. CountStep(p) BY <1>1, <1>3, <1>7, <1>8 DEF CountStep, Counts
<1>11. LeaseStep(p) BY <1>3 DEF LeaseStep
<1>12. Settled(peer[p]) => Settled(t) BY <1>1, <1>3, <1>6
<1>13. CloseStep(p) BY <1>1, <1>4, <1>6, <1>12 DEF CloseStep, Alone
<1>14. MaintenanceStep(p) BY <1>1, <1>7 DEF MaintenanceStep
<1> QED BY <1>3, <1>5, <1>9, <1>10, <1>11, <1>13, <1>14 DEF RoomStep, Alone, Fresh

\* A setup goes on to its next await; u is its peer with what it has just got.
LEMMA SetupGoto ==
  ASSUME NEW s, PeerOK(s), s.queue # <<>>, s.queue[1].kind \notin Removals,
         s.phase = "authenticating", ~s.fanoutRetained,
         NEW u \in PeerState, u.queue = s.queue, u.phase = s.phase,
         u.leaveRequested = s.leaveRequested, ~u.fanoutRetained,
         NEW point \in SetupPoints \ {"authorize", "recheck"}
  PROVE  LET t == Goto(u, point) IN
         /\ PeerOK(t) /\ SameRest(u, t) /\ Pt(t) = point
         /\ \A kind : Has(t, kind) <=> Has(s, kind)
<1> DEFINE t == Goto(u, point)
<1>1. point \in Points /\ QueueOK(u.queue) BY DEF SetupPoints, Points, PeerOK
<1>2. /\ t \in PeerState /\ SameRest(u, t) /\ QueueOK(t.queue) /\ Pt(t) = point
      /\ \A kind : Has(t, kind) <=> Has(u, kind)
  BY <1>1, GotoIs
<1>3. \A kind : Has(u, kind) <=> Has(s, kind) BY DEF Has
<1> HIDE DEF t
<1>4. PhaseOK(t) BY <1>2, <1>3 DEF PeerOK, PhaseOK, SameRest
<1>5. HeldOK(t)
  BY <1>2 DEF HeldOK, SameRest, SetupPoints, ResetPoints, ReleasePoints
<1> QED BY <1>2, <1>3, <1>4, <1>5 DEF PeerOK, t

\* The fan-out is retained: the session starts, or is told to leave.
LEMMA StartsKeeps ==
  ASSUME RoomInv, NEW p \in Peer, NEW point \in {"fanout-lock", "subscribe"}, At(p, point),
         HoldsLock(p), Succeeds, StoreTypes', retainers' = retainers + 1,
         Starts(p, [peer[p] EXCEPT !.fanoutRetained = TRUE], Tail(fanoutQueue)),
         subscription' \in BOOLEAN, subscription' => subscription \/ point = "subscribe",
         UNCHANGED <<closing, maintenance, leases>>
  PROVE  RoomStep(p)
<1> DEFINE s == peer[p]
           u == [s EXCEPT !.fanoutRetained = TRUE]
           v == [u EXCEPT !.phase = IF u.joined THEN "joined" ELSE "authenticated",
                          !.identity = TRUE]
           t == Done(v)
<1>1. point \in SetupPoints /\ point \notin {"authorize", "recheck"} BY DEF SetupPoints
<1>2. /\ PeerOK(s) /\ s \in PeerState /\ s.queue # <<>> /\ Pt(s) = point
      /\ s.phase = "authenticating" /\ s.queue[1].kind \notin Removals
      /\ peer \in [Peer -> PeerState]
      /\ p \in leases => HasLease(s)
  BY <1>1, SettingUpIs, InvIs
<1>3. p \in leases => s.lease BY <1>2 DEF HasLease
<1>4. /\ u \in PeerState /\ u.queue = s.queue /\ u.fanoutRetained /\ u.lease = s.lease
      /\ u.phase = s.phase /\ u.leaveRequested = s.leaveRequested
  BY <1>2 DEF PeerState
<1>5. CASE Resets(p, u, Tail(fanoutQueue))
  <2> HIDE DEF u
  <2>1. CanReset(u) BY <1>2, <1>4 DEF CanReset, PeerOK
  <2>2. /\ peer' = [peer EXCEPT ![p] = peer'[p]] /\ ResetTo(u, peer'[p])
        /\ fanoutQueue' = IF u.fanoutRetained THEN Append(Tail(fanoutQueue), p)
                          ELSE Tail(fanoutQueue)
    BY <1>2, <1>5, <2>1, ResetsIs
  <2>3. Alone(p) BY <2>2, MessageAlone
  <2>4. leases' \subseteq leases \cup {p} /\ (p \in leases' => u.lease) BY <1>3, <1>4
  <2> QED BY <1>1, <1>4, <2>2, <2>3, <2>4, SetupQuits
<1>6. CASE Becomes(p, t) /\ fanoutQueue' = Tail(fanoutQueue)
  <2>1. /\ v \in PeerState /\ v.queue = s.queue /\ v.fanoutRetained /\ v.lease = s.lease
        /\ v.phase \in {"joined", "authenticated"} /\ v.leaveRequested = s.leaveRequested
    BY <1>4 DEF PeerState, Phases
  <2>2. \A kind : Has(v, kind) <=> Has(s, kind) BY <2>1 DEF Has
  <2>3. s.queue[1].kind # "closed" /\ QueueOK(s.queue) BY <1>2 DEF Removals, PeerOK
  <2> HIDE DEF v
  <2>4. /\ t \in PeerState /\ SameRest(v, t) /\ QueueOK(t.queue) /\ Pt(t) \in IdlePoints
        /\ \A kind : Has(t, kind) => Has(v, kind)
        /\ Has(v, "closed") => Has(t, "closed")
    BY <1>2, <2>1, <2>3, DoneIs
  <2>5. peer' = [peer EXCEPT ![p] = t] BY <1>6 DEF Becomes
  <2> HIDE DEF t
  <2>6. peer' = [peer EXCEPT ![p] = peer'[p]] /\ peer'[p] = t BY <1>2, <2>5
  <2>7. PhaseOK(t) BY <1>2, <2>1, <2>2, <2>4 DEF PeerOK, PhaseOK, SameRest
  <2>8. HeldOK(t)
    BY <2>1, <2>4
    DEF HeldOK, SameRest, Active, IdlePoints, SetupPoints, ResetPoints, ReleasePoints
  <2>9. PeerOK(t) /\ t.fanoutRetained BY <2>1, <2>4, <2>7, <2>8 DEF PeerOK, SameRest
  <2>10. Pt(t) \notin HoldPoints BY <2>4 DEF IdlePoints, HoldPoints
  <2>11. LockStep(p) BY <1>6, <2>6, <2>10 DEF LockStep
  <2>12. LeaseStep(p) BY <1>3, <2>1, <2>4, <2>6 DEF LeaseStep, HasLease, SameRest
  <2>13. Alone(p) BY <2>6, MessageAlone
  <2>14. Has(t, "closed") <=> Has(s, "closed") BY <2>2, <2>4
  <2>15. Pt(t) \in SetupPoints \cup IdlePoints BY <2>4
  <2> QED BY <1>1, <2>6, <2>9, <2>11, <2>12, <2>13, <2>14, <2>15, SetupGoes
<1> QED BY <1>5, <1>6 DEF Starts

\* A setup ends its session, and its peer has got nothing more.
LEMMA SetupEnds ==
  ASSUME RoomInv, NEW p \in Peer, NEW point \in SetupPoints, At(p, point),
         Succeeds \/ Fails, StoreTypes',
         NEW lock, lock = fanoutQueue \/ (HoldsLock(p) /\ lock = Tail(fanoutQueue)),
         Resets(p, peer[p], lock) \/ Ends(p, peer[p], lock),
         UNCHANGED <<closing, retainers, subscription, maintenance, leases>>
  PROVE  RoomStep(p)
<1> DEFINE s == peer[p]
<1>1. /\ s \in PeerState /\ CanReset(s) /\ Pt(s) = point /\ ~s.fanoutRetained
      /\ point \in {"authorize", "recheck"} => ~s.lease
      /\ peer \in [Peer -> PeerState] /\ subscription \in BOOLEAN
      /\ p \in leases => HasLease(s)
  BY AtIs, SettingUpIs, InvIs
<1>2. p \in leases => s.lease BY <1>1 DEF HasLease, SetupPoints
<1>3. /\ peer' = [peer EXCEPT ![p] = peer'[p]] /\ ResetTo(s, peer'[p])
      /\ fanoutQueue' = IF s.fanoutRetained THEN Append(lock, p) ELSE lock
  BY <1>1, ResetsIs
<1>4. Alone(p) BY <1>3, MessageAlone
<1>5. retainers' = IF s.fanoutRetained THEN retainers + 1 ELSE retainers BY <1>1
<1>6. leases' \subseteq leases \cup {p} /\ (p \in leases' => s.lease) BY <1>2
<1>7. subscription' \in BOOLEAN /\ (subscription' => subscription) BY <1>1
<1> QED BY <1>1, <1>3, <1>4, <1>5, <1>6, <1>7, SetupQuits

LEMMA AuthorizedKeeps ==
  ASSUME RoomInv, NEW p \in Peer, Authorized(p) PROVE RoomStep(p)
<1> DEFINE s == peer[p]
           u == [s EXCEPT !.connectionId = TRUE, !.identity = At(p, "recheck")]
           t == Goto(u, "acquire")
<1>1. PICK point \in {"authorize", "recheck"} : At(p, point) BY DEF Authorized
<1>2. point \in SetupPoints /\ "acquire" \in SetupPoints \ {"authorize", "recheck"}
  BY DEF SetupPoints
<1>3. /\ PeerOK(s) /\ s \in PeerState /\ s.queue # <<>> /\ s.queue[1].kind \notin Removals
      /\ s.phase = "authenticating" /\ ~s.fanoutRetained /\ ~s.lease /\ Pt(s) = point
      /\ peer \in [Peer -> PeerState] /\ StoreTypes /\ subscription \in BOOLEAN
      /\ p \in leases => HasLease(s)
  BY <1>1, <1>2, SettingUpIs, InvIs
<1>4. /\ Succeeds \/ Fails
      /\ StoreTypes'
      /\ UNCHANGED <<closing, retainers, subscription, maintenance, leases>>
  BY <1>3 DEF Authorized, StoreTypes, viewVars, storeVars
<1>5. \/ Resets(p, s, fanoutQueue) \/ Ends(p, s, fanoutQueue)
      \/ ~Leaving(s) /\ Becomes(p, t) /\ UNCHANGED fanoutQueue
  BY DEF Authorized
<1>6. CASE Resets(p, s, fanoutQueue) \/ Ends(p, s, fanoutQueue)
  BY <1>1, <1>2, <1>4, <1>6, SetupEnds
<1>7. CASE ~Leaving(s) /\ Becomes(p, t) /\ UNCHANGED fanoutQueue
  <2>1. /\ u \in PeerState /\ u.queue = s.queue /\ u.phase = s.phase /\ u.lease = s.lease
        /\ u.leaveRequested = s.leaveRequested /\ u.fanoutRetained = s.fanoutRetained
    <3>1. At(p, "recheck") \in BOOLEAN BY DEF At
    <3> QED BY <1>3, <3>1 DEF PeerState
  <2> HIDE DEF u
  <2>2. /\ PeerOK(t) /\ SameRest(u, t) /\ Pt(t) = "acquire"
        /\ \A kind : Has(t, kind) <=> Has(s, kind)
    BY <1>2, <1>3, <2>1, SetupGoto
  <2>3. peer' = [peer EXCEPT ![p] = t] BY <1>7 DEF Becomes
  <2> HIDE DEF t
  <2>4. peer' = [peer EXCEPT ![p] = peer'[p]] /\ peer'[p] = t BY <1>3, <2>3
  <2>5. Alone(p) BY <1>4, <2>4, MessageAlone
  <2>6. ~t.fanoutRetained /\ ~t.lease BY <1>3, <2>1, <2>2 DEF SameRest
  <2>7. LockStep(p) BY <1>7, <2>2, <2>4 DEF LockStep, HoldPoints
  <2>8. p \notin leases BY <1>1, <1>3 DEF HasLease
  <2>9. LeaseStep(p) BY <1>4, <2>8 DEF LeaseStep
  <2>10. closing = "open" BY <1>7 DEF Leaving
  <2>11. Pt(t) \in SetupPoints \cup IdlePoints BY <1>2, <2>2
  <2>12. subscription' \in BOOLEAN /\ (subscription' => subscription) BY <1>3, <1>4
  <2> QED
    BY <1>1, <1>2, <1>4, <2>2, <2>4, <2>5, <2>6, <2>7, <2>9, <2>10, <2>11, <2>12, SetupGoes
<1> QED BY <1>5, <1>6, <1>7

LEMMA AcquiredKeeps ==
  ASSUME RoomInv, NEW p \in Peer, Acquired(p) PROVE RoomStep(p)
<1> DEFINE s == peer[p]
           u == [s EXCEPT !.lease = TRUE]
           t == Goto(u, "fanout-lock")
<1>1. /\ At(p, "acquire")
      /\ "acquire" \in SetupPoints /\ "fanout-lock" \in SetupPoints \ {"authorize", "recheck"}
  BY DEF Acquired, SetupPoints
<1>2. /\ PeerOK(s) /\ s \in PeerState /\ s.queue # <<>> /\ s.queue[1].kind \notin Removals
      /\ s.phase = "authenticating" /\ ~s.fanoutRetained /\ Pt(s) = "acquire"
      /\ peer \in [Peer -> PeerState] /\ StoreTypes /\ subscription \in BOOLEAN
  BY <1>1, SettingUpIs, InvIs
<1>3. /\ Succeeds \/ Fails
      /\ StoreTypes'
      /\ UNCHANGED <<closing, retainers, subscription, maintenance>>
  BY <1>2 DEF Acquired, StoreTypes, viewVars, storeVars
<1>4. \/ Ends(p, s, fanoutQueue) /\ UNCHANGED leases
      \/ Resets(p, u, fanoutQueue) /\ leases' = leases \cup {p}
      \/ Becomes(p, t) /\ fanoutQueue' = Append(fanoutQueue, p) /\ leases' = leases \cup {p}
  BY DEF Acquired
<1>5. /\ u \in PeerState /\ u.queue = s.queue /\ u.phase = s.phase /\ u.lease
      /\ u.leaveRequested = s.leaveRequested /\ u.fanoutRetained = s.fanoutRetained
  BY <1>2 DEF PeerState
<1>6. subscription' \in BOOLEAN /\ (subscription' => subscription) BY <1>2, <1>3
<1>7. CASE Ends(p, s, fanoutQueue) /\ UNCHANGED leases BY <1>1, <1>3, <1>7, SetupEnds
<1> HIDE DEF u
<1>8. CASE Resets(p, u, fanoutQueue) /\ leases' = leases \cup {p}
  <2>1. CanReset(u) BY <1>2, <1>5 DEF CanReset, PeerOK
  <2>2. /\ peer' = [peer EXCEPT ![p] = peer'[p]] /\ ResetTo(u, peer'[p])
        /\ fanoutQueue' = IF u.fanoutRetained THEN Append(fanoutQueue, p) ELSE fanoutQueue
    BY <1>2, <1>8, <2>1, ResetsIs
  <2>3. Alone(p) BY <1>3, <2>2, MessageAlone
  <2>4. leases' \subseteq leases \cup {p} BY <1>8
  <2>5. retainers' = IF u.fanoutRetained THEN retainers + 1 ELSE retainers BY <1>2, <1>3, <1>5
  <2> QED BY <1>1, <1>3, <1>5, <1>6, <2>2, <2>3, <2>4, <2>5, SetupQuits
<1>9. CASE Becomes(p, t) /\ fanoutQueue' = Append(fanoutQueue, p) /\ leases' = leases \cup {p}
  <2>1. /\ PeerOK(t) /\ SameRest(u, t) /\ Pt(t) = "fanout-lock"
        /\ \A kind : Has(t, kind) <=> Has(s, kind)
    BY <1>1, <1>2, <1>5, SetupGoto
  <2>2. peer' = [peer EXCEPT ![p] = t] BY <1>9 DEF Becomes
  <2> HIDE DEF t
  <2>3. peer' = [peer EXCEPT ![p] = peer'[p]] /\ peer'[p] = t BY <1>2, <2>2
  <2>4. Alone(p) BY <1>3, <2>3, MessageAlone
  <2>5. ~t.fanoutRetained /\ t.lease BY <1>2, <1>5, <2>1 DEF SameRest
  <2>6. LockStep(p) BY <1>9, <2>1, <2>3 DEF LockStep, HoldPoints
  <2>7. LeaseStep(p) BY <1>9, <2>3, <2>5 DEF LeaseStep, HasLease
  <2>8. Pt(t) \in SetupPoints \cup IdlePoints BY <1>1, <2>1
  <2> QED BY <1>1, <1>3, <1>6, <2>1, <2>3, <2>4, <2>5, <2>6, <2>7, <2>8, SetupGoes
<1> QED BY <1>4, <1>7, <1>8, <1>9

\* A setup that holds the lock goes on to another await under it.
LEMMA SetupHolds ==
  ASSUME RoomInv, NEW p \in Peer, NEW point \in {"fanout-lock", "drop-stale"}, At(p, point),
         HoldsLock(p), Succeeds, StoreTypes', NEW next \in {"drop-stale", "subscribe"},
         Becomes(p, Goto(peer[p], next)),
         subscription' \in BOOLEAN, subscription' => subscription,
         UNCHANGED <<closing, fanoutQueue, retainers, maintenance, leases>>
  PROVE  RoomStep(p)
<1> DEFINE s == peer[p]   t == Goto(s, next)
<1>1. /\ point \in SetupPoints /\ point \notin {"authorize", "recheck"}
      /\ next \in SetupPoints \ {"authorize", "recheck"}
  BY DEF SetupPoints
<1>2. /\ PeerOK(s) /\ s \in PeerState /\ s.queue # <<>> /\ s.queue[1].kind \notin Removals
      /\ s.phase = "authenticating" /\ ~s.fanoutRetained /\ Pt(s) = point
      /\ peer \in [Peer -> PeerState]
      /\ p \in leases => HasLease(s)
  BY <1>1, SettingUpIs, InvIs
<1>3. /\ PeerOK(t) /\ SameRest(s, t) /\ Pt(t) = next
      /\ \A kind : Has(t, kind) <=> Has(s, kind)
  BY <1>1, <1>2, SetupGoto
<1>4. peer' = [peer EXCEPT ![p] = t] BY DEF Becomes
<1> HIDE DEF t
<1>5. peer' = [peer EXCEPT ![p] = peer'[p]] /\ peer'[p] = t BY <1>2, <1>4
<1>6. Alone(p) BY <1>5, MessageAlone
<1>7. ~t.fanoutRetained /\ t.lease = s.lease BY <1>2, <1>3 DEF SameRest
<1>8. LockStep(p) BY DEF LockStep
<1>9. p \in leases => s.lease BY <1>2 DEF HasLease
<1>10. LeaseStep(p) BY <1>5, <1>7, <1>9 DEF LeaseStep, HasLease
<1>11. Pt(t) \in SetupPoints \cup IdlePoints BY <1>1, <1>3
<1> QED BY <1>1, <1>3, <1>5, <1>6, <1>7, <1>8, <1>10, <1>11, SetupGoes

LEMMA RetainsKeeps ==
  ASSUME RoomInv, NEW p \in Peer, Retains(p) PROVE RoomStep(p)
<1>1. At(p, "fanout-lock") /\ HoldsLock(p) BY DEF Retains
<1>2. StoreTypes /\ subscription \in BOOLEAN BY InvIs
<1>3. /\ Succeeds /\ StoreTypes'
      /\ UNCHANGED <<closing, subscription, maintenance, leases>>
      /\ subscription' \in BOOLEAN /\ (subscription' => subscription)
  BY <1>2 DEF Retains, Succeeds, StoreTypes, viewVars, storeVars
<1>4. CASE /\ retainers' = retainers + 1
           /\ Starts(p, [peer[p] EXCEPT !.fanoutRetained = TRUE], Tail(fanoutQueue))
  BY <1>1, <1>3, <1>4, StartsKeeps
<1>5. ASSUME NEW next \in {"drop-stale", "subscribe"}, Becomes(p, Goto(peer[p], next)),
             UNCHANGED <<retainers, fanoutQueue>>
      PROVE  RoomStep(p)
  BY <1>1, <1>3, <1>5, SetupHolds
<1>6. \/ /\ retainers' = retainers + 1
         /\ Starts(p, [peer[p] EXCEPT !.fanoutRetained = TRUE], Tail(fanoutQueue))
      \/ \E next \in {"drop-stale", "subscribe"} :
           Becomes(p, Goto(peer[p], next)) /\ UNCHANGED <<retainers, fanoutQueue>>
  BY DEF Retains
<1> QED BY <1>4, <1>5, <1>6

LEMMA StaleDroppedKeeps ==
  ASSUME RoomInv, NEW p \in Peer, StaleDropped(p) PROVE RoomStep(p)
<1>1. At(p, "drop-stale") /\ "drop-stale" \in SetupPoints BY DEF StaleDropped, SetupPoints
<1>2. StoreTypes /\ Pt(peer[p]) = "drop-stale" BY <1>1, AtIs, InvIs
<1>3. HoldsLock(p) BY <1>2 DEF RoomInv, LockOK, HoldPoints
<1>4. /\ StoreTypes'
      /\ UNCHANGED <<closing, retainers, maintenance, leases>>
  BY <1>2 DEF StaleDropped, StoreTypes, viewVars, storeVars
<1>5. CASE /\ Succeeds /\ subscription' = FALSE
           /\ Becomes(p, Goto(peer[p], "subscribe")) /\ UNCHANGED fanoutQueue
  <2>1. subscription' \in BOOLEAN /\ ~subscription' BY <1>5
  <2> QED BY <1>1, <1>3, <1>4, <1>5, <2>1, SetupHolds
<1>6. CASE Fails /\ Ends(p, peer[p], Tail(fanoutQueue)) /\ UNCHANGED subscription
  BY <1>1, <1>3, <1>4, <1>6, SetupEnds
<1> QED BY <1>5, <1>6 DEF StaleDropped

LEMMA SubscribedKeeps ==
  ASSUME RoomInv, NEW p \in Peer, Subscribed(p) PROVE RoomStep(p)
<1>1. At(p, "subscribe") /\ "subscribe" \in SetupPoints BY DEF Subscribed, SetupPoints
<1>2. StoreTypes /\ Pt(peer[p]) = "subscribe" BY <1>1, AtIs, InvIs
<1>3. HoldsLock(p) BY <1>2 DEF RoomInv, LockOK, HoldPoints
<1>4. StoreTypes' /\ UNCHANGED <<closing, maintenance, leases>>
  BY <1>2 DEF Subscribed, StoreTypes, viewVars, storeVars
<1>5. CASE /\ Succeeds /\ subscription' = TRUE /\ retainers' = retainers + 1
           /\ Starts(p, [peer[p] EXCEPT !.fanoutRetained = TRUE], Tail(fanoutQueue))
  <2>1. subscription' \in BOOLEAN BY <1>5
  <2> QED BY <1>1, <1>3, <1>4, <1>5, <2>1, StartsKeeps
<1>6. CASE /\ Fails /\ Ends(p, peer[p], Tail(fanoutQueue))
           /\ UNCHANGED <<subscription, retainers>>
  BY <1>1, <1>3, <1>4, <1>6, SetupEnds
<1> QED BY <1>5, <1>6 DEF Subscribed

LEMMA SetupStepKeeps ==
  ASSUME RoomInv, NEW p \in Peer, SetupStep(p) PROVE RoomStep(p)
BY AuthorizedKeeps, AcquiredKeeps, RetainsKeeps, StaleDroppedKeeps, SubscribedKeeps DEF SetupStep

-----------------------------------------------------------------------------
(* Calls that queue jobs: no peer moves.                                   *)

Quiet(s, t) ==
  /\ PeerOK(t)
  /\ t.fanoutRetained = s.fanoutRetained /\ t.lease = s.lease
  /\ Pt(t) = Pt(s) \/ (Pt(s) = "none" /\ Pt(t) \in {"start", "authorize", "recheck"})
  /\ Has(s, "closed") => Has(t, "closed")

LEMMA QuietIs ==
  ASSUME NEW s, NEW t, Quiet(s, t)
  PROVE  /\ Counts(t) <=> Counts(s)
         /\ HasLease(t) <=> HasLease(s)
         /\ Settled(s) => Settled(t)
         /\ \A point \in {"maintain"} \cup HoldPoints : Pt(t) = point <=> Pt(s) = point
<1>1. Pt(t) = "release-lock" <=> Pt(s) = "release-lock" BY DEF Quiet
<1>2. Pt(t) = "lease-release" <=> Pt(s) = "lease-release" BY DEF Quiet
<1>3. (Counts(t) <=> Counts(s)) /\ (HasLease(t) <=> HasLease(s))
  BY <1>1, <1>2 DEF Counts, HasLease, Quiet
<1>4. Settled(s) => Settled(t) BY <1>3 DEF Settled, Quiet
<1> QED BY <1>3, <1>4 DEF Quiet, HoldPoints

\* One peer gets a job.
LEMMA QuietStep ==
  ASSUME RoomInv, NEW p \in Peer, NEW t, Becomes(p, t), Quiet(peer[p], t),
         Has(t, "closed") => Has(peer[p], "closed"), host.slow \/ Fresh(t),
         Succeeds \/ Sends \/ TimePasses,
         UNCHANGED <<roomVars, maintenance, leases, storeVars, viewVars>>
  PROVE  RoomInv'
<1> DEFINE s == peer[p]
<1>1. /\ peer \in [Peer -> PeerState] /\ StoreTypes /\ subscription \in BOOLEAN
      /\ p \in leases => HasLease(s)
  BY InvIs
<1>2. peer' = [peer EXCEPT ![p] = peer'[p]] /\ peer'[p] = t BY <1>1 DEF Becomes
<1>3. /\ Counts(t) <=> Counts(s)
      /\ HasLease(t) <=> HasLease(s)
      /\ Settled(s) => Settled(t)
      /\ \A point \in {"maintain"} \cup HoldPoints : Pt(t) = point <=> Pt(s) = point
  BY QuietIs
<1>4. LockStep(p) BY <1>2, <1>3 DEF LockStep, RoomInv, LockOK, roomVars
<1>5. CountStep(p) BY <1>2, <1>3 DEF CountStep, roomVars
<1>6. LeaseStep(p) BY <1>1, <1>2, <1>3 DEF LeaseStep
<1>7. host' = host /\ faults' \in Nat /\ faults' >= faults BY BoundsAre
<1>8. CloseStep(p) BY <1>1, <1>2, <1>3, <1>7 DEF CloseStep, Quiet, roomVars
<1>9. MaintenanceStep(p) BY <1>2, <1>3 DEF MaintenanceStep
<1>10. StoreTypes' BY <1>1 DEF StoreTypes, storeVars, viewVars
<1>11. RoomStep(p)
  BY <1>2, <1>4, <1>5, <1>6, <1>7, <1>8, <1>9, <1>10 DEF RoomStep, Quiet
<1> QED BY <1>11, RoomStepKeeps

LEMMA SweepsStay ==
  ASSUME RoomInv, maintenance' \in Seq(Sweep), DOMAIN maintenance' = DOMAIN maintenance,
         \A i \in DOMAIN maintenance : maintenance'[i].by = maintenance[i].by,
         \A q \in Peer : Pt(peer[q]) = "maintain" => Pt(peer'[q]) = "maintain"
  PROVE  SweepsOK'
<1>1. maintenance \in Seq(Sweep) /\ SweepsOK BY DEF RoomInv, TypeOK
<1>2. \A i \in DOMAIN maintenance : maintenance[i] \in Sweep BY <1>1
<1>3. \A i \in DOMAIN maintenance : maintenance[i].by # Alarm => maintenance[i].by \in Peer
  BY <1>2 DEF Sweep
<1>4. \A i \in DOMAIN maintenance :
        maintenance'[i].by # Alarm => Pt(peer'[maintenance'[i].by]) = "maintain"
  BY <1>1, <1>3 DEF SweepsOK
<1> QED BY <1>1, <1>4 DEF SweepsOK, Pt

\* Many peers get one, or the room goes on without them.
LEMMA QuietKeeps ==
  ASSUME RoomInv, peer' \in [Peer -> PeerState],
         \A q \in Peer : Quiet(peer[q], peer'[q]),
         UNCHANGED <<fanoutQueue, retainers, subscription, leases, host>>,
         maintenance' \in Seq(Sweep), SweepsOK', StoreTypes', CloseOK', WaitOK',
         closing' \in {"open", "draining", "lock", "closed"},
         closing' \in {"open", "draining"} => closing \in {"open", "draining"}
  PROVE  RoomInv'
<1>1. \A q \in Peer :
        /\ Counts(peer'[q]) <=> Counts(peer[q])
        /\ HasLease(peer'[q]) <=> HasLease(peer[q])
        /\ Pt(peer'[q]) \in HoldPoints => Pt(peer[q]) \in HoldPoints
  BY QuietIs
<1>2. PeersOK' BY DEF PeersOK, Quiet
<1>3. LockOK' BY <1>1 DEF RoomInv, LockOK, HoldsLock, Pt
<1>4. Retaining' = Retaining BY <1>1 DEF Retaining, Counts, Pt
<1>5. CountOK' BY <1>4 DEF RoomInv, CountOK
<1>6. LeasesOK' BY <1>1 DEF RoomInv, TypeOK, LeasesOK, HasLease, Pt
<1>7. TypeOK' BY DEF RoomInv, TypeOK, StoreTypes
<1> QED BY <1>2, <1>3, <1>5, <1>6, <1>7 DEF RoomInv

\* What queueing a job does to a peer in the room.
LEMMA QueuedIs ==
  ASSUME NEW s, PeerOK(s), NEW u \in PeerState, u.queue = s.queue,
         u.fanoutRetained = s.fanoutRetained, u.lease = s.lease, u.phase = s.phase,
         s.leaveRequested => u.leaveRequested, InMap(s),
         NEW kind \in Requests \cup Removals,
         kind \in Requests => Active(s), kind \in Removals => u.leaveRequested
  PROVE  LET t == Enqueue(u, kind, "start") IN
         /\ Quiet(s, t) /\ SameRest(u, t)
         /\ \A other : Has(t, other) <=> Has(s, other) \/ other = kind
<1> DEFINE t == Enqueue(u, kind, "start")
<1>1. s \in PeerState /\ QueueOK(u.queue) BY DEF PeerOK
<1>2. Pt(u) = Pt(s) /\ (\A other : Has(u, other) <=> Has(s, other)) BY DEF Pt, Has
<1>3. /\ t \in PeerState /\ SameRest(u, t) /\ QueueOK(t.queue)
      /\ Pt(t) = IF u.queue = <<>> THEN "start" ELSE Pt(u)
      /\ \A other : Has(t, other) <=> Has(u, other) \/ other = kind
  BY <1>1, EnqueueIs
<1>4. u.queue = <<>> <=> Pt(s) = "none" BY <1>1, HasHead
<1> HIDE DEF t
<1>5. Pt(t) = Pt(s) \/ (Pt(s) = "none" /\ Pt(t) = "start") BY <1>2, <1>3, <1>4
<1>6. PhaseOK(t)
  <2>1. t.phase \notin {"absent", "asleep"} BY <1>3 DEF InMap, SameRest
  <2>2. t.phase = "connected" => kind \in Removals BY <1>3 DEF Active, SameRest
  <2>3. \A other \in Removals : Has(t, other) => t.leaveRequested
    <3>1. kind \in Requests => kind \notin Removals BY DEF Requests, Removals
    <3> QED BY <1>2, <1>3, <3>1 DEF PeerOK, PhaseOK, SameRest
  <2> QED BY <1>3, <2>1, <2>2, <2>3 DEF PhaseOK, SameRest
<1>7. HeldOK(t)
  BY <1>3, <1>5
  DEF PeerOK, HeldOK, SameRest, InMap, Active, SetupPoints, ResetPoints, ReleasePoints
<1> QED BY <1>2, <1>3, <1>5, <1>6, <1>7 DEF Quiet, PeerOK, SameRest, t

LEMMA ExpelIs ==
  ASSUME NEW s, PeerOK(s), InMap(s), NEW kind \in Removals
  PROVE  LET t == Expel(s, kind) IN
         /\ Quiet(s, t) /\ t.heartbeat = s.heartbeat
         /\ \A other : Has(t, other) <=> Has(s, other) \/ other = kind
<1> DEFINE u == [s EXCEPT !.leaveRequested = TRUE, !.open = FALSE]
<1>1. /\ u \in PeerState /\ u.queue = s.queue /\ u.phase = s.phase /\ u.lease = s.lease
      /\ u.fanoutRetained = s.fanoutRetained /\ u.leaveRequested /\ u.heartbeat = s.heartbeat
  BY DEF PeerOK, PeerState
<1>2. Expel(s, kind) = Enqueue(u, kind, "start") BY DEF Expel
<1>3. kind \notin Requests BY DEF Requests, Removals
<1> HIDE DEF u
<1>4. /\ Quiet(s, Enqueue(u, kind, "start")) /\ SameRest(u, Enqueue(u, kind, "start"))
      /\ \A other : Has(Enqueue(u, kind, "start"), other) <=> Has(s, other) \/ other = kind
  BY <1>1, <1>3, QueuedIs
<1> QED BY <1>1, <1>2, <1>4 DEF SameRest

\* A job that is queued does not make a peer that waits for a sweep wait for itself.
LEMMA QuietFresh ==
  ASSUME RoomInv, NEW p \in Peer, NEW t, Quiet(peer[p], t),
         t.heartbeat = "overdue" => peer[p].heartbeat = "overdue",
         Has(t, "swept") => Has(peer[p], "swept")
  PROVE  host.slow \/ Fresh(t)
BY DEF RoomInv, WaitOK, Fresh, Quiet

LEMMA JoinKeeps ==
  ASSUME RoomInv, NEW p \in Peer, Join(p) PROVE RoomInv'
<1> DEFINE s == peer[p]
           t == [s EXCEPT !.phase = IF closing = "open" THEN "connected" ELSE "left",
                          !.open = closing = "open"]
<1>1. PeerOK(s) /\ s \in PeerState BY InvIs
<1>2. s.phase = "absent" /\ Becomes(p, t) BY DEF Join
<1>3. s.queue = <<>> /\ ~s.lease /\ ~s.fanoutRetained
  BY <1>1, <1>2 DEF PeerOK, PhaseOK, HeldOK, Active
<1>4. /\ t \in PeerState /\ t.queue = <<>> /\ ~t.lease /\ ~t.fanoutRetained
      /\ t.phase \in {"connected", "left"}
  BY <1>1, <1>3 DEF PeerState, Phases
<1> HIDE DEF t
<1>5. Pt(t) = "none" /\ Pt(s) = "none" /\ (\A kind : ~Has(t, kind) /\ ~Has(s, kind))
  BY <1>1, <1>3, <1>4, HasHead
<1>6. PeerOK(t)
  BY <1>4, <1>5
  DEF PeerOK, QueueOK, PhaseOK, HeldOK, SetupPoints, ResetPoints, ReleasePoints
<1>7. Quiet(s, t) BY <1>1, <1>3, <1>4, <1>5, <1>6 DEF Quiet, PeerState
<1>8. Fresh(t) BY <1>5 DEF Fresh
<1>9. Succeeds /\ UNCHANGED <<roomVars, maintenance, leases, storeVars, viewVars>>
  BY DEF Join, Succeeds
<1> QED BY <1>2, <1>5, <1>7, <1>8, <1>9, QuietStep

\* A peer is closed, and a removal that no sweep waits for is queued.
LEMMA ExpelKeeps ==
  ASSUME RoomInv, NEW p \in Peer, InMap(peer[p]), Becomes(p, Expel(peer[p], "reset")),
         Succeeds \/ Sends \/ TimePasses,
         UNCHANGED <<roomVars, maintenance, leases, storeVars, viewVars>>
  PROVE  RoomInv'
<1> DEFINE s == peer[p]   t == Expel(s, "reset")
<1>1. PeerOK(s) /\ "reset" \in Removals BY InvIs DEF Removals
<1>2. /\ Quiet(s, t) /\ t.heartbeat = s.heartbeat
      /\ \A other : Has(t, other) <=> Has(s, other) \/ other = "reset"
  BY <1>1, ExpelIs
<1> HIDE DEF t
<1>3. host.slow \/ Fresh(t) BY <1>2, QuietFresh
<1> QED BY <1>2, <1>3, QuietStep DEF t

LEMMA ReceiveAuthKeeps ==
  ASSUME RoomInv, NEW p \in Peer, ReceiveAuth(p) PROVE RoomInv'
<1> DEFINE s == peer[p]
           u == [s EXCEPT !.phase = "authenticating"]
           t == Enqueue(u, "auth", "authorize")
<1>1. PeerOK(s) /\ s \in PeerState /\ InMap(s) /\ ~s.leaveRequested
  BY InvIs DEF ReceiveAuth, Receivable
<1>2. Sends /\ UNCHANGED <<roomVars, maintenance, leases, storeVars, viewVars>>
  BY DEF ReceiveAuth
<1>3. CASE s.phase # "connected" /\ Becomes(p, Expel(s, "reset")) BY <1>1, <1>2, <1>3, ExpelKeeps
<1>4. CASE s.phase = "connected" /\ Becomes(p, t)
  <2>1. s.queue = <<>> /\ ~s.lease /\ ~s.fanoutRetained
    BY <1>1, <1>4 DEF PeerOK, PhaseOK, HeldOK, Active
  <2>2. /\ u \in PeerState /\ u.queue = <<>> /\ u.phase = "authenticating"
        /\ u.lease = s.lease /\ u.fanoutRetained = s.fanoutRetained
        /\ u.leaveRequested = s.leaveRequested
    BY <1>1, <2>1 DEF PeerState, Phases
  <2>3. "auth" \in Setup /\ "authorize" \in SetupPoints /\ QueueOK(<<>>)
    BY DEF Setup, SetupPoints, QueueOK
  <2>4. \A kind : ~Has(u, kind) /\ ~Has(s, kind) BY <2>1, <2>2 DEF Has
  <2>5. Pt(s) = "none" BY <2>1 DEF Pt
  <2> HIDE DEF u
  <2>6. /\ t \in PeerState /\ SameRest(u, t) /\ QueueOK(t.queue) /\ t.queue # <<>>
        /\ Pt(t) = "authorize"
        /\ \A other : Has(t, other) <=> Has(u, other) \/ other = "auth"
    BY <2>2, <2>3, EnqueueIs
  <2> HIDE DEF t
  <2>7. PhaseOK(t) BY <2>2, <2>4, <2>6 DEF PhaseOK, SameRest, Removals
  <2>8. HeldOK(t)
    BY <2>1, <2>2, <2>6 DEF HeldOK, SameRest, ResetPoints, ReleasePoints
  <2>9. Quiet(s, t) BY <2>2, <2>4, <2>5, <2>6, <2>7, <2>8 DEF Quiet, PeerOK, SameRest
  <2>10. ~Has(t, "closed") /\ Fresh(t) BY <2>4, <2>6 DEF Fresh
  <2> QED BY <1>2, <1>4, <2>9, <2>10, QuietStep
<1> QED BY <1>3, <1>4 DEF ReceiveAuth

LEMMA ReceiveMessageKeeps ==
  ASSUME RoomInv, NEW p \in Peer, ReceiveMessage(p) PROVE RoomInv'
<1> DEFINE s == peer[p]
<1>1. PeerOK(s) /\ s \in PeerState /\ InMap(s)
  BY InvIs DEF ReceiveMessage, Receivable
<1>2. Sends /\ UNCHANGED <<roomVars, maintenance, leases, storeVars, viewVars>>
  BY DEF ReceiveMessage
<1>3. CASE ~Active(s) /\ Becomes(p, Expel(s, "reset")) BY <1>1, <1>2, <1>3, ExpelKeeps
<1>4. ASSUME Active(s), NEW kind \in Requests, Becomes(p, Enqueue(s, kind, "start"))
      PROVE  RoomInv'
  <2> DEFINE t == Enqueue(s, kind, "start")
  <2>1. kind \notin Removals /\ kind # "closed" /\ kind # "swept" BY DEF Requests, Removals
  <2>2. /\ Quiet(s, t) /\ SameRest(s, t)
        /\ \A other : Has(t, other) <=> Has(s, other) \/ other = kind
    BY <1>1, <1>4, <2>1, QueuedIs
  <2> HIDE DEF t
  <2>3. host.slow \/ Fresh(t) BY <2>1, <2>2, QuietFresh DEF SameRest
  <2> QED BY <1>2, <1>4, <2>1, <2>2, <2>3, QuietStep DEF t
<1> QED BY <1>3, <1>4 DEF ReceiveMessage

LEMMA LeaveKeeps ==
  ASSUME RoomInv, NEW p \in Peer, Leave(p) PROVE RoomInv'
<1> DEFINE s == peer[p]
           u == Expel(s, "reset")
           t == [u EXCEPT !.released = TRUE]
<1>1. PeerOK(s) /\ InMap(s) /\ "reset" \in Removals BY InvIs DEF Leave, Removals
<1>2. Becomes(p, t) /\ Succeeds /\ UNCHANGED <<roomVars, maintenance, leases, storeVars, viewVars>>
  BY DEF Leave, Succeeds
<1>3. /\ Quiet(s, u) /\ u.heartbeat = s.heartbeat
      /\ \A other : Has(u, other) <=> Has(s, other) \/ other = "reset"
  BY <1>1, ExpelIs
<1> HIDE DEF u
<1>4. /\ t \in PeerState /\ t.queue = u.queue /\ t.phase = u.phase /\ t.lease = u.lease
      /\ t.fanoutRetained = u.fanoutRetained /\ t.leaveRequested = u.leaveRequested
      /\ t.heartbeat = u.heartbeat
  BY <1>3 DEF Quiet, PeerOK, PeerState
<1> HIDE DEF t
<1>5. Pt(t) = Pt(u) /\ (\A other : Has(t, other) <=> Has(u, other)) BY <1>4 DEF Pt, Has
<1>6. PeerOK(t)
  <2>1. PhaseOK(t) BY <1>3, <1>4, <1>5 DEF Quiet, PeerOK, PhaseOK
  <2>2. HeldOK(t) BY <1>3, <1>4, <1>5 DEF Quiet, PeerOK, HeldOK, InMap, Active
  <2> QED BY <1>3, <1>4, <2>1, <2>2 DEF Quiet, PeerOK
<1>7. Quiet(s, t) BY <1>3, <1>4, <1>5, <1>6 DEF Quiet
<1>8. host.slow \/ Fresh(t) BY <1>3, <1>4, <1>5, <1>7, QuietFresh
<1>9. Has(t, "closed") => Has(s, "closed") BY <1>3, <1>5
<1> QED BY <1>2, <1>7, <1>8, <1>9, QuietStep

\* A peer without a job, that holds nothing, is gone.
LEMMA GoneIs ==
  LET t == [NeverJoined EXCEPT !.phase = "left", !.open = FALSE] IN
  /\ PeerOK(t) /\ t.phase = "left" /\ ~t.fanoutRetained /\ ~t.lease /\ Pt(t) = "none"
  /\ \A kind : ~Has(t, kind)
<1> DEFINE t == [NeverJoined EXCEPT !.phase = "left", !.open = FALSE]
<1>1. /\ t \in PeerState /\ t.phase = "left" /\ t.queue = <<>>
      /\ ~t.fanoutRetained /\ ~t.lease
  <2>1. <<>> \in Seq(Job) OBVIOUS
  <2>2. /\ NeverJoined \in PeerState /\ NeverJoined.queue = <<>>
        /\ ~NeverJoined.fanoutRetained /\ ~NeverJoined.lease
    BY <2>1 DEF NeverJoined, PeerState, Phases
  <2> QED BY <2>2 DEF PeerState, Phases
<1> HIDE DEF t
<1>2. Pt(t) = "none" /\ (\A kind : ~Has(t, kind)) BY <1>1 DEF Pt, Has
<1>3. PeerOK(t)
  BY <1>1, <1>2 DEF PeerOK, QueueOK, PhaseOK, HeldOK, SetupPoints, ResetPoints, ReleasePoints
<1> QED BY <1>1, <1>2, <1>3 DEF t

LEMMA SocketGoneKeeps ==
  ASSUME RoomInv, NEW p \in Peer, SocketGone(p) PROVE RoomInv'
<1> DEFINE s == peer[p]
           t == [NeverJoined EXCEPT !.phase = "left", !.open = FALSE]
<1>1. PeerOK(s) /\ s \in PeerState BY InvIs
<1>2. /\ s.phase = "asleep" /\ Becomes(p, t) /\ Succeeds
      /\ UNCHANGED <<roomVars, maintenance, leases, storeVars, viewVars>>
  BY DEF SocketGone, Succeeds
<1>3. s.queue = <<>> /\ ~s.lease /\ ~s.fanoutRetained
  BY <1>1, <1>2 DEF PeerOK, PhaseOK, HeldOK, Active
<1>4. /\ PeerOK(t) /\ ~t.fanoutRetained /\ ~t.lease /\ Pt(t) = "none"
      /\ \A kind : ~Has(t, kind)
  BY GoneIs
<1> HIDE DEF t
<1>5. Pt(s) = "none" /\ ~Has(s, "closed") BY <1>1, <1>3, HasHead
<1>6. Quiet(s, t) BY <1>1, <1>3, <1>4, <1>5 DEF Quiet, PeerOK, PeerState
<1>7. Fresh(t) BY <1>4 DEF Fresh
<1> QED BY <1>2, <1>4, <1>6, <1>7, QuietStep

LEMMA HeartbeatExpiresKeeps ==
  ASSUME RoomInv, NEW p \in Peer, HeartbeatExpires(p) PROVE RoomInv'
<1> DEFINE s == peer[p]
           u(heartbeat) == [s EXCEPT !.heartbeat = heartbeat]
<1>1. PeerOK(s) /\ s \in PeerState /\ Active(s) BY InvIs DEF HeartbeatExpires
<1>2. /\ host.slow \/ ~At(p, "maintain")
      /\ TimePasses /\ UNCHANGED <<roomVars, maintenance, leases, storeVars, viewVars>>
      /\ \/ Becomes(p, u("overdue"))
         \/ Becomes(p, Expel(u("none"), "reset"))
  BY DEF HeartbeatExpires
<1>3. ASSUME NEW heartbeat \in {"none", "overdue"}
      PROVE  /\ PeerOK(u(heartbeat)) /\ Quiet(s, u(heartbeat))
             /\ u(heartbeat).heartbeat = heartbeat /\ Active(u(heartbeat))
             /\ Pt(u(heartbeat)) = Pt(s)
             /\ \A kind : Has(u(heartbeat), kind) <=> Has(s, kind)
  <2> DEFINE v == u(heartbeat)
  <2>1. /\ v \in PeerState /\ v.queue = s.queue /\ v.phase = s.phase /\ v.lease = s.lease
        /\ v.fanoutRetained = s.fanoutRetained /\ v.leaveRequested = s.leaveRequested
        /\ v.heartbeat = heartbeat
    BY <1>1 DEF PeerState
  <2> HIDE DEF v, u
  <2>2. Pt(v) = Pt(s) /\ (\A kind : Has(v, kind) <=> Has(s, kind)) BY <2>1 DEF Pt, Has
  <2>3. PhaseOK(v) BY <1>1, <2>1, <2>2 DEF PeerOK, PhaseOK
  <2>4. HeldOK(v) BY <1>1, <2>1, <2>2 DEF PeerOK, HeldOK, InMap, Active
  <2>5. PeerOK(v) /\ Active(v) BY <1>1, <2>1, <2>3, <2>4 DEF PeerOK, Active
  <2> QED BY <2>1, <2>2, <2>5 DEF Quiet, v
<1> HIDE DEF u
<1>4. CASE Becomes(p, u("overdue"))
  <2>1. Pt(s) = "maintain" => At(p, "maintain")
    BY <1>1, HeadIsJob, HasHead DEF At, Pt
  <2>2. host.slow \/ Fresh(u("overdue")) BY <1>2, <1>3, <2>1 DEF Fresh
  <2> QED BY <1>2, <1>3, <1>4, <2>2, QuietStep
<1>5. CASE Becomes(p, Expel(u("none"), "reset"))
  <2> DEFINE v == u("none")   t == Expel(v, "reset")
  <2>1. InMap(v) /\ "reset" \in Removals BY <1>3 DEF InMap, Active, Removals
  <2>2. /\ Quiet(v, t) /\ t.heartbeat = "none"
        /\ \A other : Has(t, other) <=> Has(v, other) \/ other = "reset"
    BY <1>3, <2>1, ExpelIs
  <2> HIDE DEF t
  <2>3. Quiet(s, t) BY <1>3, <2>2 DEF Quiet
  <2>4. /\ Has(t, "closed") => Has(s, "closed")
        /\ Has(t, "swept") => Has(s, "swept")
    BY <1>3, <2>2
  <2>5. host.slow \/ Fresh(t) BY <2>2, <2>3, <2>4, QuietFresh
  <2> QED BY <1>2, <1>5, <2>3, <2>4, <2>5, QuietStep DEF t
<1> QED BY <1>2, <1>4, <1>5

-----------------------------------------------------------------------------
(* Sweeps.                                                                 *)

\* The room goes on, and no peer changes.
LEMMA StillKeeps ==
  ASSUME RoomInv, peer' = peer, UNCHANGED roomVars, leases' = leases,
         Succeeds \/ Fails \/ TimePasses, StoreTypes', maintenance' \in Seq(Sweep), SweepsOK'
  PROVE  RoomInv'
<1>1. host' = host /\ faults' \in Nat /\ faults' >= faults BY BoundsAre
<1>2. peer' \in [Peer -> PeerState] /\ \A q \in Peer : Quiet(peer[q], peer'[q])
  BY DEF RoomInv, TypeOK, PeersOK, Quiet
<1>3. CloseOK'
  <2>1. faults \in Nat /\ (closing = "closed" /\ subscription => faults > 0)
    BY DEF RoomInv, CloseOK
  <2>2. closing = "closed" /\ subscription => faults' > 0 BY <1>1, <2>1
  <2> QED BY <1>1, <2>2 DEF RoomInv, CloseOK, roomVars, Has, Settled, HasLease, Pt
<1>4. WaitOK' BY <1>1 DEF RoomInv, WaitOK, Fresh, Has, Pt
<1>5. /\ UNCHANGED <<fanoutQueue, retainers, subscription, closing>>
      /\ closing \in {"open", "draining", "lock", "closed"}
  BY DEF roomVars, RoomInv, TypeOK
<1> QED BY <1>1, <1>2, <1>3, <1>4, <1>5, QuietKeeps

LEMMA MemberLapsesKeeps ==
  ASSUME RoomInv, NEW p \in Peer, MemberLapses(p) PROVE RoomInv'
<1>1. /\ peer' = peer /\ UNCHANGED roomVars /\ leases' = leases /\ TimePasses
      /\ maintenance' = maintenance
  BY DEF MemberLapses
<1>2. StoreTypes' BY InvIs DEF MemberLapses, StoreTypes, viewVars
<1>3. maintenance' \in Seq(Sweep) BY <1>1 DEF RoomInv, TypeOK
<1>4. SweepsOK' BY <1>1, <1>3, SweepsStay
<1> QED BY <1>1, <1>2, <1>3, <1>4, StillKeeps

LEMMA SweepCalledKeeps ==
  ASSUME RoomInv, SweepCalled PROVE RoomInv'
<1> DEFINE sweep == NewSweep(Alarm, Overdue)
<1>1. /\ peer' = peer /\ UNCHANGED roomVars /\ leases' = leases /\ Succeeds
      /\ maintenance' = Append(maintenance, sweep)
  BY DEF SweepCalled, Succeeds, NewSweep
<1>2. StoreTypes' BY DEF RoomInv, TypeOK, SweepCalled, StoreTypes, storeVars, viewVars
<1>3. sweep \in Sweep /\ sweep.by = Alarm BY SweepIs DEF Overdue
<1>4. maintenance \in Seq(Sweep) /\ SweepsOK BY DEF RoomInv, TypeOK
<1> HIDE DEF sweep
<1>5. maintenance' \in Seq(Sweep) /\ SweepsOK' BY <1>1, <1>3, <1>4, SweepWaits
<1> QED BY <1>1, <1>2, <1>5, StillKeeps

\* The sweep that holds the lock goes on.
LEMMA HeadIs ==
  ASSUME RoomInv, maintenance # <<>>
  PROVE  /\ maintenance \in Seq(Sweep) /\ 1 \in DOMAIN maintenance
         /\ Head(maintenance) = maintenance[1] /\ maintenance[1] \in Sweep
         /\ maintenance[1].by \in Peer \cup {Alarm}
<1>1. maintenance \in Seq(Sweep) BY DEF RoomInv, TypeOK
<1>2. /\ 1 \in DOMAIN maintenance /\ Head(maintenance) = maintenance[1]
      /\ maintenance[1] \in Sweep
  BY <1>1
<1> QED BY <1>1, <1>2 DEF Sweep

LEMMA SweepGoesOn ==
  ASSUME RoomInv, maintenance # <<>>, NEW sweep \in Sweep, sweep.by = maintenance[1].by,
         maintenance' = [maintenance EXCEPT ![1] = sweep],
         \A q \in Peer : Pt(peer[q]) = "maintain" => Pt(peer'[q]) = "maintain"
  PROVE  maintenance' \in Seq(Sweep) /\ SweepsOK'
<1>1. maintenance \in Seq(Sweep) /\ 1 \in DOMAIN maintenance BY HeadIs
<1>2. /\ maintenance' \in Seq(Sweep) /\ DOMAIN maintenance' = DOMAIN maintenance
      /\ maintenance'[1] = sweep
      /\ \A i \in DOMAIN maintenance : i # 1 => maintenance'[i] = maintenance[i]
  BY <1>1
<1>3. \A i \in DOMAIN maintenance : maintenance'[i].by = maintenance[i].by BY <1>2
<1> QED BY <1>2, <1>3, SweepsStay

LEMMA SweepStartsKeeps ==
  ASSUME RoomInv, SweepStarts PROVE RoomInv'
<1> DEFINE by == Head(maintenance).by
           expired == IF by = Alarm THEN Overdue \cap Head(maintenance).due ELSE Overdue \ {by}
           sweep == [maintenance[1] EXCEPT !.at = "resets"]
<1>1. /\ maintenance # <<>>
      /\ peer' = [p \in Peer |-> IF p \in expired THEN Expel(peer[p], "swept") ELSE peer[p]]
      /\ maintenance' = [maintenance EXCEPT ![1].at = "resets"]
      /\ UNCHANGED <<closing, fanoutQueue, retainers, subscription, leases, host, faults>>
      /\ UNCHANGED <<storeVars, viewVars>>
  BY DEF SweepStarts, roomVars, bounds
<1>2. \A p \in expired : p \in Overdue BY DEF Overdue
<1> HIDE DEF expired
<1>3. ASSUME NEW p \in Peer
      PROVE  /\ Quiet(peer[p], peer'[p])
             /\ Has(peer'[p], "closed") => Has(peer[p], "closed")
             /\ host.slow \/ Fresh(peer'[p])
  <2>1. PeerOK(peer[p]) /\ (host.slow \/ Fresh(peer[p])) BY InvIs DEF RoomInv, WaitOK
  <2>2. CASE p \notin expired
    <3>1. peer'[p] = peer[p] BY <1>1, <2>2
    <3> QED BY <2>1, <3>1 DEF Quiet
  <2>3. CASE p \in expired
    <3> DEFINE t == Expel(peer[p], "swept")
    <3>1. peer'[p] = t BY <1>1, <2>3
    <3>2. Active(peer[p]) /\ peer[p].heartbeat = "overdue" BY <1>2, <2>3 DEF Overdue
    <3>3. InMap(peer[p]) /\ "swept" \in Removals BY <3>2 DEF InMap, Active, Removals
    <3>4. /\ Quiet(peer[p], t)
          /\ \A other : Has(t, other) <=> Has(peer[p], other) \/ other = "swept"
      BY <2>1, <3>3, ExpelIs
    <3> HIDE DEF t
    <3>5. host.slow \/ Pt(peer[p]) # "maintain" BY <2>1, <3>2 DEF Fresh
    <3>6. host.slow \/ Fresh(t) BY <3>4, <3>5 DEF Fresh, Quiet
    <3> QED BY <3>1, <3>4, <3>6
  <2> QED BY <2>2, <2>3
<1>4. peer' \in [Peer -> PeerState] /\ (\A q \in Peer : Quiet(peer[q], peer'[q]))
  <2>1. \A q \in Peer : Quiet(peer[q], peer'[q]) BY <1>3
  <2>2. \A q \in Peer : peer'[q] \in PeerState BY <2>1 DEF Quiet, PeerOK
  <2>3. \E f : peer' = [q \in Peer |-> f[q]] BY <1>1
  <2> QED BY <2>1, <2>2, <2>3
<1>5. maintenance' \in Seq(Sweep) /\ SweepsOK'
  <2>1. maintenance[1] \in Sweep BY <1>1, HeadIs
  <2>2. sweep \in Sweep /\ sweep.by = maintenance[1].by BY <2>1 DEF Sweep
  <2>3. maintenance' = [maintenance EXCEPT ![1] = sweep] BY <1>1
  <2> HIDE DEF sweep
  <2>4. \A q \in Peer : Pt(peer[q]) = "maintain" => Pt(peer'[q]) = "maintain"
    BY <1>4, QuietIs
  <2> QED BY <1>1, <2>2, <2>3, <2>4, SweepGoesOn
<1>6. CloseOK'
  <2>1. \A q \in Peer : /\ Settled(peer[q]) => Settled(peer'[q])
                        /\ Has(peer[q], "closed") <=> Has(peer'[q], "closed")
    BY <1>3, QuietIs DEF Quiet
  <2> QED BY <1>1, <2>1 DEF RoomInv, CloseOK, Has, Settled, HasLease, Pt
<1>7. WaitOK' BY <1>1, <1>3 DEF WaitOK, Fresh, Has, Pt
<1>8. StoreTypes' BY <1>1 DEF RoomInv, TypeOK, StoreTypes, storeVars, viewVars
<1>9. closing \in {"open", "draining", "lock", "closed"} BY DEF RoomInv, TypeOK
<1> QED BY <1>1, <1>4, <1>5, <1>6, <1>7, <1>8, <1>9, QuietKeeps

\* The sweep is over, and the message that asked for it is served.
LEMMA EndSweepKeeps ==
  ASSUME RoomInv, maintenance # <<>>, EndSweep(Head(maintenance).by),
         Succeeds \/ Fails, StoreTypes',
         UNCHANGED <<closing, retainers, subscription, leases>>
  PROVE  RoomInv'
<1>1. /\ maintenance \in Seq(Sweep) /\ 1 \in DOMAIN maintenance
      /\ Head(maintenance) = maintenance[1] /\ maintenance[1].by \in Peer \cup {Alarm}
  BY HeadIs
<1>2. SweepsOK /\ maintenance' = Tail(maintenance) BY DEF RoomInv, EndSweep
<1>3. CASE Head(maintenance).by = Alarm
  <2>1. peer' = peer /\ fanoutQueue' = fanoutQueue BY <1>3 DEF EndSweep
  <2>2. maintenance' \in Seq(Sweep) /\ SweepsOK' BY <1>1, <1>2, <2>1, SweepOver
  <2> QED BY <2>1, <2>2, StillKeeps DEF roomVars
<1>4. CASE Head(maintenance).by # Alarm
  <2>1. PICK p \in Peer : p = Head(maintenance).by BY <1>1, <1>4
  <2> DEFINE s == peer[p]
  <2>2. Pt(s) = "maintain" BY <1>1, <1>2, <1>4, <2>1 DEF SweepsOK
  <2>3. \/ Dispatch(p, s)
        \/ Becomes(p, Done(s)) /\ UNCHANGED fanoutQueue
    BY <1>4, <2>1 DEF EndSweep
  <2>4. MaintenanceStep(p) BY <1>2, <2>1 DEF MaintenanceStep
  <2>5. PeerOK(s) /\ s \in PeerState /\ peer \in [Peer -> PeerState] BY <2>2, InvIs
  <2>6. "maintain" \in ServePoints BY DEF ServePoints
  <2>7. s.queue # <<>> /\ At(p, "maintain")
    BY <2>2, <2>5, HeadIsJob, HasHead DEF At, Pt
  <2>8. s.queue[1].kind \in Requests BY <2>2, <2>6, <2>7, ServingIs
  <2>9. \/ \E t : Becomes(p, t) /\ fanoutQueue' = fanoutQueue /\ Calm(s, t) /\ Pt(t) # "maintain"
        \/ Ends(p, s, fanoutQueue)
    <3>1. CASE Dispatch(p, s) BY <2>2, <2>5, <2>7, <2>8, <3>1, DispatchIs
    <3>2. CASE Becomes(p, Done(s)) /\ UNCHANGED fanoutQueue
      <4>1. Calm(s, Done(s)) /\ Pt(Done(s)) # "maintain"
        BY <2>5, <2>7, <2>8, ServeDone DEF IdlePoints
      <4> QED BY <3>2, <4>1
    <3> QED BY <2>3, <3>1, <3>2
  <2>10. ASSUME NEW t, Becomes(p, t), fanoutQueue' = fanoutQueue, Calm(s, t), Pt(t) # "maintain"
        PROVE  RoomInv'
    <3>1. peer' = [peer EXCEPT ![p] = peer'[p]] /\ peer'[p] = t BY <2>2, <2>5, <2>10 DEF Becomes
    <3>2. Alone(p) BY <2>2, <3>1, MessageAlone
    <3>3. Fresh(t) BY <2>10 DEF Fresh
    <3> QED BY <2>2, <2>4, <2>6, <2>10, <3>1, <3>2, <3>3, CalmStep, RoomStepKeeps
  <2>11. CASE Ends(p, s, fanoutQueue)
    <3>1. CanReset(s) BY <2>5, <2>7, PeerCanReset
    <3>2. peer' = [peer EXCEPT ![p] = peer'[p]] /\ Quits(p, fanoutQueue)
      BY <2>2, <2>5, <2>11, <3>1, ResetsIs DEF Quits
    <3>3. Alone(p) BY <2>2, <3>2, MessageAlone
    <3>4. Pt(s) \notin ResetPoints BY <2>2 DEF ResetPoints, ReleasePoints
    <3> QED BY <2>2, <2>4, <3>2, <3>3, <3>4, QuitStep, RoomStepKeeps
  <2> QED BY <2>9, <2>10, <2>11
<1> QED BY <1>3, <1>4

LEMMA SweepListedKeeps ==
  ASSUME RoomInv, SweepListed PROVE RoomInv'
<1>1. StoreTypes BY DEF RoomInv, TypeOK, StoreTypes
<1>2. /\ maintenance # <<>> /\ StoreTypes'
      /\ UNCHANGED <<closing, retainers, subscription, leases>>
  BY <1>1 DEF SweepListed, StoreTypes, storeVars, viewVars
<1>3. CASE Fails /\ EndSweep(Head(maintenance).by) BY <1>2, <1>3, EndSweepKeeps
<1>4. CASE /\ Succeeds /\ UNCHANGED <<peer, fanoutQueue>>
           /\ maintenance' = [maintenance EXCEPT ![1].at = "publish", ![1].leaves = lapsed]
  <2> DEFINE sweep == [maintenance[1] EXCEPT !.at = "publish", !.leaves = lapsed]
  <2>1. maintenance[1] \in Sweep /\ 1 \in DOMAIN maintenance BY <1>2, HeadIs
  <2>2. lapsed \in SUBSET Peer BY <1>1 DEF StoreTypes
  <2>3. sweep \in Sweep /\ sweep.by = maintenance[1].by BY <2>1, <2>2 DEF Sweep
  <2>4. maintenance' = [maintenance EXCEPT ![1] = sweep] BY <1>4, <2>1
  <2> HIDE DEF sweep
  <2>5. maintenance' \in Seq(Sweep) /\ SweepsOK' BY <1>2, <1>4, <2>3, <2>4, SweepGoesOn
  <2> QED BY <1>2, <1>4, <2>5, StillKeeps DEF roomVars
<1> QED BY <1>3, <1>4 DEF SweepListed

LEMMA SweepPublishedKeeps ==
  ASSUME RoomInv, SweepPublished PROVE RoomInv'
<1>1. StoreTypes /\ maintenance # <<>> BY DEF RoomInv, TypeOK, StoreTypes, SweepPublished
<1>2. maintenance[1] \in Sweep /\ 1 \in DOMAIN maintenance /\ Head(maintenance) = maintenance[1]
  BY <1>1, HeadIs
<1>3. maintenance[1].leaves \in SUBSET Peer BY <1>2 DEF Sweep
<1>4. StoreTypes' /\ UNCHANGED <<closing, retainers, subscription, leases>>
  BY <1>1, <1>2, <1>3 DEF SweepPublished, StoreTypes, storeVars, viewVars
<1>5. CASE (Succeeds \/ Fails) /\ EndSweep(Head(maintenance).by)
  BY <1>1, <1>4, <1>5, EndSweepKeeps
<1>6. ASSUME Succeeds, UNCHANGED <<peer, fanoutQueue>>, NEW c \in maintenance[1].leaves,
             maintenance' = [maintenance EXCEPT ![1].leaves = @ \ {c}]
      PROVE  RoomInv'
  <2> DEFINE sweep == [maintenance[1] EXCEPT !.leaves = @ \ {c}]
  <2>1. sweep \in Sweep /\ sweep.by = maintenance[1].by BY <1>2, <1>3 DEF Sweep
  <2>2. maintenance' = [maintenance EXCEPT ![1] = sweep] BY <1>2, <1>6
  <2> HIDE DEF sweep
  <2>3. maintenance' \in Seq(Sweep) /\ SweepsOK' BY <1>1, <1>6, <2>1, <2>2, SweepGoesOn
  <2> QED BY <1>4, <1>6, <2>3, StillKeeps DEF roomVars
<1> QED BY <1>2, <1>5, <1>6 DEF SweepPublished

-----------------------------------------------------------------------------
(* Close and hibernation.                                                  *)

\* A peer that is not in the room holds nothing and asks for nothing.
LEMMA OutIs ==
  ASSUME NEW s, PeerOK(s), ~InMap(s)
  PROVE  ~s.lease /\ ~s.fanoutRetained /\ ~HasLease(s) /\ ~Counts(s) /\ Settled(s)
BY DEF PeerOK, HeldOK, InMap, Active, HasLease, Counts, Settled, SetupPoints, ReleasePoints

LEMMA CloseKeeps ==
  ASSUME RoomInv, Close PROVE RoomInv'
<1>1. /\ closing = "open" /\ closing' = "draining"
      /\ peer' = [p \in Peer |-> IF InMap(peer[p]) THEN Expel(peer[p], "closed") ELSE peer[p]]
      /\ UNCHANGED <<fanoutQueue, retainers, subscription, maintenance, leases, host, faults>>
      /\ UNCHANGED <<storeVars, viewVars>>
  BY DEF Close, bounds
<1>2. ASSUME NEW p \in Peer
      PROVE  /\ Quiet(peer[p], peer'[p])
             /\ Has(peer'[p], "closed") \/ Settled(peer'[p])
             /\ host.slow \/ Fresh(peer'[p])
  <2>1. PeerOK(peer[p]) /\ (host.slow \/ Fresh(peer[p])) BY InvIs DEF RoomInv, WaitOK
  <2>2. CASE ~InMap(peer[p])
    <3>1. peer'[p] = peer[p] BY <1>1, <2>2
    <3> QED BY <2>1, <2>2, <3>1, OutIs DEF Quiet
  <2>3. CASE InMap(peer[p])
    <3> DEFINE t == Expel(peer[p], "closed")
    <3>1. peer'[p] = t BY <1>1, <2>3
    <3>2. "closed" \in Removals BY DEF Removals
    <3>3. /\ Quiet(peer[p], t) /\ t.heartbeat = peer[p].heartbeat
          /\ \A other : Has(t, other) <=> Has(peer[p], other) \/ other = "closed"
      BY <2>1, <2>3, <3>2, ExpelIs
    <3> HIDE DEF t
    <3>4. Has(t, "closed") /\ (Has(t, "swept") <=> Has(peer[p], "swept")) BY <3>3
    <3>5. host.slow \/ Fresh(t) BY <3>3, <3>4, QuietFresh
    <3> QED BY <3>1, <3>3, <3>4, <3>5
  <2> QED BY <2>2, <2>3
<1>3. peer' \in [Peer -> PeerState] /\ (\A q \in Peer : Quiet(peer[q], peer'[q]))
  <2>1. \A q \in Peer : Quiet(peer[q], peer'[q]) BY <1>2
  <2>2. \A q \in Peer : peer'[q] \in PeerState BY <2>1 DEF Quiet, PeerOK
  <2>3. \E f : peer' = [q \in Peer |-> f[q]] BY <1>1
  <2> QED BY <2>1, <2>2, <2>3
<1>4. maintenance' \in Seq(Sweep) /\ SweepsOK'
  <2>1. \A q \in Peer : Pt(peer[q]) = "maintain" => Pt(peer'[q]) = "maintain"
    BY <1>3, QuietIs
  <2>2. maintenance' \in Seq(Sweep) BY <1>1 DEF RoomInv, TypeOK
  <2> QED BY <1>1, <2>1, <2>2, SweepsStay
<1>5. CloseOK' BY <1>1, <1>2 DEF RoomInv, CloseOK, Has, Settled, HasLease, Pt
<1>6. WaitOK' BY <1>1, <1>2 DEF WaitOK, Fresh, Has, Pt
<1>7. StoreTypes' BY <1>1 DEF RoomInv, TypeOK, StoreTypes, storeVars, viewVars
<1> QED BY <1>1, <1>3, <1>4, <1>5, <1>6, <1>7, QuietKeeps

\* What the room alone goes through keeps what holds of the peers.
LEMMA PeersStay ==
  ASSUME RoomInv, UNCHANGED <<peer, maintenance, leases, host>>
  PROVE  PeersOK' /\ LeasesOK' /\ SweepsOK' /\ WaitOK'
BY DEF RoomInv, PeersOK, LeasesOK, SweepsOK, WaitOK, HasLease, Fresh, Has, Pt

LEMMA CloseDrainedKeeps ==
  ASSUME RoomInv, CloseDrained PROVE RoomInv'
<1>1. /\ closing = "draining" /\ closing' = "lock"
      /\ \A p \in Peer : ~Has(peer[p], "closed")
      /\ fanoutQueue' = Append(fanoutQueue, Room)
      /\ UNCHANGED <<peer, retainers, subscription, maintenance, leases, host, faults>>
      /\ UNCHANGED <<storeVars, viewVars>>
  BY DEF CloseDrained, bounds, HasJob, Has
<1>2. fanoutQueue \in Seq(Peer \cup {Room}) BY DEF RoomInv, TypeOK
<1>3. /\ fanoutQueue' \in Seq(Peer \cup {Room})
      /\ fanoutQueue # <<>> => fanoutQueue' # <<>> /\ Head(fanoutQueue') = Head(fanoutQueue)
  BY <1>1, <1>2
<1>4. TypeOK' BY <1>1, <1>3 DEF RoomInv, TypeOK, storeVars, viewVars
<1>5. PeersOK' /\ LeasesOK' /\ SweepsOK' /\ WaitOK' BY <1>1, PeersStay
<1>6. LockOK' BY <1>1, <1>3 DEF RoomInv, LockOK, HoldsLock, Pt
<1>7. CountOK' BY <1>1 DEF CountOK
<1>8. CloseOK'
  <2>1. \A p \in Peer : Settled(peer[p]) BY <1>1 DEF RoomInv, CloseOK
  <2> QED BY <1>1, <2>1 DEF RoomInv, CloseOK, Has, Settled, HasLease, Pt
<1> QED BY <1>4, <1>5, <1>6, <1>7, <1>8 DEF RoomInv

LEMMA CloseFanoutKeeps ==
  ASSUME RoomInv, CloseFanout PROVE RoomInv'
<1>1. /\ closing = "lock" /\ closing' = "closed"
      /\ fanoutQueue # <<>> /\ Head(fanoutQueue) = Room
      /\ fanoutQueue' = Tail(fanoutQueue) /\ retainers' = 0
      /\ UNCHANGED <<peer, maintenance, leases>> /\ UNCHANGED <<storeVars, viewVars>>
  BY DEF CloseFanout, HoldsLock
<1>2. \/ Succeeds /\ subscription' = FALSE
      \/ subscription /\ Fails /\ subscription' = subscription
  BY DEF CloseFanout
<1>3. host' = host /\ faults' \in Nat /\ faults' >= faults BY <1>2, BoundsAre
<1>4. subscription' \in BOOLEAN /\ (subscription' => faults' > 0)
  <2>1. subscription \in BOOLEAN /\ faults \in Nat BY DEF RoomInv, TypeOK, CloseOK
  <2>2. CASE subscription' = FALSE BY <2>2
  <2>3. CASE Fails /\ subscription' = subscription
    <3>1. faults' = faults + 1 BY <2>3 DEF Fails
    <3>2. faults' > 0 BY <2>1, <3>1
    <3> QED BY <2>1, <2>3, <3>2
  <2> QED BY <1>2, <2>2, <2>3
<1>5. fanoutQueue' \in Seq(Peer \cup {Room})
  <2>1. fanoutQueue \in Seq(Peer \cup {Room}) BY DEF RoomInv, TypeOK
  <2> QED BY <1>1, <2>1
<1>6. TypeOK' BY <1>1, <1>3, <1>4, <1>5 DEF RoomInv, TypeOK, storeVars, viewVars
<1>7. PeersOK' /\ LeasesOK' /\ SweepsOK' /\ WaitOK' BY <1>1, <1>3, PeersStay
<1>8. LockOK'
  <2>1. \A p \in Peer : Pt(peer[p]) \notin HoldPoints
    BY <1>1, Distinct DEF RoomInv, LockOK, HoldsLock
  <2> QED BY <1>1, <2>1 DEF LockOK, Pt
<1>9. CountOK' BY <1>1 DEF CountOK
<1>10. CloseOK' BY <1>1, <1>3, <1>4 DEF RoomInv, CloseOK, Has, Settled, HasLease, Pt
<1> QED BY <1>6, <1>7, <1>8, <1>9, <1>10 DEF RoomInv

\* A peer that holds nothing and has no jobs.
Empty(s) ==
  /\ PeerOK(s) /\ ~s.lease /\ ~s.fanoutRetained /\ Pt(s) = "none"
  /\ \A kind : ~Has(s, kind)

LEMMA EmptyIs ==
  ASSUME NEW s, Empty(s)
  PROVE  /\ ~Counts(s) /\ ~HasLease(s) /\ Settled(s) /\ Fresh(s)
         /\ Pt(s) \notin HoldPoints /\ Pt(s) # "maintain"
BY DEF Empty, Counts, HasLease, Settled, Fresh, HoldPoints

\* What eviction leaves of a peer.
LEMMA EvictedIs ==
  ASSUME NEW s, PeerOK(s), s.queue = <<>>, InMap(s)
  PROVE  Empty([s EXCEPT !.phase = "asleep", !.lease = FALSE, !.fanoutRetained = FALSE])
<1> DEFINE t == [s EXCEPT !.phase = "asleep", !.lease = FALSE, !.fanoutRetained = FALSE]
<1>1. /\ t \in PeerState /\ t.queue = <<>> /\ t.phase = "asleep" /\ ~t.lease
      /\ ~t.fanoutRetained
  BY DEF PeerOK, PeerState, Phases
<1> HIDE DEF t
<1>2. Pt(t) = "none" /\ (\A kind : ~Has(t, kind)) BY <1>1 DEF Pt, Has
<1>3. PeerOK(t)
  BY <1>1, <1>2 DEF PeerOK, QueueOK, PhaseOK, HeldOK, SetupPoints, ResetPoints, ReleasePoints
<1> QED BY <1>1, <1>2, <1>3 DEF Empty, t

LEMMA HibernateKeeps ==
  ASSUME RoomInv, Hibernate PROVE RoomInv'
<1> DEFINE asleep(p) ==
             [peer[p] EXCEPT !.phase = "asleep", !.lease = FALSE, !.fanoutRetained = FALSE]
           gone == [NeverJoined EXCEPT !.phase = "left", !.open = FALSE]
<1>1. /\ maintenance = <<>> /\ maintenance' = maintenance /\ fanoutQueue' = fanoutQueue
      /\ closing' = closing /\ host' = host /\ faults' = faults
      /\ leases' = {} /\ retainers' = 0 /\ subscription' = FALSE
      /\ UNCHANGED <<storeVars, viewVars>>
      /\ \A p \in Peer : peer[p].queue = <<>>
  BY DEF Hibernate, bounds
<1>2. peer' = [p \in Peer |->
                 CASE ~InMap(peer[p]) -> peer[p]
                   [] InMap(peer[p]) /\ peer[p].open -> asleep(p)
                   [] OTHER -> gone]
  BY DEF Hibernate
<1>3. ASSUME NEW p \in Peer PROVE Empty(peer'[p])
  <2>1. PeerOK(peer[p]) /\ peer[p] \in PeerState BY InvIs
  <2>2. CASE ~InMap(peer[p])
    <3>1. peer'[p] = peer[p] BY <1>2, <2>2
    <3>2. Pt(peer[p]) = "none" /\ (\A kind : ~Has(peer[p], kind)) BY <1>1, <2>1, HasHead
    <3> QED BY <2>1, <2>2, <3>1, <3>2, OutIs DEF Empty
  <2>3. CASE InMap(peer[p])
    <3>1. Empty(asleep(p)) BY <1>1, <2>1, <2>3, EvictedIs
    <3>2. Empty(gone) BY GoneIs DEF Empty
    <3>3. peer'[p] \in {asleep(p), gone} BY <1>2, <2>3
    <3> HIDE DEF asleep, gone
    <3> QED BY <3>1, <3>2, <3>3
  <2> QED BY <2>2, <2>3
<1>4. peer' \in [Peer -> PeerState]
  <2>1. \A q \in Peer : peer'[q] \in PeerState BY <1>3 DEF Empty, PeerOK
  <2> HIDE DEF asleep, gone
  <2>2. peer' = [q \in Peer |-> peer'[q]] BY <1>2
  <2> QED BY <2>1, <2>2
<1> HIDE DEF asleep, gone
<1>5. \A q \in Peer :
        /\ ~Counts(peer'[q]) /\ ~HasLease(peer'[q]) /\ Settled(peer'[q]) /\ Fresh(peer'[q])
        /\ Pt(peer'[q]) \notin HoldPoints /\ ~Has(peer'[q], "closed")
  BY <1>3, EmptyIs DEF Empty
<1>6. TypeOK' BY <1>1, <1>4 DEF RoomInv, TypeOK, storeVars, viewVars
<1>7. PeersOK' BY <1>3 DEF PeersOK, Empty
<1>8. LockOK' BY <1>5 DEF LockOK, Pt
<1>9. CountOK'
  <2>1. Retaining' = {} BY <1>5 DEF Retaining, Counts, Pt
  <2> QED BY <1>1, <2>1, FS_EmptySet DEF CountOK
<1>10. LeasesOK' BY <1>1 DEF LeasesOK
<1>11. CloseOK' BY <1>1, <1>5 DEF RoomInv, CloseOK, Has, Settled, HasLease, Pt
<1>12. SweepsOK' BY <1>1 DEF SweepsOK
<1>13. WaitOK' BY <1>5 DEF WaitOK, Fresh, Has, Pt
<1> QED BY <1>6, <1>7, <1>8, <1>9, <1>10, <1>11, <1>12, <1>13 DEF RoomInv

\* A session that resumes.
LEMMA ResumedIs ==
  ASSUME NEW s, PeerOK(s), s.phase = "asleep"
  PROVE  LET t == Enqueue([s EXCEPT !.phase = "authenticating", !.identity = FALSE,
                                    !.connectionId = FALSE], "resume", "recheck") IN
         Quiet(s, t) /\ Fresh(t) /\ ~Has(t, "closed")
<1> DEFINE u == [s EXCEPT !.phase = "authenticating", !.identity = FALSE, !.connectionId = FALSE]
           t == Enqueue(u, "resume", "recheck")
<1>1. s \in PeerState /\ s.queue = <<>> /\ ~s.lease /\ ~s.fanoutRetained
  BY DEF PeerOK, PhaseOK, HeldOK, Active
<1>2. /\ u \in PeerState /\ u.queue = <<>> /\ u.phase = "authenticating"
      /\ u.lease = s.lease /\ u.fanoutRetained = s.fanoutRetained
      /\ u.leaveRequested = s.leaveRequested
  BY <1>1 DEF PeerState, Phases
<1>3. "resume" \in Setup /\ "recheck" \in SetupPoints /\ QueueOK(<<>>)
  BY DEF Setup, SetupPoints, QueueOK
<1>4. Pt(s) = "none" /\ (\A kind : ~Has(u, kind) /\ ~Has(s, kind)) BY <1>1, <1>2 DEF Pt, Has
<1> HIDE DEF u
<1>5. /\ t \in PeerState /\ SameRest(u, t) /\ QueueOK(t.queue) /\ t.queue # <<>>
      /\ Pt(t) = "recheck"
      /\ \A other : Has(t, other) <=> Has(u, other) \/ other = "resume"
  BY <1>2, <1>3, EnqueueIs
<1> HIDE DEF t
<1>6. PhaseOK(t) BY <1>2, <1>4, <1>5 DEF PhaseOK, SameRest, Removals
<1>7. HeldOK(t) BY <1>1, <1>2, <1>5 DEF HeldOK, SameRest, ResetPoints, ReleasePoints
<1>8. Quiet(s, t) BY <1>2, <1>4, <1>5, <1>6, <1>7 DEF Quiet, PeerOK, SameRest
<1>9. ~Has(t, "closed") /\ Fresh(t) BY <1>4, <1>5 DEF Fresh
<1> QED BY <1>8, <1>9 DEF t, u

\* A socket without a session joins again.
LEMMA RejoinedIs ==
  ASSUME NEW s, PeerOK(s), s.phase = "asleep"
  PROVE  LET t == [s EXCEPT !.phase = "connected"] IN
         Quiet(s, t) /\ Fresh(t) /\ ~Has(t, "closed")
<1> DEFINE t == [s EXCEPT !.phase = "connected"]
<1>1. s \in PeerState /\ s.queue = <<>> /\ ~s.lease /\ ~s.fanoutRetained
  BY DEF PeerOK, PhaseOK, HeldOK, Active
<1>2. /\ t \in PeerState /\ t.queue = <<>> /\ t.phase = "connected"
      /\ t.lease = s.lease /\ t.fanoutRetained = s.fanoutRetained
  BY <1>1 DEF PeerState, Phases
<1> HIDE DEF t
<1>3. Pt(t) = "none" /\ Pt(s) = "none" /\ (\A kind : ~Has(t, kind) /\ ~Has(s, kind))
  BY <1>1, <1>2 DEF Pt, Has
<1>4. PeerOK(t)
  BY <1>1, <1>2, <1>3
  DEF PeerOK, QueueOK, PhaseOK, HeldOK, SetupPoints, ResetPoints, ReleasePoints
<1> QED BY <1>2, <1>3, <1>4 DEF Quiet, Fresh, t

LEMMA WakeKeeps ==
  ASSUME RoomInv, Wake PROVE RoomInv'
<1> DEFINE resumed(p) ==
             Enqueue([peer[p] EXCEPT !.phase = "authenticating", !.identity = FALSE,
                                     !.connectionId = FALSE], "resume", "recheck")
           rejoined(p) == [peer[p] EXCEPT !.phase = "connected"]
<1>1. peer' = [p \in Peer |->
                 CASE peer[p].phase # "asleep" -> peer[p]
                   [] peer[p].phase = "asleep" /\ peer[p].identity -> resumed(p)
                   [] OTHER -> rejoined(p)]
  BY DEF Wake
<1>2. /\ UNCHANGED <<closing, fanoutQueue, retainers, subscription, maintenance, leases>>
      /\ UNCHANGED <<host, faults>> /\ UNCHANGED <<storeVars, viewVars>>
  BY DEF Wake, bounds, roomVars
<1>3. ASSUME NEW p \in Peer
      PROVE  /\ Quiet(peer[p], peer'[p])
             /\ Has(peer'[p], "closed") => Has(peer[p], "closed")
             /\ host.slow \/ Fresh(peer'[p])
  <2>1. PeerOK(peer[p]) /\ (host.slow \/ Fresh(peer[p])) BY InvIs DEF RoomInv, WaitOK
  <2>2. CASE peer[p].phase # "asleep"
    <3>1. peer'[p] = peer[p] BY <1>1, <2>2
    <3> QED BY <2>1, <3>1 DEF Quiet
  <2>3. CASE peer[p].phase = "asleep"
    <3>1. Quiet(peer[p], resumed(p)) /\ Fresh(resumed(p)) /\ ~Has(resumed(p), "closed")
      BY <2>1, <2>3, ResumedIs
    <3>2. Quiet(peer[p], rejoined(p)) /\ Fresh(rejoined(p)) /\ ~Has(rejoined(p), "closed")
      BY <2>1, <2>3, RejoinedIs
    <3> HIDE DEF resumed, rejoined
    <3>3. peer'[p] \in {resumed(p), rejoined(p)} BY <1>1, <2>3
    <3> QED BY <3>1, <3>2, <3>3
  <2> QED BY <2>2, <2>3
<1>4. peer' \in [Peer -> PeerState] /\ (\A q \in Peer : Quiet(peer[q], peer'[q]))
  <2>1. \A q \in Peer : Quiet(peer[q], peer'[q]) BY <1>3
  <2>2. \A q \in Peer : peer'[q] \in PeerState BY <2>1 DEF Quiet, PeerOK
  <2> HIDE DEF resumed, rejoined
  <2>3. peer' = [q \in Peer |-> peer'[q]] BY <1>1
  <2> QED BY <2>1, <2>2, <2>3
<1> HIDE DEF resumed, rejoined
<1>5. maintenance' \in Seq(Sweep) /\ SweepsOK'
  <2>1. \A q \in Peer : Pt(peer[q]) = "maintain" => Pt(peer'[q]) = "maintain"
    BY <1>4, QuietIs
  <2>2. maintenance' \in Seq(Sweep) BY <1>2 DEF RoomInv, TypeOK
  <2> QED BY <1>2, <2>1, <2>2, SweepsStay
<1>6. CloseOK'
  <2>1. \A q \in Peer : /\ Settled(peer[q]) => Settled(peer'[q])
                        /\ Has(peer[q], "closed") <=> Has(peer'[q], "closed")
    BY <1>3, QuietIs DEF Quiet
  <2> QED BY <1>2, <2>1 DEF RoomInv, CloseOK, Has, Settled, HasLease, Pt
<1>7. WaitOK' BY <1>2, <1>3 DEF WaitOK, Fresh, Has, Pt
<1>8. StoreTypes' BY <1>2 DEF RoomInv, TypeOK, StoreTypes, storeVars, viewVars
<1>9. closing \in {"open", "draining", "lock", "closed"} BY DEF RoomInv, TypeOK
<1> QED BY <1>2, <1>4, <1>5, <1>6, <1>7, <1>8, <1>9, QuietKeeps

-----------------------------------------------------------------------------
(* The theorems.                                                           *)

LEMMA NeverJoinedIs == Empty(NeverJoined)
<1>1. <<>> \in Seq(Job) OBVIOUS
<1>2. /\ NeverJoined \in PeerState /\ NeverJoined.queue = <<>> /\ ~NeverJoined.lease
      /\ ~NeverJoined.fanoutRetained /\ NeverJoined.phase = "absent"
  BY <1>1 DEF NeverJoined, PeerState, Phases
<1> DEFINE t == NeverJoined
<1>3. Pt(t) = "none" /\ (\A kind : ~Has(t, kind)) BY <1>2 DEF Pt, Has
<1>4. PeerOK(t)
  BY <1>2, <1>3 DEF PeerOK, QueueOK, PhaseOK, HeldOK, SetupPoints, ResetPoints, ReleasePoints
<1> QED BY <1>2, <1>3, <1>4 DEF Empty

LEMMA InitRoomInv ==
  ASSUME Init PROVE RoomInv
<1>1. peer = [p \in Peer |-> NeverJoined] BY DEF Init
<1>2. /\ closing = "open" /\ fanoutQueue = <<>> /\ retainers = 0 /\ subscription = FALSE
      /\ maintenance = <<>> /\ leases = {} /\ members = {} /\ lapsed = {}
      /\ shown = {} /\ lost = {} /\ host \in Hosts /\ faults = 0
  BY DEF Init
<1>3. \A p \in Peer : Empty(peer[p]) BY <1>1, NeverJoinedIs
<1>4. \A p \in Peer :
        /\ ~Counts(peer[p]) /\ ~HasLease(peer[p]) /\ Settled(peer[p]) /\ Fresh(peer[p])
        /\ Pt(peer[p]) \notin HoldPoints /\ ~Has(peer[p], "closed")
  BY <1>3, EmptyIs DEF Empty
<1>5. PeersOK BY <1>3 DEF PeersOK, Empty
<1>6. TypeOK
  <2>1. \A p \in Peer : peer[p] \in PeerState BY <1>3 DEF Empty, PeerOK
  <2>2. peer \in [Peer -> PeerState] BY <1>1, <2>1
  <2>3. fanoutQueue \in Seq(Peer \cup {Room}) /\ maintenance \in Seq(Sweep) BY <1>2
  <2> QED BY <1>2, <2>2, <2>3 DEF TypeOK
<1>7. LockOK BY <1>4 DEF LockOK
<1>8. CountOK
  <2>1. Retaining = {} BY <1>4 DEF Retaining
  <2> QED BY <1>2, <2>1, FS_EmptySet DEF CountOK
<1>9. LeasesOK BY <1>2 DEF LeasesOK
<1>10. CloseOK BY <1>2 DEF CloseOK
<1>11. SweepsOK BY <1>2 DEF SweepsOK
<1>12. WaitOK BY <1>4 DEF WaitOK
<1> QED BY <1>5, <1>6, <1>7, <1>8, <1>9, <1>10, <1>11, <1>12 DEF RoomInv

LEMMA StutterKeeps ==
  ASSUME RoomInv, UNCHANGED vars PROVE RoomInv'
<1>1. /\ peer' = peer /\ UNCHANGED roomVars /\ leases' = leases /\ Succeeds
      /\ maintenance' = maintenance /\ UNCHANGED <<storeVars, viewVars>>
  BY DEF vars, Succeeds
<1>2. StoreTypes' BY <1>1 DEF RoomInv, TypeOK, StoreTypes, storeVars, viewVars
<1>3. maintenance' \in Seq(Sweep) /\ SweepsOK' BY <1>1, SweepsStay DEF RoomInv, TypeOK
<1> QED BY <1>1, <1>2, <1>3, StillKeeps

\* Every step keeps the invariant of the room.
LEMMA NextKeeps ==
  ASSUME RoomInv, [Next]_vars PROVE RoomInv'
<1>1. CASE HostStep
  <2>1. ASSUME NEW p \in Peer,
               Join(p) \/ ReceiveAuth(p) \/ ReceiveMessage(p) \/ Leave(p) \/ SocketGone(p)
        PROVE  RoomInv'
    BY <2>1, JoinKeeps, ReceiveAuthKeeps, ReceiveMessageKeeps, LeaveKeeps, SocketGoneKeeps
  <2>2. CASE Close BY <2>2, CloseKeeps
  <2>3. CASE CloseDrained BY <2>3, CloseDrainedKeeps
  <2>4. CASE CloseFanout BY <2>4, CloseFanoutKeeps
  <2>5. CASE Hibernate BY <2>5, HibernateKeeps
  <2>6. CASE Wake BY <2>6, WakeKeeps
  <2> QED BY <1>1, <2>1, <2>2, <2>3, <2>4, <2>5, <2>6 DEF HostStep
<1>2. ASSUME NEW p \in Peer, SetupStep(p) \/ MessageStep(p) \/ ResetStep(p) PROVE RoomInv'
  <2>1. RoomStep(p) BY <1>2, SetupStepKeeps, MessageStepKeeps, ResetStepKeeps
  <2> QED BY <2>1, RoomStepKeeps
<1>3. CASE SweepStep
  <2>1. ASSUME NEW p \in Peer, HeartbeatExpires(p) \/ MemberLapses(p) PROVE RoomInv'
    BY <2>1, HeartbeatExpiresKeeps, MemberLapsesKeeps
  <2>2. CASE SweepCalled BY <2>2, SweepCalledKeeps
  <2>3. CASE SweepStarts BY <2>3, SweepStartsKeeps
  <2>4. CASE SweepListed BY <2>4, SweepListedKeeps
  <2>5. CASE SweepPublished BY <2>5, SweepPublishedKeeps
  <2> QED BY <1>3, <2>1, <2>2, <2>3, <2>4, <2>5 DEF SweepStep
<1>4. CASE UNCHANGED vars BY <1>4, StutterKeeps
<1> QED BY <1>1, <1>2, <1>3, <1>4 DEF Next

LEMMA RoomInvariant == Spec => []RoomInv
<1>1. Init => RoomInv BY InitRoomInv
<1>2. RoomInv /\ [Next]_vars => RoomInv' BY NextKeeps
<1> QED BY <1>1, <1>2, PTL DEF Spec

LEMMA AtPoint ==
  ASSUME RoomInv, NEW p \in Peer, NEW point \in Points
  PROVE  At(p, point) <=> Pt(peer[p]) = point
<1>1. PeerOK(peer[p]) /\ peer[p] \in PeerState BY InvIs
<1>2. "none" \notin Points BY DEF Points
<1>3. CASE peer[p].queue = <<>> BY <1>2, <1>3 DEF At, Pt
<1>4. CASE peer[p].queue # <<>>
  <2>1. Running(peer[p]) = peer[p].queue[1] BY <1>1, <1>4, HeadIsJob
  <2> QED BY <1>4, <2>1 DEF At, Pt
<1> QED BY <1>3, <1>4

\* The state of the room is of its type in every step: the queues of jobs, the
\* fan-out lock, the maintenance lock and the count of retainers, which releaseFanout
\* takes down without going below zero (presence-room-implementation.ts).
THEOREM RoomTypeOK == Spec => []TypeOK
<1>1. RoomInv => TypeOK BY DEF RoomInv
<1> QED BY <1>1, RoomInvariant, PTL

\* A peer that has left holds neither a lease nor the fan-out, the fan-out count is
\* that of the peers that hold it, and a closed room keeps only what could not be
\* unsubscribed: whatever await of the setup, of a message or of the reset a leave, an
\* error or a close falls into (retainFanout, releaseFanout, resetState, close).
THEOREM RoomNothingLeaks == Spec => []NothingLeaks
<1>1. ASSUME RoomInv PROVE NothingLeaks
  <2>1. ASSUME NEW p \in Peer, ~InMap(peer[p])
        PROVE  p \notin leases /\ ~peer[p].fanoutRetained
    <3>1. ~HasLease(peer[p]) /\ ~peer[p].fanoutRetained BY <1>1, <2>1, InvIs, OutIs
    <3> QED BY <1>1, <3>1, InvIs
  <2>2. ASSUME closing \in {"open", "draining"}
        PROVE  retainers =
                 Cardinality({p \in Peer : peer[p].fanoutRetained \/ At(p, "release-lock")})
    <3>1. "release-lock" \in Points BY DEF Points
    <3>2. \A p \in Peer : At(p, "release-lock") <=> Pt(peer[p]) = "release-lock"
      BY <1>1, <3>1, AtPoint
    <3>3. {p \in Peer : peer[p].fanoutRetained \/ At(p, "release-lock")} = Retaining
      BY <3>2 DEF Retaining, Counts
    <3> QED BY <1>1, <2>2, <3>3 DEF RoomInv, CountOK
  <2>3. ASSUME closing = "closed" PROVE leases = {} /\ (subscription => faults > 0)
    <3>1. CloseOK /\ LeasesOK /\ leases \subseteq Peer BY <1>1 DEF RoomInv, TypeOK
    <3>2. \A p \in Peer : ~HasLease(peer[p]) BY <2>3, <3>1 DEF CloseOK, Settled
    <3> QED BY <2>3, <3>1, <3>2 DEF CloseOK, LeasesOK
  <2> QED BY <2>1, <2>2, <2>3 DEF NothingLeaks
<1>2. RoomInv => NothingLeaks BY <1>1
<1> QED BY <1>2, RoomInvariant, PTL

\* The sweep that holds the maintenance lock never waits for a peer that waits for the
\* lock, as long as no heartbeat runs out in that wait: receive rearms the heartbeat of
\* its peer before it asks for the lock, and sweepLocked removes only peers whose
\* heartbeat has run out (presence-room-implementation.ts:281-292, 957-992).
THEOREM RoomNoCircularWait == Spec => [](~host.slow => NoCircularWait)
<1>1. ASSUME RoomInv, ~host.slow PROVE NoCircularWait
  <2> SUFFICES ASSUME NEW p \in Peer, HasJob(p, "swept"), At(p, "maintain") PROVE FALSE
    BY DEF NoCircularWait
  <2>1. Has(peer[p], "swept") BY DEF HasJob, Has
  <2>2. "maintain" \in Points BY DEF Points
  <2>3. Pt(peer[p]) = "maintain" BY <1>1, <2>2, AtPoint
  <2> QED BY <1>1, <2>1, <2>3 DEF RoomInv, WaitOK, Fresh
<1>2. RoomInv => (~host.slow => NoCircularWait) BY <1>1
<1> QED BY <1>2, RoomInvariant, PTL

-----------------------------------------------------------------------------
(* Who is shown.                                                           *)
(*                                                                         *)
(* A connection that is shown is covered: its peer announces its Leave, or *)
(* is a session (on an on-message host, one that resigns), or on such a    *)
(* host the store still knows it or its Leave is due.  That a peer which   *)
(* was shown and resets does announce it is what SessionOK is for.         *)

Resigning == ReleasePoints \cup {"member-remove"}

\* Joined and identity of a peer, by its phase and by where its job is.
SessionOK(s) ==
  /\ s.joined /\ ~s.identity => Pt(s) = "recheck"
  /\ Pt(s) = "recheck" => ~s.connectionId
  /\ s.phase \in {"absent", "connected"} \/ Pt(s) = "authorize" => ~s.joined
  /\ Active(s) => s.identity \/ Pt(s) = "publish-leave"
  /\ Pt(s) = "publish-leave" => ~s.joined
  /\ Pt(s) \in ServePoints => Active(s)
  /\ \A kind \in Requests : Has(s, kind) => Active(s) \/ s.phase = "left"
  /\ Pt(s) = "publish-join" => s.joined
  /\ s.phase = "left" => ~s.connectionId /\ Pt(s) # "member-remove"
  /\ s.phase = "absent" => ~s.connectionId

\* A Leave of c is the next thing that a list of lapsed records publishes.
Due(c) ==
  \/ \E p \in Peer : Pt(peer[p]) = "publish-leaves" /\ c \in peer[p].queue[1].leaves
  \/ maintenance # <<>> /\ maintenance[1].at = "publish" /\ c \in maintenance[1].leaves

Known(c) == OnMessage /\ (c \in members \/ Due(c))

WasJoined(s) == s.joined \/ Pt(s) = "publish-leave" \/ s.phase = "left"

Announces(s) ==
  \/ Pt(s) = "publish-leave"
  \/ s.joined /\ s.identity /\ (OnMessage => Pt(s) \in Resigning)

Covered(c) == WasJoined(peer[c]) /\ (Announces(peer[c]) \/ Known(c))

JoinPoints == {"join-lease", "publish-join"}
Recorded(c) == Pt(peer[c]) \in JoinPoints => c \in members \ lapsed

\* What holds of a connection.
ViewOK(c) ==
  /\ SessionOK(peer[c])
  /\ Recorded(c)
  /\ ~OnMessage => peer[c].phase # "asleep"
  /\ c \in shown \ lost => Covered(c)

ViewInv == \A c \in Peer : ViewOK(c)

\* A reset leaves no session that was joined without its Leave.
Ready(s) ==
  /\ s.joined /\ ~s.identity => ~s.connectionId /\ ~s.lease /\ ~s.fanoutRetained
  /\ s.phase \in {"absent", "connected"} => ~s.joined
  /\ Active(s) => s.identity
  /\ \A kind \in Requests : Has(s, kind) => Active(s) \/ s.phase = "left"
  /\ s.phase = "left" => ~s.connectionId /\ ~s.lease /\ ~s.fanoutRetained

Resigned(s, t) ==
  /\ SessionOK(t) /\ Pt(t) \in IdlePoints \cup ResetPoints /\ t.phase \in {s.phase, "left"}
  /\ s.joined /\ s.identity =>
       (t.joined /\ t.identity /\ Pt(t) \in Resigning) \/ Pt(t) = "publish-leave"
  /\ s.joined => t.joined \/ Pt(t) = "publish-leave" \/ t.phase = "left"

LEMMA SessionReady ==
  ASSUME NEW s, PeerOK(s), SessionOK(s), Pt(s) # "publish-leave" PROVE Ready(s)
<1>1. Pt(s) = "recheck" => ~s.lease /\ ~s.fanoutRetained
  BY DEF PeerOK, HeldOK, SetupPoints, Active
<1>2. s.phase = "left" => ~s.lease /\ ~s.fanoutRetained BY DEF PeerOK, HeldOK, Active
<1> QED BY <1>1, <1>2 DEF SessionOK, Ready

LEMMA FinishResetOf ==
  ASSUME NEW s, Leaves(s), ~s.joined
  PROVE  LET t == FinishReset(s) IN
         SessionOK(t) /\ Pt(t) \in IdlePoints /\ t.phase = "left"
<1> DEFINE u == [s EXCEPT !.connectionId = FALSE, !.phase = "left"]
           t == Done(u)
<1>1. /\ u \in PeerState /\ u.queue = s.queue /\ u.phase = "left" /\ ~u.connectionId
      /\ u.joined = s.joined
  BY DEF Leaves, PeerState, Phases
<1>2. FinishReset(s) = t BY DEF FinishReset
<1> HIDE DEF u
<1>3. SameRest(u, t) /\ Pt(t) \in IdlePoints BY <1>1, DoneIs DEF Leaves
<1> HIDE DEF t
<1>4. t.phase = "left" /\ ~t.connectionId /\ ~t.joined BY <1>1, <1>3 DEF SameRest
<1>5. SessionOK(t) BY <1>3, <1>4 DEF SessionOK, IdlePoints, ServePoints, Active
<1> QED BY <1>2, <1>3, <1>4, <1>5

\* The next await of a reset.
LEMMA ResigningIs ==
  ASSUME NEW s, Leaves(s), NEW point \in ResetPoints
  PROVE  LET t == Goto(s, point) IN
         SameRest(s, t) /\ Pt(t) = point /\ \A kind : Has(t, kind) <=> Has(s, kind)
<1>1. point \in Points BY DEF ResetPoints, ReleasePoints, Points
<1> QED BY <1>1, GotoIs DEF Leaves

LEMMA AfterRemovalOf ==
  ASSUME NEW s, Leaves(s), ~s.lease, Ready(s), NEW removed PROVE Resigned(s, AfterRemoval(s, removed))
<1> DEFINE u == [s EXCEPT !.identity = FALSE, !.joined = FALSE, !.heartbeat = "none"]
           t == Goto(u, "publish-leave")
           w == FinishReset(u)
<1>1. /\ u \in PeerState /\ u.queue = s.queue /\ u.phase = s.phase
      /\ u.leaveRequested = s.leaveRequested /\ ~u.joined /\ u.connectionId = s.connectionId
      /\ u.fanoutRetained = s.fanoutRetained /\ u.lease = s.lease
  BY DEF Leaves, PeerState
<1>2. \A kind : Has(u, kind) <=> Has(s, kind) BY <1>1 DEF Has
<1>3. AfterRemoval(s, removed) = IF (s.joined \/ removed) /\ s.identity THEN t ELSE w
  BY DEF AfterRemoval
<1> HIDE DEF u
<1>4. Leaves(u) BY <1>1 DEF Leaves, Active
<1>5. SessionOK(w) /\ Pt(w) \in IdlePoints /\ w.phase = "left" BY <1>1, <1>4, FinishResetOf
<1>6. "publish-leave" \in ResetPoints BY DEF ResetPoints
<1>7. SameRest(u, t) /\ Pt(t) = "publish-leave" /\ \A kind : Has(t, kind) <=> Has(u, kind)
  BY <1>4, <1>6, ResigningIs
<1> HIDE DEF t, w
<1>8. /\ ~t.joined /\ t.phase = s.phase /\ t.phase # "absent"
      /\ t.phase = "left" => ~t.connectionId
  BY <1>1, <1>7 DEF SameRest, Ready, Leaves
<1>9. \A kind \in Requests : Has(t, kind) => Active(t) \/ t.phase = "left"
  BY <1>2, <1>7, <1>8 DEF Ready, Active
<1>10. SessionOK(t) BY <1>7, <1>8, <1>9 DEF SessionOK, ServePoints
<1>11. Resigned(s, t) BY <1>6, <1>7, <1>8, <1>10 DEF Resigned
<1>12. ~((s.joined \/ removed) /\ s.identity) => Resigned(s, w) BY <1>5 DEF Resigned
<1> QED BY <1>3, <1>11, <1>12

\* A reset that has to wait, as the session it still is.
LEMMA ResigningOf ==
  ASSUME NEW s, Leaves(s), Ready(s), NEW point \in Resigning, s.joined => s.identity,
         point = "member-remove" => s.phase # "left"
  PROVE  Resigned(s, Goto(s, point))
<1> DEFINE t == Goto(s, point)
<1>1. point \in ResetPoints /\ point # "publish-leave"
  BY DEF Resigning, ResetPoints, ReleasePoints
<1>2. SameRest(s, t) /\ Pt(t) = point /\ \A kind : Has(t, kind) <=> Has(s, kind)
  BY <1>1, ResigningIs
<1> HIDE DEF t
<1>3. SessionOK(t)
  <2>1. /\ t.joined => t.identity
        /\ t.phase \in {"absent", "connected"} => ~t.joined
        /\ Active(t) => t.identity
        /\ \A kind \in Requests : Has(t, kind) => Active(t) \/ t.phase = "left"
        /\ t.phase = "left" => ~t.connectionId /\ point # "member-remove"
        /\ t.phase # "absent"
    BY <1>2 DEF SameRest, Ready, Active, Leaves
  <2>2. point \notin ServePoints \cup {"recheck", "authorize", "publish-join"}
    BY DEF Resigning, ReleasePoints, ServePoints
  <2> QED BY <1>1, <1>2, <2>1, <2>2 DEF SessionOK
<1>4. Resigned(s, t) BY <1>1, <1>2, <1>3 DEF Resigned, SameRest
<1> QED BY <1>4 DEF t

LEMMA RemoveMemberOf ==
  ASSUME NEW s, Leaves(s), ~s.lease, Ready(s) PROVE Resigned(s, RemoveMember(s))
<1>1. Resigned(s, AfterRemoval(s, FALSE)) BY AfterRemovalOf
<1>2. s.connectionId => (s.joined => s.identity) /\ s.phase # "left" BY DEF Ready
<1>3. "member-remove" \in Resigning BY DEF Resigning
<1>4. s.connectionId => Resigned(s, Goto(s, "member-remove")) BY <1>2, <1>3, ResigningOf
<1> QED BY <1>1, <1>4 DEF RemoveMember

LEMMA ReleaseLeaseOf ==
  ASSUME NEW s, Leaves(s), ~s.fanoutRetained, Ready(s) PROVE Resigned(s, ReleaseLease(s))
<1>1. CASE ~s.lease BY <1>1, RemoveMemberOf DEF ReleaseLease
<1>2. CASE s.lease
  <2> DEFINE u == [s EXCEPT !.lease = FALSE]
             t == Goto(u, "lease-release")
  <2>1. /\ u \in PeerState /\ u.queue = s.queue /\ u.phase = s.phase
        /\ u.leaveRequested = s.leaveRequested /\ ~u.lease
        /\ u.fanoutRetained = s.fanoutRetained /\ u.connectionId = s.connectionId
        /\ u.identity = s.identity /\ u.joined = s.joined
    BY DEF Leaves, PeerState
  <2>2. \A kind : Has(u, kind) <=> Has(s, kind) BY <2>1 DEF Has
  <2>3. ReleaseLease(s) = t BY <1>2 DEF ReleaseLease
  <2> HIDE DEF u
  <2>4. Leaves(u) BY <2>1 DEF Leaves
  <2>5. Ready(u) /\ (u.joined => u.identity) BY <1>2, <2>1, <2>2 DEF Ready, Active
  <2>6. "lease-release" \in Resigning /\ "lease-release" # "member-remove"
    BY DEF Resigning, ReleasePoints
  <2>7. Resigned(u, t) BY <2>4, <2>5, <2>6, ResigningOf
  <2> HIDE DEF t
  <2>8. Resigned(s, t) BY <2>1, <2>7 DEF Resigned
  <2> QED BY <2>3, <2>8
<1>3. s.lease \in BOOLEAN BY DEF Leaves, PeerState
<1> QED BY <1>1, <1>2, <1>3

LEMMA AbandonOf ==
  ASSUME NEW s, CanReset(s), Ready(s) PROVE Resigned(s, Abandon(s))
<1> DEFINE u == [s EXCEPT !.leaveRequested = TRUE, !.fanoutRetained = FALSE]
           t == Goto(u, "release-lock")
<1>1. /\ u \in PeerState /\ u.queue = s.queue /\ u.phase = s.phase
      /\ u.leaveRequested /\ ~u.fanoutRetained /\ u.lease = s.lease
      /\ u.connectionId = s.connectionId /\ u.identity = s.identity /\ u.joined = s.joined
  BY DEF CanReset, PeerState
<1>2. \A kind : Has(u, kind) <=> Has(s, kind) BY <1>1 DEF Has
<1>3. Abandon(s) = IF s.fanoutRetained THEN t ELSE ReleaseLease(u) BY DEF Abandon
<1> HIDE DEF u
<1>4. Leaves(u) BY <1>1 DEF Leaves, CanReset, Active
<1>5. Ready(u) BY <1>1, <1>2 DEF Ready, Active
<1>6. ~s.fanoutRetained => Resigned(u, ReleaseLease(u)) BY <1>1, <1>4, <1>5, ReleaseLeaseOf
<1>7. s.fanoutRetained => Resigned(u, t)
  <2>1. "release-lock" \in Resigning /\ "release-lock" # "member-remove"
    BY DEF Resigning, ReleasePoints
  <2>2. s.fanoutRetained => (u.joined => u.identity) BY <1>1 DEF Ready
  <2> QED BY <1>4, <1>5, <2>1, <2>2, ResigningOf
<1> HIDE DEF t
<1>8. Resigned(u, Abandon(s)) BY <1>3, <1>6, <1>7
<1> QED BY <1>1, <1>8 DEF Resigned

\* Resets and Ends: see ResetsIs.
LEMMA ResetsOf ==
  ASSUME NEW p \in Peer, peer \in [Peer -> PeerState], NEW s, CanReset(s), Ready(s), NEW lock,
         Resets(p, s, lock) \/ Ends(p, s, lock)
  PROVE  Resigned(s, peer'[p])
<1> DEFINE u == [s EXCEPT !.open = FALSE]
<1>1. CASE Resets(p, s, lock)
  <2>1. peer' = [peer EXCEPT ![p] = Abandon(s)] BY <1>1 DEF Resets, Becomes, Abandon
  <2> QED BY <2>1, AbandonOf
<1>2. CASE Ends(p, s, lock)
  <2>1. /\ u \in PeerState /\ u.queue = s.queue /\ u.phase = s.phase
        /\ u.fanoutRetained = s.fanoutRetained /\ u.lease = s.lease
        /\ u.connectionId = s.connectionId /\ u.identity = s.identity /\ u.joined = s.joined
    BY DEF CanReset, PeerState
  <2>2. peer' = [peer EXCEPT ![p] = Abandon(u)] BY <1>2 DEF Ends, Resets, Becomes, Abandon
  <2> HIDE DEF u
  <2>3. \A kind : Has(u, kind) <=> Has(s, kind) BY <2>1 DEF Has
  <2>4. CanReset(u) /\ Ready(u) BY <2>1, <2>3 DEF CanReset, Ready, Active
  <2>5. Resigned(u, Abandon(u)) BY <2>4, AbandonOf
  <2>6. peer'[p] = Abandon(u) BY <2>2
  <2> QED BY <2>1, <2>5, <2>6 DEF Resigned
<1> QED BY <1>1, <1>2

\* What a step of a peer carries over, if it does not end the announcement of its Leave.
Carries(s, t) ==
  /\ SessionOK(t)
  /\ t.phase = "asleep" => s.phase = "asleep"
  /\ s.joined \/ s.phase = "left" => WasJoined(t)
  /\ s.joined /\ s.identity =>
       \/ Pt(t) = "publish-leave"
       \/ t.joined /\ t.identity /\ (Pt(s) \in Resigning => Pt(t) \in Resigning)

LEMMA ResignedCarries ==
  ASSUME NEW s, NEW t, Resigned(s, t), s.phase # "asleep" PROVE Carries(s, t)
<1>1. s.joined \/ s.phase = "left" => WasJoined(t) BY DEF Resigned, WasJoined
<1> QED BY <1>1 DEF Resigned, Carries

\* The Leaves that a sweep publishes are still to be published.
SweepKept ==
  maintenance # <<>> /\ maintenance[1].at = "publish" =>
    /\ maintenance' # <<>> /\ maintenance'[1].at = "publish"
    /\ maintenance'[1].leaves = maintenance[1].leaves

\* What a step keeps of a connection whose peer it does not move.
Kept(c) ==
  /\ c \in shown' \ lost' => c \in shown \ lost /\ (Known(c) => Known(c)')
  /\ Pt(peer[c]) \in JoinPoints /\ c \in members \ lapsed => c \in members' \ lapsed'

\* A connection whose peer does not move.
LEMMA KeptView ==
  ASSUME ViewInv, NEW c \in Peer, peer'[c] = peer[c], host' = host, Kept(c) PROVE ViewOK(c)'
<1>1. ViewOK(c) BY DEF ViewInv
<1>2. OnMessage' <=> OnMessage BY DEF OnMessage, RefreshMode
<1>3. SessionOK(peer[c])' BY <1>1 DEF ViewOK, SessionOK, Pt, Has, Active
<1>4. Recorded(c)' BY <1>1 DEF ViewOK, Recorded, Kept, Pt
<1>5. (~OnMessage => peer[c].phase # "asleep")' BY <1>1, <1>2 DEF ViewOK
<1>6. c \in shown' \ lost' => Covered(c)'
  <2> SUFFICES ASSUME c \in shown' \ lost' PROVE Covered(c)' OBVIOUS
  <2>1. Covered(c) /\ (Known(c) => Known(c)') BY <1>1 DEF Kept, ViewOK
  <2>2. WasJoined(peer[c])' BY <2>1 DEF Covered, WasJoined, Pt
  <2>3. Announces(peer[c]) => Announces(peer[c])' BY <1>2 DEF Announces, Pt
  <2> QED BY <2>1, <2>2, <2>3 DEF Covered
<1> QED BY <1>3, <1>4, <1>5, <1>6 DEF ViewOK

LEMMA ViewStep ==
  ASSUME ViewInv, NEW p \in Peer, peer \in [Peer -> PeerState],
         peer' = [peer EXCEPT ![p] = peer'[p]], host' = host,
         \A c \in Peer : c # p => Kept(c), ViewOK(p)'
  PROVE  ViewInv'
<1>1. \A c \in Peer : c # p => peer'[c] = peer[c] OBVIOUS
<1>2. \A c \in Peer : c # p => ViewOK(c)' BY <1>1, KeptView
<1> QED BY <1>2 DEF ViewInv

\* The peer that moves, when it carries over what covers it.
LEMMA ViewOf ==
  ASSUME ViewInv, NEW p \in Peer, host' = host,
         Pt(peer[p]) # "publish-leave", Carries(peer[p], peer'[p]), Recorded(p)',
         p \in shown' \ lost' => /\ p \in shown \ lost
                                 /\ Known(p) => Known(p)' \/ Announces(peer'[p])
  PROVE  ViewOK(p)'
<1> DEFINE s == peer[p]   t == peer'[p]
<1>1. ViewOK(p) /\ Carries(s, t) BY DEF ViewInv
<1>2. OnMessage' <=> OnMessage BY DEF OnMessage, RefreshMode
<1>3. SessionOK(peer[p])' BY <1>1 DEF Carries, SessionOK, Pt, Has, Active
<1>4. (~OnMessage => peer[p].phase # "asleep")' BY <1>1, <1>2 DEF ViewOK, Carries
<1>5. p \in shown' \ lost' => Covered(p)'
  <2> SUFFICES ASSUME p \in shown' \ lost' PROVE Covered(p)' OBVIOUS
  <2>1. Covered(p) BY <1>1 DEF ViewOK
  <2>2. WasJoined(t) BY <1>1, <2>1 DEF Covered, WasJoined, Carries
  <2>3. Announces(s) => Announces(t) BY <1>1 DEF Announces, Carries
  <2>4. Announces(t) => Announces(peer[p])' BY <1>2 DEF Announces, Pt
  <2>5. Known(p)' \/ Announces(peer[p])' BY <2>1, <2>3, <2>4 DEF Covered
  <2>6. WasJoined(peer[p])' BY <2>2 DEF WasJoined, Pt
  <2> QED BY <2>5, <2>6 DEF Covered
<1> QED BY <1>3, <1>4, <1>5 DEF ViewOK

\* The lists of Leaves stay when p, which has none, moves.
LEMMA DueKept ==
  ASSUME NEW p \in Peer, peer \in [Peer -> PeerState], peer' = [peer EXCEPT ![p] = peer'[p]],
         SweepKept,
         Pt(peer[p]) = "publish-leaves" =>
           Pt(peer'[p]) = "publish-leaves" /\ peer'[p].queue[1].leaves = peer[p].queue[1].leaves
  PROVE  \A c : Due(c) => Due(c)'
<1> TAKE c
<1>1. ASSUME NEW q \in Peer, Pt(peer[q]) = "publish-leaves", c \in peer[q].queue[1].leaves
      PROVE  Due(c)'
  <2>1. Pt(peer'[q]) = "publish-leaves" /\ c \in peer'[q].queue[1].leaves BY <1>1
  <2> QED BY <2>1 DEF Due, Pt
<1>2. ASSUME maintenance # <<>>, maintenance[1].at = "publish", c \in maintenance[1].leaves
      PROVE  Due(c)'
  BY <1>2 DEF Due, SweepKept
<1> QED BY <1>1, <1>2 DEF Due

\* A step that leaves the store and the viewers alone.
LEMMA PlainStep ==
  ASSUME RoomInv, ViewInv, NEW p \in Peer, peer' = [peer EXCEPT ![p] = peer'[p]],
         host' = host, UNCHANGED <<storeVars, viewVars>>, SweepKept,
         Pt(peer[p]) \notin {"publish-leave", "publish-leaves"}, Carries(peer[p], peer'[p]),
         Pt(peer'[p]) \in JoinPoints => Pt(peer[p]) \in JoinPoints
  PROVE  ViewInv'
<1>1. peer \in [Peer -> PeerState] BY InvIs
<1>2. \A c : Due(c) => Due(c)' BY <1>1, DueKept
<1>3. OnMessage' <=> OnMessage BY DEF OnMessage, RefreshMode
<1>4. /\ shown' = shown /\ lost' = lost /\ members' = members /\ lapsed' = lapsed
  BY DEF storeVars, viewVars
<1>5. \A c : Known(c) => Known(c)' BY <1>2, <1>3, <1>4 DEF Known
<1>6. \A c : Kept(c) BY <1>4, <1>5 DEF Kept
<1>7. Recorded(p)' BY <1>4 DEF ViewInv, ViewOK, Recorded, Pt
<1>8. ViewOK(p)' BY <1>4, <1>5, <1>7, ViewOf
<1> QED BY <1>1, <1>6, <1>8, ViewStep

\* A peer that is reset, in the state s.
LEMMA QuitCarries ==
  ASSUME RoomInv, NEW p \in Peer, NEW s, CanReset(s), Ready(s), NEW lock,
         s.joined = peer[p].joined, s.identity = peer[p].identity, s.phase = peer[p].phase,
         Resets(p, s, lock) \/ Ends(p, s, lock)
  PROVE  /\ peer' = [peer EXCEPT ![p] = peer'[p]]
         /\ Carries(peer[p], peer'[p]) /\ Resigned(s, peer'[p])
         /\ Pt(peer'[p]) \notin JoinPoints
<1>1. peer \in [Peer -> PeerState] BY InvIs
<1>2. peer' = [peer EXCEPT ![p] = peer'[p]] BY <1>1, ResetsIs
<1>3. Resigned(s, peer'[p]) BY <1>1, ResetsOf
<1>4. Carries(s, peer'[p]) BY <1>3, ResignedCarries DEF CanReset
<1>5. Pt(peer'[p]) \notin JoinPoints
  BY <1>3 DEF Resigned, JoinPoints, IdlePoints, ResetPoints, ReleasePoints
<1> DEFINE t == peer'[p]
<1>6. (Pt(peer[p]) \in Resigning => Pt(t) \in Resigning \/ Pt(t) = "publish-leave")
      \/ ~(peer[p].joined /\ peer[p].identity)
  BY <1>3 DEF Resigned
<1>7. Carries(peer[p], t) BY <1>4, <1>6 DEF Carries
<1> QED BY <1>2, <1>3, <1>5, <1>7

\* The facts of ViewInv about the peer that moves.
LEMMA SessionIs ==
  ASSUME ViewInv, NEW p \in Peer
  PROVE  ViewOK(p) /\ SessionOK(peer[p])
BY DEF ViewInv, ViewOK

\* A peer that is reset as it is.
LEMMA QuitView ==
  ASSUME RoomInv, ViewInv, NEW p \in Peer, NEW point, At(p, point), point # "publish-leave",
         NEW lock, Resets(p, peer[p], lock) \/ Ends(p, peer[p], lock)
  PROVE  /\ peer' = [peer EXCEPT ![p] = peer'[p]]
         /\ Carries(peer[p], peer'[p]) /\ Resigned(peer[p], peer'[p])
         /\ Pt(peer'[p]) \notin JoinPoints
<1>1. CanReset(peer[p]) /\ Pt(peer[p]) = point /\ PeerOK(peer[p]) BY AtIs, InvIs
<1>2. Ready(peer[p]) BY <1>1, SessionIs, SessionReady
<1> QED BY <1>1, <1>2, QuitCarries

\* A session goes on with a message, or to its next job.
LEMMA GoesOn ==
  ASSUME NEW s, SessionOK(s), NEW t, SameRest(s, t), Pt(s) \in {"start"} \cup ServePoints,
         \A kind \in Requests : Has(t, kind) => Has(s, kind),
         Pt(t) \in IdlePoints \cup (ServePoints \ {"publish-join"}),
         Pt(t) \in ServePoints => Active(s)
  PROVE  Carries(s, t)
<1>1. Pt(s) \notin {"recheck", "publish-leave"} \cup Resigning
  BY DEF ServePoints, Resigning, ReleasePoints
<1>2. Pt(t) \notin {"recheck", "publish-leave", "authorize", "member-remove", "publish-join"}
  BY DEF ServePoints, IdlePoints
<1>3. SessionOK(t) BY <1>1, <1>2 DEF SessionOK, SameRest, Active
<1> QED BY <1>1, <1>2, <1>3 DEF Carries, SameRest, SessionOK, WasJoined

\* A message that ends its session, goes on or is done.
LEMMA ServedView ==
  ASSUME RoomInv, ViewInv, NEW p \in Peer, NEW point \in ServePoints, At(p, point),
         NEW next \in ServePoints \ {"publish-join"},
         \/ Ends(p, peer[p], fanoutQueue)
         \/ Becomes(p, Goto(peer[p], next))
         \/ Becomes(p, Done(peer[p]))
  PROVE  /\ peer' = [peer EXCEPT ![p] = peer'[p]]
         /\ Carries(peer[p], peer'[p]) /\ Pt(peer[p]) = point
         /\ Pt(peer'[p]) \in JoinPoints => next \in JoinPoints
         /\ Ends(p, peer[p], fanoutQueue) => Resigned(peer[p], peer'[p])
         /\ Active(peer[p]) /\ (peer[p].joined => peer[p].identity)
<1> DEFINE s == peer[p]
<1>1. /\ PeerOK(s) /\ s.queue # <<>> /\ s.queue[1].kind \in Requests
      /\ Pt(s) = point /\ SessionOK(s) /\ peer \in [Peer -> PeerState]
  BY AtIs, ServingIs, InvIs, SessionIs
<1>2. Active(s) /\ (s.joined => s.identity) BY <1>1 DEF SessionOK, ServePoints
<1>3. CASE Ends(p, peer[p], fanoutQueue)
  <2>1. point # "publish-leave" BY DEF ServePoints
  <2> QED BY <1>1, <1>2, <1>3, <2>1, QuitView
<1>4. CASE Becomes(p, Goto(s, next))
  <2>1. /\ SameRest(s, Goto(s, next)) /\ Pt(Goto(s, next)) = next
        /\ \A kind : Has(Goto(s, next), kind) <=> Has(s, kind)
    BY <1>1, ServeGoto
  <2>2. Carries(s, Goto(s, next)) BY <1>1, <1>2, <2>1, GoesOn
  <2>3. peer' = [peer EXCEPT ![p] = Goto(s, next)] /\ peer'[p] = Goto(s, next)
    BY <1>1, <1>4 DEF Becomes
  <2>4. ~Ends(p, peer[p], fanoutQueue) \/ Resigned(peer[p], peer'[p])
    <3>1. point # "publish-leave" BY DEF ServePoints
    <3> QED BY <3>1, QuitView
  <2> HIDE DEF s
  <2> QED BY <1>1, <1>2, <2>1, <2>2, <2>3, <2>4 DEF s
<1>5. CASE Becomes(p, Done(s))
  <2>1. PeerOK(s) /\ s \in PeerState /\ QueueOK(s.queue) BY <1>1 DEF PeerOK
  <2>2. /\ SameRest(s, Done(s)) /\ Pt(Done(s)) \in IdlePoints
        /\ \A kind : Has(Done(s), kind) => Has(s, kind)
    BY <1>1, <2>1, DoneIs
  <2>3. Pt(Done(s)) \notin ServePoints /\ Pt(Done(s)) \notin JoinPoints
    BY <2>2 DEF IdlePoints, ServePoints, JoinPoints
  <2>4. Carries(s, Done(s)) BY <1>1, <2>2, <2>3, GoesOn
  <2>5. peer' = [peer EXCEPT ![p] = Done(s)] /\ peer'[p] = Done(s) BY <1>1, <1>5 DEF Becomes
  <2>6. ~Ends(p, peer[p], fanoutQueue) \/ Resigned(peer[p], peer'[p])
    <3>1. point # "publish-leave" BY DEF ServePoints
    <3> QED BY <3>1, QuitView
  <2> HIDE DEF s
  <2> QED BY <1>1, <1>2, <2>3, <2>4, <2>5, <2>6 DEF s
<1> QED BY <1>3, <1>4, <1>5

-----------------------------------------------------------------------------
(* The messages of a session, and who is shown.                            *)

\* Of a step of one peer that is not at a list of Leaves, what ViewOf and ViewStep need.
LEMMA KnownKept ==
  ASSUME RoomInv, NEW p \in Peer, peer' = [peer EXCEPT ![p] = peer'[p]], SweepKept, host' = host,
         Pt(peer[p]) # "publish-leaves"
  PROVE  \A c : Known(c) /\ (c \in members => c \in members') => Known(c)'
<1>1. peer \in [Peer -> PeerState] BY InvIs
<1>2. \A c : Due(c) => Due(c)' BY <1>1, DueKept
<1> QED BY <1>2 DEF Known, OnMessage, RefreshMode

LEMMA HeartbeatLeaseView ==
  ASSUME RoomInv, ViewInv, NEW p \in Peer, HeartbeatLease(p) PROVE ViewInv'
<1> DEFINE next == "refresh-member"
<1>1. /\ At(p, "refresh-lease") /\ "refresh-lease" \in ServePoints
      /\ next \in ServePoints \ {"publish-join"} /\ next \notin JoinPoints
  BY DEF HeartbeatLease, ServePoints, JoinPoints
<1>2. /\ host' = host /\ UNCHANGED <<storeVars, viewVars>> /\ SweepKept
      /\ Ends(p, peer[p], fanoutQueue) \/ Becomes(p, Goto(peer[p], next))
  BY BoundsAre DEF HeartbeatLease, SweepKept
<1> HIDE DEF next
<1>3. /\ peer' = [peer EXCEPT ![p] = peer'[p]] /\ Carries(peer[p], peer'[p])
      /\ Pt(peer[p]) = "refresh-lease" /\ Pt(peer'[p]) \notin JoinPoints
  BY <1>1, <1>2, ServedView
<1> QED BY <1>2, <1>3, PlainStep

LEMMA LeaseCheckedView ==
  ASSUME RoomInv, ViewInv, NEW p \in Peer, LeaseChecked(p) PROVE ViewInv'
<1> DEFINE s == peer[p]
           u == [s EXCEPT !.joined = TRUE, !.phase = "joined"]
           t == Goto(u, "publish-join")
<1>1. PICK point \in {"join-lease", "update-lease"} : At(p, point) BY DEF LeaseChecked
<1>2. /\ host' = host /\ UNCHANGED <<storeVars, viewVars>> /\ SweepKept
      /\ \/ Ends(p, s, fanoutQueue)
         \/ At(p, "join-lease") /\ Becomes(p, t)
         \/ Becomes(p, Goto(s, "publish-update"))
  BY BoundsAre DEF LeaseChecked, SweepKept
<1>3. point \in ServePoints /\ "publish-update" \in ServePoints \ {"publish-join"}
      /\ "publish-update" \notin JoinPoints
  BY DEF ServePoints, JoinPoints
<1>4. CASE Ends(p, s, fanoutQueue) \/ Becomes(p, Goto(s, "publish-update"))
  <2>1. /\ peer' = [peer EXCEPT ![p] = peer'[p]] /\ Carries(peer[p], peer'[p])
        /\ Pt(peer[p]) = point /\ Pt(peer'[p]) \notin JoinPoints
    BY <1>1, <1>3, <1>4, ServedView
  <2> QED BY <1>1, <1>2, <2>1, PlainStep
<1>5. CASE At(p, "join-lease") /\ Becomes(p, t)
  <2>1. "join-lease" \in ServePoints /\ "publish-join" \in ServePoints /\ "publish-join" \in Points
    BY DEF ServePoints, Points
  <2>2. /\ PeerOK(s) /\ s.queue # <<>> /\ s.queue[1].kind \in Requests
        /\ Pt(s) = "join-lease" /\ SessionOK(s) /\ peer \in [Peer -> PeerState]
    BY <1>5, <2>1, AtIs, ServingIs, InvIs, SessionIs
  <2>3. Active(s) /\ s.identity BY <2>1, <2>2 DEF SessionOK
  <2>4. /\ u \in PeerState /\ u.queue = s.queue /\ u.phase = "joined" /\ u.joined
        /\ u.identity = s.identity
    BY <2>2 DEF PeerOK, PeerState, Phases
  <2> HIDE DEF u
  <2>5. s.queue[1].kind \notin Setup \cup Removals BY <2>2 DEF Requests, Setup, Removals
  <2>6. SameRest(u, t) /\ Pt(t) = "publish-join"
    BY <2>1, <2>2, <2>4, <2>5, GotoIs DEF PeerOK
  <2>7. peer' = [peer EXCEPT ![p] = t] /\ peer'[p] = t BY <1>5, <2>2 DEF Becomes
  <2> HIDE DEF t
  <2>8. t.joined /\ t.identity /\ t.phase = "joined" BY <2>3, <2>4, <2>6 DEF SameRest
  <2>9. SessionOK(t) BY <2>6, <2>8 DEF SessionOK, Active
  <2>10. Pt(s) \notin Resigning BY <2>2 DEF Resigning, ReleasePoints
  <2>11. Carries(s, t) BY <2>8, <2>9, <2>10 DEF Carries, WasJoined
  <2>12. Pt(s) \in JoinPoints BY <2>2 DEF JoinPoints
  <2> HIDE DEF s
  <2>13. Carries(peer[p], peer'[p]) /\ Pt(peer[p]) \in JoinPoints
    BY <2>7, <2>11, <2>12 DEF s
  <2>14. Pt(peer[p]) \notin {"publish-leave", "publish-leaves"} BY <2>13 DEF JoinPoints
  <2>15. peer' = [peer EXCEPT ![p] = peer'[p]] BY <2>7
  <2> QED BY <1>2, <2>13, <2>14, <2>15, PlainStep
<1> QED BY <1>2, <1>4, <1>5

LEMMA PublishedView ==
  ASSUME RoomInv, ViewInv, NEW p \in Peer, Published(p) PROVE ViewInv'
<1> DEFINE s == peer[p]   t == peer'[p]
<1>1. PICK point \in {"publish-join", "publish-update"} : At(p, point) BY DEF Published
<1>2. /\ host' = host /\ UNCHANGED storeVars /\ lost' = lost /\ SweepKept
      /\ \/ Ends(p, s, fanoutQueue) /\ shown' = shown
         \/ Becomes(p, Done(s)) /\ shown' \in {shown, shown \cup {p}}
      /\ shown' # shown => At(p, "publish-join") /\ Becomes(p, Done(s))
  BY BoundsAre DEF Published, SweepKept
<1>3. point \in ServePoints /\ "list" \in ServePoints \ {"publish-join"} /\ "list" \notin JoinPoints
      /\ point \notin {"publish-leave", "publish-leaves"}
  BY DEF ServePoints, JoinPoints
<1>4. /\ peer' = [peer EXCEPT ![p] = peer'[p]] /\ Carries(s, t)
      /\ Pt(s) = point /\ Pt(t) \notin JoinPoints
      /\ Active(s) /\ (s.joined => s.identity)
  BY <1>1, <1>2, <1>3, ServedView
<1>5. CASE shown' = shown
  BY <1>1, <1>2, <1>3, <1>4, <1>5, PlainStep DEF viewVars
<1>6. CASE shown' = shown \cup {p} /\ At(p, "publish-join") /\ Becomes(p, Done(s))
  <2>1. Pt(s) = "publish-join" /\ ViewOK(p) /\ peer \in [Peer -> PeerState] /\ PeerOK(s)
    BY <1>6, AtIs, SessionIs, InvIs
  <2>2. s.joined /\ s.identity /\ p \in members \ lapsed
    BY <1>4, <2>1 DEF ViewOK, SessionOK, Recorded, JoinPoints
  <2>3. \A c : Known(c) => Known(c)' BY <1>2, <1>4, <2>1, KnownKept DEF storeVars
  <2>4. \A c \in Peer : c # p => Kept(c) BY <1>2, <1>6, <2>3 DEF Kept, storeVars
  <2>5. t.joined /\ t.identity
    <3>1. s \in PeerState /\ QueueOK(s.queue) /\ s.queue # <<>>
      BY <2>1, HasHead DEF PeerOK, Pt
    <3>2. t = Done(s) BY <1>6, <2>1 DEF Becomes
    <3> HIDE DEF s, t
    <3>3. SameRest(s, t) BY <3>1, <3>2, DoneIs
    <3> QED BY <2>2, <3>3 DEF SameRest
  <2>6. OnMessage' <=> OnMessage BY <1>2 DEF OnMessage, RefreshMode
  <2>7. Covered(p)'
    <3>1. WasJoined(peer[p])' BY <2>5 DEF WasJoined
    <3>2. OnMessage => Known(p)' BY <1>2, <2>2, <2>6 DEF Known, storeVars
    <3>3. ~OnMessage => Announces(peer[p])' BY <2>5, <2>6 DEF Announces
    <3> QED BY <3>1, <3>2, <3>3 DEF Covered
  <2>8. SessionOK(peer[p])' BY <1>4 DEF Carries, SessionOK, Pt, Has, Active
  <2>9. Recorded(p)' BY <1>4 DEF Recorded, Pt
  <2>10. (~OnMessage => peer[p].phase # "asleep")'
    BY <1>4, <2>1, <2>6 DEF ViewOK, Carries
  <2>11. ViewOK(p)' BY <2>7, <2>8, <2>9, <2>10 DEF ViewOK
  <2> QED BY <1>2, <1>4, <2>1, <2>4, <2>11, ViewStep
<1> QED BY <1>2, <1>5, <1>6

LEMMA MemberSetView ==
  ASSUME RoomInv, ViewInv, NEW p \in Peer, MemberSet(p) PROVE ViewInv'
<1> DEFINE next == IF At(p, "set-joined") THEN "join-lease" ELSE "update-lease"
<1>1. PICK point \in {"set-joined", "set-updated"} : At(p, point) BY DEF MemberSet
<1>2. /\ host' = host /\ UNCHANGED viewVars /\ SweepKept
      /\ \/ Ends(p, peer[p], fanoutQueue) /\ UNCHANGED storeVars
         \/ /\ Becomes(p, Goto(peer[p], next))
            /\ members' = (IF OnMessage THEN members ELSE members \ lapsed) \cup {p}
            /\ lapsed' = IF OnMessage THEN lapsed \ {p} ELSE {}
  BY BoundsAre DEF MemberSet, SweepKept
<1>3. point \in ServePoints /\ next \in ServePoints \ {"publish-join"}
      /\ point \notin {"publish-leave", "publish-leaves"} /\ "list" \in ServePoints \ {"publish-join"}
      /\ "list" \notin JoinPoints
  BY DEF ServePoints, JoinPoints
<1> HIDE DEF next
<1>4. CASE Ends(p, peer[p], fanoutQueue) /\ UNCHANGED storeVars
  <2>1. /\ peer' = [peer EXCEPT ![p] = peer'[p]] /\ Carries(peer[p], peer'[p])
        /\ Pt(peer[p]) = point /\ Pt(peer'[p]) \notin JoinPoints
    BY <1>1, <1>3, <1>4, ServedView
  <2> QED BY <1>2, <1>3, <1>4, <2>1, PlainStep
<1>5. CASE /\ Becomes(p, Goto(peer[p], next))
           /\ members' = (IF OnMessage THEN members ELSE members \ lapsed) \cup {p}
           /\ lapsed' = IF OnMessage THEN lapsed \ {p} ELSE {}
  <2>1. /\ peer' = [peer EXCEPT ![p] = peer'[p]] /\ Carries(peer[p], peer'[p])
        /\ Pt(peer[p]) = point /\ peer \in [Peer -> PeerState]
    BY <1>1, <1>3, <1>5, ServedView, InvIs
  <2>2. \A c : OnMessage /\ c \in members => c \in members' BY <1>5
  <2>3. \A c : Known(c) => Known(c)'
    <3>1. \A c : Known(c) /\ (c \in members => c \in members') => Known(c)'
      BY <1>2, <1>3, <2>1, KnownKept
    <3> QED BY <2>2, <3>1 DEF Known
  <2>4. shown' = shown /\ lost' = lost BY <1>2 DEF viewVars
  <2>5. \A c : c \in members \ lapsed => c \in members' \ lapsed' BY <1>5
  <2>6. \A c : Kept(c) BY <2>3, <2>4, <2>5 DEF Kept
  <2>7. Recorded(p)' BY <1>5 DEF Recorded
  <2>8. ViewOK(p)' BY <1>2, <1>3, <2>1, <2>3, <2>4, <2>7, ViewOf
  <2> QED BY <1>2, <2>1, <2>6, <2>8, ViewStep
<1> QED BY <1>2, <1>4, <1>5

\* The list of a message, as it is set and as the message goes on.
LEMMA LeavesAre ==
  ASSUME NEW s, PeerOK(s), s.queue # <<>>, NEW leaves
  PROVE  /\ [s EXCEPT !.queue[1].leaves = leaves].queue[1].leaves = leaves
         /\ \A point : Goto(s, point).queue[1].leaves = s.queue[1].leaves
<1>1. s \in PeerState BY DEF PeerOK
<1>2. s.queue[1] \in Job /\ 1 \in DOMAIN s.queue /\ s.queue \in Seq(Job) BY <1>1, HeadIsJob
<1>3. "queue" \in DOMAIN s BY <1>1 DEF PeerState
<1> QED BY <1>2, <1>3 DEF Goto, Job

LEMMA ListedView ==
  ASSUME RoomInv, ViewInv, NEW p \in Peer, Listed(p) PROVE ViewInv'
<1> DEFINE s == peer[p]
           u == [s EXCEPT !.queue[1].leaves = lapsed]
           t == Goto(u, "publish-leaves")
<1>1. /\ At(p, "list") /\ host' = host /\ UNCHANGED viewVars /\ SweepKept
      /\ \/ Ends(p, s, fanoutQueue) /\ UNCHANGED storeVars
         \/ Becomes(p, t) /\ members' = members \ lapsed /\ lapsed' = {}
  BY BoundsAre DEF Listed, SweepKept
<1>2. /\ "list" \in ServePoints \ {"publish-join"} /\ "list" \notin JoinPoints
      /\ "publish-leaves" \in ServePoints \ {"publish-join"}
  BY DEF ServePoints, JoinPoints
<1>3. CASE Ends(p, s, fanoutQueue) /\ UNCHANGED storeVars
  <2>1. /\ peer' = [peer EXCEPT ![p] = peer'[p]] /\ Carries(peer[p], peer'[p])
        /\ Pt(peer[p]) = "list" /\ Pt(peer'[p]) \notin JoinPoints
    BY <1>1, <1>2, <1>3, ServedView
  <2> QED BY <1>1, <1>3, <2>1, PlainStep
<1>4. CASE Becomes(p, t) /\ members' = members \ lapsed /\ lapsed' = {}
  <2>1. /\ PeerOK(s) /\ s.queue # <<>> /\ s.queue[1].kind \in Requests /\ StoreTypes
        /\ SessionOK(s) /\ Pt(s) = "list" /\ peer \in [Peer -> PeerState]
    BY <1>1, <1>2, ServingIs, AtIs, InvIs, SessionIs
  <2>2. lapsed \in SUBSET Peer BY <2>1 DEF StoreTypes
  <2>3. /\ PeerOK(u) /\ SameRest(s, u) /\ u.queue # <<>> /\ u.queue[1].kind \in Requests
        /\ \A kind : Has(u, kind) <=> Has(s, kind)
    BY <2>1, <2>2, LeavesIs
  <2>4. u.queue[1].leaves = lapsed BY <2>1, LeavesAre
  <2> HIDE DEF u
  <2>5. /\ SameRest(u, t) /\ Pt(t) = "publish-leaves" /\ \A kind : Has(t, kind) <=> Has(u, kind)
        /\ t.queue[1].leaves = lapsed
    BY <1>2, <2>3, <2>4, ServeGoto, LeavesAre
  <2>6. peer' = [peer EXCEPT ![p] = t] /\ peer'[p] = t BY <1>4, <2>1 DEF Becomes
  <2> HIDE DEF t
  <2>7. Active(s) BY <1>2, <2>1 DEF SessionOK
  <2>8. Carries(s, t)
    <3>1. SameRest(s, t) BY <2>3, <2>5 DEF SameRest
    <3>2. \A kind : Has(t, kind) => Has(s, kind) BY <2>3, <2>5
    <3> QED BY <1>2, <2>1, <2>5, <2>7, <3>1, <3>2, GoesOn
  <2>9. \A c : c \in lapsed => Due(c)' BY <2>5, <2>6 DEF Due, Pt
  <2>10. peer' = [peer EXCEPT ![p] = peer'[p]] BY <2>6
  <2>11. OnMessage' <=> OnMessage BY <1>1 DEF OnMessage, RefreshMode
  <2>12. \A c : Known(c) => Known(c)'
    <3>1. \A c : Known(c) /\ (c \in members => c \in members') => Known(c)'
      BY <1>1, <2>1, <2>10, KnownKept
    <3>2. \A c : Known(c) /\ c \in members /\ c \notin members' => Known(c)'
      BY <1>4, <2>9, <2>11 DEF Known
    <3> QED BY <3>1, <3>2
  <2>13. shown' = shown /\ lost' = lost BY <1>1 DEF viewVars
  <2>14. \A c : Kept(c) BY <1>4, <2>12, <2>13 DEF Kept
  <2>15. Recorded(p)' BY <2>5, <2>6 DEF Recorded, JoinPoints, Pt
  <2>16. Carries(peer[p], peer'[p]) /\ Pt(peer[p]) # "publish-leave" BY <2>1, <2>6, <2>8
  <2>17. ViewOK(p)' BY <1>1, <2>12, <2>13, <2>15, <2>16, ViewOf
  <2> QED BY <1>1, <2>1, <2>10, <2>14, <2>17, ViewStep
<1> QED BY <1>1, <1>3, <1>4

\* A Leave that is due stays so, unless it was p that had it in its list.
LEMMA DueStays ==
  ASSUME NEW p \in Peer, peer \in [Peer -> PeerState], peer' = [peer EXCEPT ![p] = peer'[p]],
         maintenance' = maintenance, NEW c,
         Pt(peer[p]) = "publish-leaves" /\ c \in peer[p].queue[1].leaves =>
           Pt(peer'[p]) = "publish-leaves" /\ c \in peer'[p].queue[1].leaves
  PROVE  Due(c) => Due(c)'
<1>1. ASSUME NEW q \in Peer, Pt(peer[q]) = "publish-leaves", c \in peer[q].queue[1].leaves
      PROVE  Due(c)'
  <2>1. Pt(peer'[q]) = "publish-leaves" /\ c \in peer'[q].queue[1].leaves BY <1>1
  <2> QED BY <2>1 DEF Due, Pt
<1> QED BY <1>1 DEF Due

LEMMA LeavesPublishedView ==
  ASSUME RoomInv, ViewInv, NEW p \in Peer, LeavesPublished(p) PROVE ViewInv'
<1> DEFINE s == peer[p]
           leaves == Running(s).leaves
           u(c) == [s EXCEPT !.queue[1].leaves = @ \ {c}]
           t == peer'[p]
<1>1. /\ At(p, "publish-leaves") /\ host' = host /\ UNCHANGED storeVars
      /\ maintenance' = maintenance
      /\ \/ leaves = {} /\ Becomes(p, Done(s)) /\ UNCHANGED viewVars
         \/ \E c \in leaves : Becomes(p, u(c)) /\ shown' = shown \ {c} /\ lost' = lost
         \/ Ends(p, s, fanoutQueue) /\ lost' = lost \cup leaves /\ shown' = shown
  BY BoundsAre DEF LeavesPublished
<1>2. /\ "publish-leaves" \in ServePoints /\ "list" \in ServePoints \ {"publish-join"}
      /\ "list" \notin JoinPoints
  BY DEF ServePoints, JoinPoints
<1>3. /\ PeerOK(s) /\ s.queue # <<>> /\ s.queue[1] \in Job /\ Running(s) = s.queue[1]
      /\ Pt(s) = "publish-leaves" /\ SessionOK(s) /\ peer \in [Peer -> PeerState]
  BY <1>1, <1>2, ServingIs, AtIs, InvIs, SessionIs
<1>4. leaves = s.queue[1].leaves /\ leaves \in SUBSET Peer BY <1>3 DEF Job
<1>5. /\ peer' = [peer EXCEPT ![p] = t] /\ Carries(s, t) /\ Pt(t) \notin JoinPoints
      /\ \A c \in shown' \ lost' : /\ c \in shown \ lost
                                   /\ c \in leaves => Pt(t) = "publish-leaves" /\ c \in t.queue[1].leaves
  <2>1. CASE leaves = {} /\ Becomes(p, Done(s)) /\ UNCHANGED viewVars
    <3>1. peer' = [peer EXCEPT ![p] = t] /\ Carries(s, t) /\ Pt(t) \notin JoinPoints
      BY <1>1, <1>2, <2>1, ServedView
    <3> QED BY <2>1, <3>1 DEF viewVars
  <2>2. CASE Ends(p, s, fanoutQueue) /\ lost' = lost \cup leaves /\ shown' = shown
    <3>1. peer' = [peer EXCEPT ![p] = t] /\ Carries(s, t) /\ Pt(t) \notin JoinPoints
      BY <1>1, <1>2, <2>2, ServedView
    <3> QED BY <2>2, <3>1
  <2>3. ASSUME NEW c \in leaves, Becomes(p, u(c)), shown' = shown \ {c}, lost' = lost
        PROVE  /\ peer' = [peer EXCEPT ![p] = t] /\ Carries(s, t) /\ Pt(t) \notin JoinPoints
               /\ \A d \in shown' \ lost' :
                    /\ d \in shown \ lost
                    /\ d \in leaves => Pt(t) = "publish-leaves" /\ d \in t.queue[1].leaves
    <3> DEFINE rest == s.queue[1].leaves \ {c}
               v == [s EXCEPT !.queue[1].leaves = rest]
    <3>1. u(c) = v OBVIOUS
    <3>2. rest \in SUBSET Peer BY <1>4
    <3> HIDE DEF rest
    <3>3. /\ SameRest(s, v) /\ Pt(v) = Pt(s) /\ \A kind : Has(v, kind) <=> Has(s, kind)
          /\ v.queue[1].leaves = rest
      <4>1. PeerOK(s) /\ s.queue # <<>> BY <1>3
      <4> HIDE DEF s
      <4>2. SameRest(s, v) /\ Pt(v) = Pt(s) /\ \A kind : Has(v, kind) <=> Has(s, kind)
        BY <3>2, <4>1, LeavesIs
      <4>3. v.queue[1].leaves = rest BY <4>1, LeavesAre
      <4> QED BY <4>2, <4>3
    <3>4. peer' = [peer EXCEPT ![p] = v] /\ t = v BY <1>3, <2>3, <3>1 DEF Becomes
    <3> HIDE DEF v
    <3>5. Active(s) /\ Pt(v) \notin JoinPoints BY <1>2, <1>3, <3>3 DEF SessionOK, JoinPoints
    <3>6. Carries(s, v)
      <4>1. SessionOK(s) /\ Pt(s) = "publish-leaves" /\ Pt(v) = "publish-leaves" BY <1>3, <3>3
      <4>2. SameRest(s, v) /\ \A kind \in Requests : Has(v, kind) => Has(s, kind) BY <3>3
      <4>3. "publish-leaves" \in ServePoints \ {"publish-join"} BY <1>2
      <4> HIDE DEF s
      <4> QED BY <3>5, <4>1, <4>2, <4>3, GoesOn
    <3>7. \A d \in leaves : d # c => d \in v.queue[1].leaves BY <1>4, <3>3 DEF rest
    <3> QED BY <1>3, <2>3, <3>3, <3>4, <3>5, <3>6, <3>7
  <2> QED BY <1>1, <2>1, <2>2, <2>3
<1> HIDE DEF s, t, u, leaves
<1>6. OnMessage' <=> OnMessage BY <1>1 DEF OnMessage, RefreshMode
<1>7. \A c \in shown' \ lost' : c \in shown \ lost /\ (Known(c) => Known(c)')
  <2> TAKE c \in shown' \ lost'
  <2>1. c \in leaves => Pt(t) = "publish-leaves" /\ c \in t.queue[1].leaves BY <1>5
  <2>2. Due(c) => Due(c)'
    BY <1>1, <1>3, <1>4, <1>5, <2>1, DueStays DEF s, t
  <2>3. members' = members BY <1>1 DEF storeVars
  <2> QED BY <1>5, <1>6, <2>2, <2>3 DEF Known
<1>8. \A c : Kept(c) BY <1>1, <1>7 DEF Kept, storeVars
<1>9. Recorded(p)' BY <1>5 DEF Recorded, Pt, t
<1>10. Pt(peer[p]) # "publish-leave" BY <1>3 DEF s
<1>11. ViewOK(p)' BY <1>1, <1>5, <1>7, <1>9, <1>10, ViewOf DEF s, t
<1>12. peer' = [peer EXCEPT ![p] = peer'[p]] BY <1>5 DEF t
<1> QED BY <1>1, <1>3, <1>8, <1>11, <1>12, ViewStep

\* The store forgets a lapsed record: on an on-message host, that of the peer that asks.
LEMMA ForgetIs ==
  ASSUME RoomInv, NEW p \in Peer, host' = host,
         members' = members \ Forget(p), lapsed' = lapsed \ Forget(p)
  PROVE  /\ \A c : OnMessage /\ c \in members /\ c # p => c \in members'
         /\ \A c : c \in members \ lapsed => c \in members' \ lapsed'
BY DEF Forget

LEMMA MemberAskedView ==
  ASSUME RoomInv, ViewInv, NEW p \in Peer, NEW point \in {"refresh-member", "get-member"},
         At(p, point), host' = host, UNCHANGED viewVars, SweepKept,
         NEW next \in {"set-updated", "list"},
         \/ /\ members' = members \ Forget(p) /\ lapsed' = lapsed \ Forget(p)
            /\ \/ Ends(p, peer[p], fanoutQueue)
               \/ /\ Becomes(p, Done(peer[p])) \/ Becomes(p, Goto(peer[p], next))
                  /\ p \in members' \/ ~peer[p].joined
         \/ Ends(p, peer[p], fanoutQueue) /\ UNCHANGED storeVars
  PROVE  ViewInv'
<1> DEFINE s == peer[p]   t == peer'[p]
<1>1. /\ point \in ServePoints /\ next \in ServePoints \ {"publish-join"} /\ next \notin JoinPoints
      /\ point \notin {"publish-leave", "publish-leaves"}
  BY DEF ServePoints, JoinPoints
<1>2. Ends(p, s, fanoutQueue) \/ Becomes(p, Done(s)) \/ Becomes(p, Goto(s, next)) OBVIOUS
<1>3. /\ peer' = [peer EXCEPT ![p] = t] /\ Carries(s, t)
      /\ Pt(s) = point /\ Pt(t) \notin JoinPoints
      /\ Ends(p, s, fanoutQueue) => Resigned(s, t)
      /\ Active(s) /\ (s.joined => s.identity)
  BY <1>1, <1>2, ServedView
<1>4. CASE Ends(p, s, fanoutQueue) /\ UNCHANGED storeVars
  BY <1>1, <1>3, <1>4, PlainStep
<1>5. CASE /\ members' = members \ Forget(p) /\ lapsed' = lapsed \ Forget(p)
           /\ Ends(p, s, fanoutQueue) \/ p \in members' \/ ~s.joined
  <2>1. /\ \A c : OnMessage /\ c \in members /\ c # p => c \in members'
        /\ \A c : c \in members \ lapsed => c \in members' \ lapsed'
    BY <1>5, ForgetIs
  <2>2. \A c : Known(c) /\ (c \in members => c \in members') => Known(c)'
    BY <1>1, <1>3, KnownKept
  <2>3. shown' = shown /\ lost' = lost BY DEF viewVars
  <2>4. \A c \in Peer : c # p => Kept(c) BY <2>1, <2>2, <2>3 DEF Kept, Known
  <2>5. ASSUME p \in shown \ lost, Known(p) PROVE Known(p)' \/ Announces(t)
    <3>1. Covered(p) BY <2>5 DEF ViewInv, ViewOK
    <3>2. s.joined /\ s.identity BY <1>1, <1>3, <3>1 DEF Covered, WasJoined, Active
    <3>3. Resigned(s, t) => Announces(t) BY <3>2 DEF Resigned, Announces
    <3>4. CASE Ends(p, s, fanoutQueue) BY <1>3, <3>3, <3>4
    <3>5. CASE p \in members' BY <2>2, <2>5, <3>5
    <3> QED BY <1>5, <3>2, <3>4, <3>5
  <2>6. Recorded(p)' BY <1>3 DEF Recorded, Pt
  <2>7. ViewOK(p)' BY <1>1, <1>3, <2>3, <2>5, <2>6, ViewOf
  <2>8. peer \in [Peer -> PeerState] BY InvIs
  <2> QED BY <1>3, <2>4, <2>7, <2>8, ViewStep
<1> QED BY <1>4, <1>5

LEMMA HeartbeatMemberView ==
  ASSUME RoomInv, ViewInv, NEW p \in Peer, HeartbeatMember(p) PROVE ViewInv'
<1> DEFINE point == "refresh-member"   next == "list"
<1>1. /\ At(p, point) /\ host' = host /\ UNCHANGED viewVars /\ SweepKept
      /\ \/ /\ members' = members \ Forget(p) /\ lapsed' = lapsed \ Forget(p)
            /\ \/ Ends(p, peer[p], fanoutQueue)
               \/ /\ Becomes(p, Done(peer[p])) \/ Becomes(p, Goto(peer[p], next))
                  /\ p \in members' \/ ~peer[p].joined
         \/ Ends(p, peer[p], fanoutQueue) /\ UNCHANGED storeVars
  BY BoundsAre DEF HeartbeatMember, SweepKept
<1>2. point \in {"refresh-member", "get-member"} /\ next \in {"set-updated", "list"} OBVIOUS
<1> HIDE DEF point, next
<1> QED BY <1>1, <1>2, MemberAskedView

LEMMA MemberReadView ==
  ASSUME RoomInv, ViewInv, NEW p \in Peer, MemberRead(p) PROVE ViewInv'
<1> DEFINE point == "get-member"   next == "set-updated"
<1>1. /\ At(p, point) /\ host' = host /\ UNCHANGED viewVars /\ SweepKept
      /\ \/ /\ members' = members \ Forget(p) /\ lapsed' = lapsed \ Forget(p)
            /\ \/ Ends(p, peer[p], fanoutQueue)
               \/ /\ Becomes(p, Done(peer[p])) \/ Becomes(p, Goto(peer[p], next))
                  /\ p \in members' \/ ~peer[p].joined
         \/ Ends(p, peer[p], fanoutQueue) /\ UNCHANGED storeVars
  BY BoundsAre DEF MemberRead, SweepKept
<1>2. point \in {"refresh-member", "get-member"} /\ next \in {"set-updated", "list"} OBVIOUS
<1> HIDE DEF point, next
<1> QED BY <1>1, <1>2, MemberAskedView

\* A new sweep waits behind the one that publishes.
LEMMA SweepAsked ==
  ASSUME RoomInv, NEW p \in Peer, maintenance' = Append(Rearmed(p), NewSweep(p, {}))
  PROVE  SweepKept
<1> DEFINE r == Rearmed(p)   j == NewSweep(p, {})
<1>1. /\ maintenance \in Seq(Sweep) /\ r \in Seq(Sweep) /\ Len(r) = Len(maintenance)
      /\ \A i \in DOMAIN maintenance :
           r[i].at = maintenance[i].at /\ r[i].leaves = maintenance[i].leaves
  BY InvIs, RearmedIs
<1>2. j \in Sweep BY SweepIs
<1> HIDE DEF r, j
<1>3. maintenance # <<>> => Append(r, j) # <<>> /\ Append(r, j)[1] = r[1] /\ 1 \in DOMAIN maintenance
  BY <1>1, <1>2
<1> QED BY <1>1, <1>3 DEF SweepKept, r, j

\* The state in which the message of a peer is dispatched: its heartbeat may be armed.
Alike(s, u) ==
  /\ u.queue = s.queue /\ u.phase = s.phase /\ u.joined = s.joined /\ u.identity = s.identity
  /\ u.connectionId = s.connectionId

LEMMA AlikeCarries ==
  ASSUME NEW s, NEW u, Alike(s, u), SessionOK(s)
  PROVE  /\ SessionOK(u) /\ Pt(u) = Pt(s) /\ (Active(u) <=> Active(s))
         /\ \A t : Carries(u, t) => Carries(s, t)
<1>1. Pt(u) = Pt(s) /\ (\A kind : Has(u, kind) <=> Has(s, kind)) /\ (Active(u) <=> Active(s))
  BY DEF Alike, Pt, Has, Active
<1>2. SessionOK(u) BY <1>1 DEF SessionOK, Alike
<1> QED BY <1>1, <1>2 DEF Carries, Alike

LEMMA DispatchView ==
  ASSUME RoomInv, ViewInv, NEW p \in Peer, NEW u, Alike(peer[p], u), PeerOK(u), u.queue # <<>>,
         u.queue[1].kind \in Requests, Pt(peer[p]) \in {"start"} \cup ServePoints,
         Active(peer[p]), Dispatch(p, u)
  PROVE  /\ peer' = [peer EXCEPT ![p] = peer'[p]]
         /\ Carries(peer[p], peer'[p]) /\ Pt(peer'[p]) \notin JoinPoints
<1> DEFINE points == {"set-joined", "list", "refresh-lease", "get-member"}
<1>1. /\ SessionOK(u) /\ Pt(u) = Pt(peer[p]) /\ Active(u) /\ peer \in [Peer -> PeerState]
      /\ \A t : Carries(u, t) => Carries(peer[p], t)
  BY SessionIs, AlikeCarries, InvIs
<1>2. u \in PeerState /\ Running(u) = u.queue[1] BY HeadIsJob DEF PeerOK
<1>3. points \subseteq ServePoints \ {"publish-join"} /\ points \cap JoinPoints = {}
  BY DEF ServePoints, JoinPoints
<1>4. \/ \E point \in points : Becomes(p, Goto(u, point))
      \/ Ends(p, u, fanoutQueue)
  BY <1>2 DEF Dispatch, Requests
<1> HIDE DEF points
<1>5. ASSUME NEW point \in points, Becomes(p, Goto(u, point))
      PROVE  /\ peer' = [peer EXCEPT ![p] = peer'[p]]
             /\ Carries(peer[p], peer'[p]) /\ Pt(peer'[p]) \notin JoinPoints
  <2> DEFINE t == Goto(u, point)
  <2>1. peer' = [peer EXCEPT ![p] = t] /\ peer'[p] = t BY <1>1, <1>5 DEF Becomes
  <2>2. SameRest(u, t) /\ Pt(t) = point /\ \A kind : Has(t, kind) <=> Has(u, kind)
    BY <1>3, ServeGoto
  <2> HIDE DEF t
  <2>3. Carries(u, t) BY <1>1, <1>3, <2>2, GoesOn
  <2> QED BY <1>1, <1>3, <2>1, <2>2, <2>3
<1>6. CASE Ends(p, u, fanoutQueue)
  <2>1. Pt(u) # "publish-leave" BY <1>1 DEF ServePoints
  <2>2. CanReset(u) /\ Ready(u) BY <1>1, <2>1, PeerCanReset, SessionReady
  <2>3. u.joined = peer[p].joined /\ u.identity = peer[p].identity /\ u.phase = peer[p].phase
    BY DEF Alike
  <2> QED BY <1>6, <2>2, <2>3, QuitCarries
<1> QED BY <1>4, <1>5, <1>6

LEMMA MaintainView ==
  ASSUME RoomInv, ViewInv, NEW p \in Peer, Pt(peer[p]) \in {"start", "refresh"},
         peer[p].queue # <<>>, peer[p].queue[1].kind \in Requests, Active(peer[p]),
         Maintain(p, peer[p]), host' = host, UNCHANGED <<storeVars, viewVars>>
  PROVE  ViewInv'
<1> DEFINE s == peer[p]
           u == [s EXCEPT !.heartbeat = "armed"]
<1>1. PeerOK(s) /\ s \in PeerState /\ peer \in [Peer -> PeerState] /\ SessionOK(s)
  BY InvIs, SessionIs
<1>2. /\ u \in PeerState /\ u.queue = s.queue /\ u.phase = s.phase /\ u.lease = s.lease
      /\ u.fanoutRetained = s.fanoutRetained /\ u.leaveRequested = s.leaveRequested
      /\ Alike(s, u)
  BY <1>1 DEF PeerState, Alike
<1>3. \/ /\ Becomes(p, Goto(u, "maintain"))
         /\ maintenance' = Append(Rearmed(p), NewSweep(p, {}))
      \/ Dispatch(p, u) /\ maintenance' = maintenance
  BY DEF Maintain, NewSweep
<1> HIDE DEF u
<1>4. PeerOK(u)
  <2>1. Pt(u) = Pt(s) /\ (\A kind : Has(u, kind) <=> Has(s, kind)) BY <1>2 DEF Pt, Has
  <2>2. PhaseOK(u) BY <1>1, <1>2, <2>1 DEF PeerOK, PhaseOK
  <2>3. HeldOK(u) BY <1>1, <1>2, <2>1 DEF PeerOK, HeldOK, InMap, Active
  <2> QED BY <1>1, <1>2, <2>2, <2>3 DEF PeerOK
<1>5. /\ Pt(s) \in {"start"} \cup ServePoints /\ "maintain" \in ServePoints \ {"publish-join"}
      /\ "maintain" \notin JoinPoints
  BY DEF ServePoints, JoinPoints
<1>6. /\ SessionOK(u) /\ Pt(u) = Pt(s) /\ Active(u) /\ \A t : Carries(u, t) => Carries(s, t)
  BY <1>1, <1>2, AlikeCarries
<1>7. /\ peer' = [peer EXCEPT ![p] = peer'[p]]
      /\ Carries(s, peer'[p]) /\ Pt(peer'[p]) \notin JoinPoints /\ SweepKept
  <2>1. CASE /\ Becomes(p, Goto(u, "maintain"))
             /\ maintenance' = Append(Rearmed(p), NewSweep(p, {}))
    <3> DEFINE t == Goto(u, "maintain")
    <3>1. peer' = [peer EXCEPT ![p] = t] /\ peer'[p] = t BY <1>1, <2>1 DEF Becomes
    <3>2. SameRest(u, t) /\ Pt(t) = "maintain" /\ \A kind : Has(t, kind) <=> Has(u, kind)
      BY <1>2, <1>4, <1>5, ServeGoto
    <3> HIDE DEF t
    <3>3. Carries(u, t) BY <1>5, <1>6, <3>2, GoesOn
    <3>4. SweepKept BY <2>1, SweepAsked
    <3> QED BY <1>5, <1>6, <3>1, <3>2, <3>3, <3>4
  <2>2. CASE Dispatch(p, u) /\ maintenance' = maintenance
    <3>1. SweepKept BY <2>2 DEF SweepKept
    <3> QED BY <1>2, <1>4, <1>5, <2>2, <3>1, DispatchView
  <2> QED BY <1>3, <2>1, <2>2
<1> QED BY <1>7, PlainStep

LEMMA StartJobView ==
  ASSUME RoomInv, ViewInv, NEW p \in Peer, StartJob(p) PROVE ViewInv'
<1> DEFINE s == peer[p]
<1>1. At(p, "start") BY DEF StartJob
<1>2. /\ PeerOK(s) /\ s \in PeerState /\ QueueOK(s.queue) /\ peer \in [Peer -> PeerState]
      /\ s.queue # <<>> /\ Pt(s) = "start" /\ Running(s) = s.queue[1] /\ SessionOK(s)
  BY <1>1, AtIs, InvIs, SessionIs
<1>3. host' = host /\ UNCHANGED <<storeVars, viewVars>> BY DEF StartJob, bounds
<1>4. \/ Resets(p, s, fanoutQueue) /\ UNCHANGED maintenance
      \/ /\ s.queue[1].kind \in Requests
         /\ \/ Becomes(p, Done(s)) /\ UNCHANGED maintenance
            \/ Live(s) /\ Becomes(p, Goto(s, "refresh")) /\ UNCHANGED maintenance
            \/ Live(s) /\ Maintain(p, s)
  BY <1>2 DEF StartJob
<1>5. s.queue[1].kind \in Requests /\ Live(s) => Active(s)
  <2>1. Has(s, s.queue[1].kind) BY <1>2, HasHead
  <2> QED BY <1>2, <2>1 DEF SessionOK, Live
<1>6. ASSUME UNCHANGED maintenance, peer' = [peer EXCEPT ![p] = peer'[p]],
             Carries(s, peer'[p]), Pt(peer'[p]) \notin JoinPoints
      PROVE  ViewInv'
  <2>1. SweepKept BY <1>6 DEF SweepKept
  <2> QED BY <1>2, <1>3, <1>6, <2>1, PlainStep
<1>7. CASE Resets(p, s, fanoutQueue) /\ UNCHANGED maintenance
  <2> DEFINE point == "start"
  <2>1. At(p, point) /\ point # "publish-leave" BY <1>1
  <2> HIDE DEF point
  <2> QED BY <1>6, <1>7, <2>1, QuitView
<1>8. ASSUME NEW t, Becomes(p, t), UNCHANGED maintenance, SameRest(s, t),
             \A kind : Has(t, kind) => Has(s, kind),
             Pt(t) \in IdlePoints \cup {"refresh"}, Pt(t) = "refresh" => Active(s)
      PROVE  ViewInv'
  <2>1. peer' = [peer EXCEPT ![p] = t] /\ peer'[p] = t BY <1>2, <1>8 DEF Becomes
  <2>2. /\ Pt(t) \in IdlePoints \cup (ServePoints \ {"publish-join"}) /\ Pt(t) \notin JoinPoints
        /\ Pt(t) \in ServePoints => Active(s)
    BY <1>8 DEF IdlePoints, ServePoints, JoinPoints
  <2>3. Carries(s, t) BY <1>2, <1>8, <2>2, GoesOn
  <2> QED BY <1>6, <1>8, <2>1, <2>2, <2>3
<1>9. CASE s.queue[1].kind \in Requests /\ Becomes(p, Done(s)) /\ UNCHANGED maintenance
  <2>1. SameRest(s, Done(s)) /\ Pt(Done(s)) \in IdlePoints /\ \A kind : Has(Done(s), kind) => Has(s, kind)
    BY <1>2, DoneIs
  <2>2. Pt(Done(s)) # "refresh" BY <2>1 DEF IdlePoints
  <2> QED BY <1>8, <1>9, <2>1, <2>2
<1>10. CASE /\ s.queue[1].kind \in Requests /\ Live(s)
            /\ Becomes(p, Goto(s, "refresh")) /\ UNCHANGED maintenance
  <2> DEFINE t == Goto(s, "refresh")
  <2>1. "refresh" \in ServePoints BY DEF ServePoints
  <2>2. SameRest(s, t) /\ Pt(t) = "refresh" /\ \A kind : Has(t, kind) => Has(s, kind)
    BY <1>2, <1>10, <2>1, ServeGoto
  <2> QED BY <1>5, <1>8, <1>10, <2>2
<1>11. CASE s.queue[1].kind \in Requests /\ Live(s) /\ Maintain(p, s)
  BY <1>2, <1>3, <1>5, <1>11, MaintainView
<1> QED BY <1>4, <1>7, <1>9, <1>10, <1>11

LEMMA RefreshedView ==
  ASSUME RoomInv, ViewInv, NEW p \in Peer, Refreshed(p) PROVE ViewInv'
<1> DEFINE s == peer[p]
<1>1. At(p, "refresh") /\ "refresh" \in ServePoints /\ "list" \in ServePoints \ {"publish-join"}
      /\ "list" \notin JoinPoints
  BY DEF Refreshed, ServePoints, JoinPoints
<1>2. /\ PeerOK(s) /\ s.queue # <<>> /\ Pt(s) = "refresh" /\ s.queue[1].kind \in Requests
      /\ SessionOK(s)
  BY <1>1, AtIs, ServingIs, SessionIs
<1>3. host' = host /\ UNCHANGED <<storeVars, viewVars>> BY BoundsAre DEF Refreshed
<1>4. \/ Live(s) /\ Maintain(p, s)
      \/ (Becomes(p, Done(s)) \/ Ends(p, s, fanoutQueue)) /\ UNCHANGED maintenance
  BY DEF Refreshed
<1>5. Active(s) BY <1>1, <1>2 DEF SessionOK
<1>6. CASE Live(s) /\ Maintain(p, s) BY <1>2, <1>3, <1>5, <1>6, MaintainView
<1>7. CASE (Becomes(p, Done(s)) \/ Ends(p, s, fanoutQueue)) /\ UNCHANGED maintenance
  <2>1. /\ peer' = [peer EXCEPT ![p] = peer'[p]] /\ Carries(s, peer'[p])
        /\ Pt(peer'[p]) \notin JoinPoints
    BY <1>1, <1>7, ServedView
  <2>2. SweepKept BY <1>7 DEF SweepKept
  <2> QED BY <1>2, <1>3, <2>1, <2>2, PlainStep
<1> QED BY <1>4, <1>6, <1>7

LEMMA MessageStepView ==
  ASSUME RoomInv, ViewInv, NEW p \in Peer, MessageStep(p) PROVE ViewInv'
BY StartJobView, RefreshedView, MemberSetView, LeaseCheckedView, PublishedView, ListedView,
   LeavesPublishedView, HeartbeatLeaseView, HeartbeatMemberView, MemberReadView
   DEF MessageStep

-----------------------------------------------------------------------------
(* Resets, and who is shown.                                               *)

LEMMA ReleasingView ==
  ASSUME RoomInv, ViewInv, NEW p \in Peer, NEW point \in Resigning, At(p, point)
  PROVE  /\ Leaves(peer[p]) /\ Pt(peer[p]) = point /\ Ready(peer[p])
         /\ peer[p].joined => peer[p].identity
         /\ point \in ResetPoints \ {"publish-leave"} /\ point # "publish-leaves"
         /\ peer \in [Peer -> PeerState] /\ PeerOK(peer[p])
<1>1. point \in ResetPoints \ {"publish-leave"} /\ point # "publish-leaves" /\ point # "recheck"
  BY DEF Resigning, ResetPoints, ReleasePoints
<1>2. Leaves(peer[p]) /\ Pt(peer[p]) = point /\ PeerOK(peer[p]) BY <1>1, ReleasingIs, InvIs
<1>3. SessionOK(peer[p]) /\ peer \in [Peer -> PeerState] BY SessionIs, InvIs
<1>4. Ready(peer[p]) BY <1>1, <1>2, <1>3, SessionReady
<1>5. peer[p].joined => peer[p].identity BY <1>1, <1>2, <1>3 DEF SessionOK
<1> QED BY <1>1, <1>2, <1>3, <1>4, <1>5

\* A step of a reset that touches neither the store nor the viewers.
LEMMA ResigningStep ==
  ASSUME RoomInv, ViewInv, NEW p \in Peer, NEW point \in Resigning, At(p, point),
         NEW t, Resigned(peer[p], t), Becomes(p, t), host' = host,
         UNCHANGED <<maintenance, storeVars, viewVars>>
  PROVE  ViewInv'
<1>1. /\ Leaves(peer[p]) /\ Pt(peer[p]) = point /\ point \in ResetPoints \ {"publish-leave"}
      /\ point # "publish-leaves" /\ peer \in [Peer -> PeerState]
  BY ReleasingView
<1>2. peer' = [peer EXCEPT ![p] = peer'[p]] /\ peer'[p] = t BY <1>1 DEF Becomes
<1>3. Carries(peer[p], t) BY <1>1, ResignedCarries DEF Leaves
<1>4. Pt(t) \notin JoinPoints
  BY DEF Resigned, JoinPoints, IdlePoints, ResetPoints, ReleasePoints
<1>5. SweepKept BY DEF SweepKept
<1> QED BY <1>1, <1>2, <1>3, <1>4, <1>5, PlainStep

LEMMA FanoutReleasedView ==
  ASSUME RoomInv, ViewInv, NEW p \in Peer, FanoutReleased(p) PROVE ViewInv'
<1> DEFINE point == "release-lock"   unsubscribe == "unsubscribe"
<1>1. /\ At(p, point) /\ host' = host /\ UNCHANGED <<maintenance, storeVars, viewVars>>
      /\ Becomes(p, Goto(peer[p], unsubscribe)) \/ Becomes(p, ReleaseLease(peer[p]))
  BY DEF FanoutReleased, bounds
<1>2. point \in Resigning /\ unsubscribe \in Resigning /\ unsubscribe # "member-remove"
  BY DEF Resigning, ReleasePoints
<1> HIDE DEF point, unsubscribe
<1>3. Leaves(peer[p]) /\ Ready(peer[p]) /\ (peer[p].joined => peer[p].identity)
  BY <1>1, <1>2, ReleasingView
<1>4. Resigned(peer[p], Goto(peer[p], unsubscribe)) BY <1>2, <1>3, ResigningOf
<1>5. Resigned(peer[p], ReleaseLease(peer[p])) BY <1>3, ReleaseLeaseOf DEF Leaves
<1> QED BY <1>1, <1>2, <1>4, <1>5, ResigningStep

LEMMA UnsubscribedView ==
  ASSUME RoomInv, ViewInv, NEW p \in Peer, Unsubscribed(p) PROVE ViewInv'
<1> DEFINE point == "unsubscribe"
<1>1. /\ At(p, point) /\ host' = host /\ UNCHANGED <<maintenance, storeVars, viewVars>>
      /\ Becomes(p, ReleaseLease(peer[p]))
  BY BoundsAre DEF Unsubscribed
<1>2. point \in Resigning BY DEF Resigning, ReleasePoints
<1> HIDE DEF point
<1>3. Leaves(peer[p]) /\ Ready(peer[p]) BY <1>1, <1>2, ReleasingView
<1>4. Resigned(peer[p], ReleaseLease(peer[p])) BY <1>3, ReleaseLeaseOf DEF Leaves
<1> QED BY <1>1, <1>2, <1>4, ResigningStep

LEMMA LeaseReleasedView ==
  ASSUME RoomInv, ViewInv, NEW p \in Peer, LeaseReleased(p) PROVE ViewInv'
<1> DEFINE point == "lease-release"
<1>1. /\ At(p, point) /\ host' = host /\ UNCHANGED <<maintenance, storeVars, viewVars>>
      /\ Becomes(p, RemoveMember(peer[p]))
  BY DEF LeaseReleased, bounds
<1>2. point \in Resigning BY DEF Resigning, ReleasePoints
<1>3. ~peer[p].lease BY <1>1, <1>2, ReleasingView DEF PeerOK, HeldOK
<1> HIDE DEF point
<1>4. Leaves(peer[p]) /\ Ready(peer[p]) BY <1>1, <1>2, ReleasingView
<1>5. Resigned(peer[p], RemoveMember(peer[p])) BY <1>3, <1>4, RemoveMemberOf
<1> QED BY <1>1, <1>2, <1>5, ResigningStep

LEMMA MemberRemovedView ==
  ASSUME RoomInv, ViewInv, NEW p \in Peer, MemberRemoved(p) PROVE ViewInv'
<1> DEFINE s == peer[p]   t == peer'[p]   point == "member-remove"
<1>1. /\ At(p, point) /\ host' = host /\ UNCHANGED <<maintenance, viewVars>>
      /\ \E removed : /\ Becomes(p, AfterRemoval(s, removed))
                      /\ \/ UNCHANGED storeVars
                         \/ members' = members \ {p} /\ lapsed' = lapsed \ {p}
  BY BoundsAre DEF MemberRemoved
<1>2. point \in Resigning BY DEF Resigning
<1>3. ~s.lease BY <1>1, <1>2, ReleasingView DEF PeerOK, HeldOK
<1>4. /\ Leaves(s) /\ Ready(s) /\ (s.joined => s.identity) /\ Pt(s) = "member-remove"
      /\ peer \in [Peer -> PeerState]
  BY <1>1, <1>2, ReleasingView
<1>5. PICK removed : /\ Becomes(p, AfterRemoval(s, removed))
                     /\ \/ UNCHANGED storeVars
                        \/ members' = members \ {p} /\ lapsed' = lapsed \ {p}
  BY <1>1
<1> DEFINE u == AfterRemoval(s, removed)
<1>6. Resigned(s, u) BY <1>3, <1>4, AfterRemovalOf
<1>7. peer' = [peer EXCEPT ![p] = t] /\ t = u BY <1>4, <1>5 DEF Becomes
<1> HIDE DEF u
<1>8. CASE UNCHANGED storeVars
  <2>1. Becomes(p, u) BY <1>5 DEF u
  <2> HIDE DEF point
  <2> QED BY <1>1, <1>2, <1>6, <1>8, <2>1, ResigningStep
<1>9. CASE members' = members \ {p} /\ lapsed' = lapsed \ {p}
  <2>1. SweepKept BY <1>1 DEF SweepKept
  <2>2. Carries(s, t) BY <1>4, <1>6, <1>7, ResignedCarries DEF Leaves
  <2>3. \A c : Known(c) /\ (c \in members => c \in members') => Known(c)'
    BY <1>1, <1>4, <1>7, <2>1, KnownKept
  <2>4. shown' = shown /\ lost' = lost BY <1>1 DEF viewVars
  <2>5. \A c \in Peer : c # p => Kept(c) BY <1>9, <2>3, <2>4 DEF Kept
  <2>6. p \in shown \ lost => Announces(t)
    <3>1. ViewOK(p) BY SessionIs
    <3>2. s.phase # "left" BY <1>4, <3>1 DEF ViewOK, SessionOK
    <3>3. p \in shown \ lost => s.joined /\ s.identity
      BY <1>4, <3>1, <3>2 DEF ViewOK, Covered, WasJoined
    <3> QED BY <1>6, <1>7, <3>3 DEF Resigned, Announces
  <2>7. Recorded(p)'
    <3>1. Pt(t) \notin JoinPoints
      BY <1>6, <1>7 DEF Resigned, JoinPoints, IdlePoints, ResetPoints, ReleasePoints
    <3> QED BY <3>1 DEF Recorded, Pt
  <2>8. ViewOK(p)' BY <1>1, <1>4, <2>2, <2>4, <2>6, <2>7, ViewOf
  <2> QED BY <1>1, <1>4, <1>7, <2>5, <2>8, ViewStep
<1> QED BY <1>5, <1>8, <1>9

LEMMA LeavePublishedView ==
  ASSUME RoomInv, ViewInv, NEW p \in Peer, LeavePublished(p) PROVE ViewInv'
<1> DEFINE s == peer[p]   t == FinishReset(s)
<1>1. /\ At(p, "publish-leave") /\ "publish-leave" \in ResetPoints /\ host' = host
      /\ UNCHANGED <<maintenance, storeVars>> /\ Becomes(p, t)
      /\ \/ shown' = shown \ {p} /\ lost' = lost
         \/ lost' = lost \cup {p} /\ shown' = shown
  BY BoundsAre DEF LeavePublished, ResetPoints
<1>2. Leaves(s) /\ Pt(s) = "publish-leave" /\ SessionOK(s) /\ peer \in [Peer -> PeerState]
  BY <1>1, ReleasingIs, SessionIs, InvIs
<1>3. ~s.joined BY <1>2 DEF SessionOK
<1>4. SessionOK(t) /\ Pt(t) \in IdlePoints /\ t.phase = "left" BY <1>2, <1>3, FinishResetOf
<1>5. peer' = [peer EXCEPT ![p] = t] /\ peer'[p] = t BY <1>1, <1>2 DEF Becomes
<1> HIDE DEF t
<1>6. peer' = [peer EXCEPT ![p] = peer'[p]] /\ SweepKept BY <1>1, <1>5 DEF SweepKept
<1>7. \A c : Known(c) => Known(c)' BY <1>1, <1>2, <1>6, KnownKept DEF storeVars
<1>8. \A c \in Peer : c # p => Kept(c) BY <1>1, <1>7 DEF Kept, storeVars
<1>9. ViewOK(p)'
  <2>1. SessionOK(peer[p])' BY <1>4, <1>5 DEF SessionOK, Pt, Has, Active
  <2>2. Recorded(p)' BY <1>4, <1>5 DEF Recorded, Pt, IdlePoints, JoinPoints
  <2>3. p \notin shown' \ lost' BY <1>1
  <2> QED BY <1>4, <1>5, <2>1, <2>2, <2>3 DEF ViewOK
<1> QED BY <1>1, <1>2, <1>6, <1>8, <1>9, ViewStep

LEMMA ResetStepView ==
  ASSUME RoomInv, ViewInv, NEW p \in Peer, ResetStep(p) PROVE ViewInv'
BY FanoutReleasedView, UnsubscribedView, LeaseReleasedView, MemberRemovedView, LeavePublishedView
   DEF ResetStep

-----------------------------------------------------------------------------
(* Setups, and who is shown.                                               *)

LEMMA SettingUpView ==
  ASSUME RoomInv, ViewInv, NEW p \in Peer, NEW point \in SetupPoints, At(p, point)
  PROVE  /\ PeerOK(peer[p]) /\ peer[p] \in PeerState /\ peer[p].queue # <<>>
         /\ Pt(peer[p]) = point /\ SessionOK(peer[p]) /\ Ready(peer[p]) /\ CanReset(peer[p])
         /\ peer[p].phase = "authenticating" /\ peer[p].queue[1].kind \notin Removals
         /\ \A kind \in Requests : ~Has(peer[p], kind)
         /\ point # "recheck" => (peer[p].joined => peer[p].identity)
         /\ peer \in [Peer -> PeerState]
<1>1. /\ PeerOK(peer[p]) /\ peer[p] \in PeerState /\ peer[p].queue # <<>> /\ Pt(peer[p]) = point
      /\ peer[p].phase = "authenticating" /\ peer[p].queue[1].kind \notin Removals
      /\ SessionOK(peer[p]) /\ peer \in [Peer -> PeerState]
  BY SettingUpIs, InvIs, SessionIs
<1>2. point # "publish-leave" BY DEF SetupPoints
<1>3. Ready(peer[p]) /\ CanReset(peer[p]) BY <1>1, <1>2, SessionReady, PeerCanReset
<1>4. \A kind \in Requests : ~Has(peer[p], kind) BY <1>1 DEF SessionOK, Active
<1> QED BY <1>1, <1>3, <1>4 DEF SessionOK

\* A setup touches neither the store nor the viewers.
LEMMA SettingUpStep ==
  ASSUME RoomInv, ViewInv, NEW p \in Peer, NEW point \in SetupPoints, At(p, point),
         peer' = [peer EXCEPT ![p] = peer'[p]], Carries(peer[p], peer'[p]),
         Pt(peer'[p]) \notin JoinPoints, Succeeds \/ Fails,
         UNCHANGED <<maintenance, storeVars, viewVars>>
  PROVE  ViewInv'
<1>1. Pt(peer[p]) \notin {"publish-leave", "publish-leaves"} BY AtIs DEF SetupPoints
<1>2. SweepKept BY DEF SweepKept
<1>3. host' = host BY BoundsAre
<1> QED BY <1>1, <1>2, <1>3, PlainStep

\* A setup that ends, with what it has got in the meantime.
LEMMA SetupQuitView ==
  ASSUME RoomInv, ViewInv, NEW p \in Peer, NEW point \in SetupPoints, At(p, point),
         NEW u \in PeerState, u.queue = peer[p].queue, u.phase = "authenticating",
         u.joined = peer[p].joined, u.identity = peer[p].identity,
         u = peer[p] \/ point # "recheck", NEW lock,
         Resets(p, u, lock) \/ Ends(p, u, lock)
  PROVE  /\ peer' = [peer EXCEPT ![p] = peer'[p]] /\ Carries(peer[p], peer'[p])
         /\ Pt(peer'[p]) \notin JoinPoints
<1>1. /\ PeerOK(peer[p]) /\ peer[p].queue # <<>> /\ peer[p].phase = "authenticating"
      /\ Ready(peer[p]) /\ CanReset(peer[p])
      /\ \A kind \in Requests : ~Has(peer[p], kind)
      /\ point # "recheck" => (peer[p].joined => peer[p].identity)
  BY SettingUpView
<1>2. CanReset(u) BY <1>1 DEF CanReset, PeerOK
<1>3. \A kind \in Requests : ~Has(u, kind) BY <1>1 DEF Has
<1>4. Ready(u)
  <2>1. CASE u = peer[p] BY <1>1, <2>1
  <2>2. CASE point # "recheck" BY <1>1, <1>3, <2>2 DEF Ready, Active
  <2> QED BY <2>1, <2>2
<1> QED BY <1>1, <1>2, <1>4, QuitCarries

\* A setup that goes on to another await.
LEMMA SetupMoves ==
  ASSUME RoomInv, ViewInv, NEW p \in Peer, NEW point \in SetupPoints, At(p, point),
         NEW u \in PeerState, u.queue = peer[p].queue, u.phase = peer[p].phase,
         u.fanoutRetained = peer[p].fanoutRetained, u.leaveRequested = peer[p].leaveRequested,
         u.joined = peer[p].joined, u.joined => u.identity,
         NEW next \in SetupPoints \ {"authorize", "recheck"}, Becomes(p, Goto(u, next))
  PROVE  /\ peer' = [peer EXCEPT ![p] = peer'[p]] /\ Carries(peer[p], peer'[p])
         /\ Pt(peer'[p]) \notin JoinPoints
<1> DEFINE s == peer[p]   t == Goto(u, next)
<1>1. /\ PeerOK(s) /\ s.queue # <<>> /\ Pt(s) = point /\ SessionOK(s)
      /\ s.phase = "authenticating" /\ s.queue[1].kind \notin Removals
      /\ \A kind \in Requests : ~Has(s, kind)
      /\ peer \in [Peer -> PeerState]
  BY SettingUpView
<1>2. next \in Points BY DEF SetupPoints, Points
<1>3. SameRest(u, t) /\ Pt(t) = next /\ \A kind : Has(t, kind) <=> Has(u, kind)
  BY <1>1, <1>2, GotoIs DEF PeerOK
<1>4. peer' = [peer EXCEPT ![p] = t] /\ peer'[p] = t BY <1>1 DEF Becomes
<1> HIDE DEF t
<1>5. \A kind \in Requests : ~Has(t, kind) BY <1>1, <1>3 DEF Has
<1>6. /\ next \notin {"publish-leave", "publish-join", "member-remove", "recheck", "authorize"}
      /\ next \notin ServePoints /\ next \notin JoinPoints /\ point \notin Resigning
  BY DEF SetupPoints, ServePoints, JoinPoints, Resigning, ReleasePoints
<1>7. t.phase = "authenticating" /\ t.joined = s.joined /\ (t.joined => t.identity)
  BY <1>1, <1>3 DEF SameRest
<1>8. SessionOK(t) BY <1>3, <1>5, <1>6, <1>7 DEF SessionOK, Active
<1>9. Carries(s, t) BY <1>1, <1>6, <1>7, <1>8 DEF Carries, WasJoined
<1> QED BY <1>3, <1>4, <1>6, <1>9

\* The session starts, if it was not told to leave.
LEMMA StartsView ==
  ASSUME RoomInv, ViewInv, NEW p \in Peer, NEW point \in SetupPoints, point # "recheck",
         At(p, point), NEW lock, Starts(p, [peer[p] EXCEPT !.fanoutRetained = TRUE], lock)
  PROVE  /\ peer' = [peer EXCEPT ![p] = peer'[p]] /\ Carries(peer[p], peer'[p])
         /\ Pt(peer'[p]) \notin JoinPoints
<1> DEFINE s == peer[p]
           u == [s EXCEPT !.fanoutRetained = TRUE]
           v == [u EXCEPT !.phase = IF u.joined THEN "joined" ELSE "authenticated",
                          !.identity = TRUE]
           t == Done(v)
<1>1. /\ PeerOK(s) /\ s \in PeerState /\ s.queue # <<>> /\ Pt(s) = point
      /\ s.phase = "authenticating" /\ (s.joined => s.identity)
      /\ \A kind \in Requests : ~Has(s, kind)
      /\ peer \in [Peer -> PeerState]
  BY SettingUpView
<1>2. /\ u \in PeerState /\ u.queue = s.queue /\ u.phase = s.phase
      /\ u.joined = s.joined /\ u.identity = s.identity
  BY <1>1 DEF PeerState
<1>3. Resets(p, u, lock) \/ Becomes(p, t) BY DEF Starts
<1> HIDE DEF u
<1>4. CASE Resets(p, u, lock) BY <1>1, <1>2, <1>4, SetupQuitView
<1>5. CASE Becomes(p, t)
  <2>1. /\ v \in PeerState /\ v.queue = s.queue /\ v.phase \in {"joined", "authenticated"}
        /\ v.joined = s.joined /\ v.identity
    BY <1>2 DEF PeerState, Phases
  <2> HIDE DEF v
  <2>2. SameRest(v, t) /\ Pt(t) \in IdlePoints BY <1>1, <2>1, DoneIs DEF PeerOK
  <2>3. peer' = [peer EXCEPT ![p] = t] /\ peer'[p] = t BY <1>1, <1>5 DEF Becomes
  <2> HIDE DEF t
  <2>4. t.identity /\ t.joined = s.joined /\ t.phase \in {"joined", "authenticated"}
    BY <2>1, <2>2 DEF SameRest
  <2>5. Pt(t) \notin ServePoints \cup JoinPoints \cup {"recheck", "authorize", "publish-leave",
          "publish-join", "member-remove"}
    BY <2>2 DEF IdlePoints, ServePoints, JoinPoints
  <2>6. SessionOK(t) BY <2>4, <2>5 DEF SessionOK, Active
  <2>7. Pt(s) \notin Resigning BY <1>1 DEF SetupPoints, Resigning, ReleasePoints
  <2>8. Carries(s, t) BY <1>1, <2>4, <2>6, <2>7 DEF Carries, WasJoined
  <2> QED BY <2>3, <2>5, <2>8
<1> QED BY <1>3, <1>4, <1>5

LEMMA AuthorizedView ==
  ASSUME RoomInv, ViewInv, NEW p \in Peer, Authorized(p) PROVE ViewInv'
<1> DEFINE s == peer[p]   next == "acquire"
           u == [s EXCEPT !.connectionId = TRUE, !.identity = At(p, "recheck")]
<1>1. PICK point \in {"authorize", "recheck"} : At(p, point) BY DEF Authorized
<1>2. point \in SetupPoints /\ next \in SetupPoints \ {"authorize", "recheck"} BY DEF SetupPoints
<1>3. /\ Succeeds \/ Fails
      /\ UNCHANGED <<maintenance, storeVars, viewVars>>
      /\ \/ Resets(p, s, fanoutQueue) \/ Ends(p, s, fanoutQueue)
         \/ Becomes(p, Goto(u, next))
  BY DEF Authorized
<1>4. s \in PeerState /\ s.phase = "authenticating" /\ SessionOK(s) /\ Pt(s) = point
  BY <1>1, <1>2, SettingUpView
<1> HIDE DEF next
<1>5. /\ peer' = [peer EXCEPT ![p] = peer'[p]] /\ Carries(peer[p], peer'[p])
      /\ Pt(peer'[p]) \notin JoinPoints
  <2>1. CASE Resets(p, s, fanoutQueue) \/ Ends(p, s, fanoutQueue)
    BY <1>1, <1>2, <1>4, <2>1, SetupQuitView
  <2>2. CASE Becomes(p, Goto(u, next))
    <3>1. At(p, "recheck") \in BOOLEAN BY DEF At
    <3>2. /\ u \in PeerState /\ u.queue = s.queue /\ u.phase = s.phase
          /\ u.fanoutRetained = s.fanoutRetained /\ u.leaveRequested = s.leaveRequested
          /\ u.joined = s.joined /\ u.identity = At(p, "recheck")
      BY <1>4, <3>1 DEF PeerState
    <3>3. u.joined => u.identity
      <4>1. CASE point = "recheck" BY <1>1, <3>2, <4>1
      <4>2. CASE point = "authorize" BY <1>4, <3>2, <4>2 DEF SessionOK
      <4> QED BY <4>1, <4>2
    <3> HIDE DEF u
    <3> QED BY <1>1, <1>2, <2>2, <3>2, <3>3, SetupMoves
  <2> QED BY <1>3, <2>1, <2>2
<1> QED BY <1>1, <1>2, <1>3, <1>5, SettingUpStep

LEMMA AcquiredView ==
  ASSUME RoomInv, ViewInv, NEW p \in Peer, Acquired(p) PROVE ViewInv'
<1> DEFINE s == peer[p]   point == "acquire"   next == "fanout-lock"
           u == [s EXCEPT !.lease = TRUE]
<1>1. /\ At(p, point) /\ point \in SetupPoints /\ point # "recheck"
      /\ next \in SetupPoints \ {"authorize", "recheck"}
  BY DEF Acquired, SetupPoints
<1>2. /\ Succeeds \/ Fails
      /\ UNCHANGED <<maintenance, storeVars, viewVars>>
      /\ \/ Ends(p, s, fanoutQueue) \/ Resets(p, u, fanoutQueue)
         \/ Becomes(p, Goto(u, next))
  BY DEF Acquired
<1> HIDE DEF point, next
<1>3. s \in PeerState /\ s.phase = "authenticating" /\ (s.joined => s.identity)
  BY <1>1, SettingUpView
<1>4. /\ u \in PeerState /\ u.queue = s.queue /\ u.phase = s.phase
      /\ u.fanoutRetained = s.fanoutRetained /\ u.leaveRequested = s.leaveRequested
      /\ u.joined = s.joined /\ u.identity = s.identity
  BY <1>3 DEF PeerState
<1> HIDE DEF u
<1>5. /\ peer' = [peer EXCEPT ![p] = peer'[p]] /\ Carries(peer[p], peer'[p])
      /\ Pt(peer'[p]) \notin JoinPoints
  <2>1. CASE Ends(p, s, fanoutQueue) BY <1>1, <1>3, <2>1, SetupQuitView
  <2>2. CASE Resets(p, u, fanoutQueue) BY <1>1, <1>3, <1>4, <2>2, SetupQuitView
  <2>3. CASE Becomes(p, Goto(u, next)) BY <1>1, <1>3, <1>4, <2>3, SetupMoves
  <2> QED BY <1>2, <2>1, <2>2, <2>3
<1> QED BY <1>1, <1>2, <1>5, SettingUpStep

\* retainFanout, from one await to the next.
LEMMA RetainingView ==
  ASSUME RoomInv, ViewInv, NEW p \in Peer, NEW point \in SetupPoints, point # "recheck",
         At(p, point), Succeeds \/ Fails, UNCHANGED <<maintenance, storeVars, viewVars>>,
         NEW lock,
         \/ Ends(p, peer[p], lock)
         \/ Starts(p, [peer[p] EXCEPT !.fanoutRetained = TRUE], lock)
         \/ \E next \in {"drop-stale", "subscribe"} : Becomes(p, Goto(peer[p], next))
  PROVE  ViewInv'
<1> DEFINE s == peer[p]
<1>1. s \in PeerState /\ s.phase = "authenticating" /\ (s.joined => s.identity) BY SettingUpView
<1>2. {"drop-stale", "subscribe"} \subseteq SetupPoints \ {"authorize", "recheck"} BY DEF SetupPoints
<1>3. /\ peer' = [peer EXCEPT ![p] = peer'[p]] /\ Carries(peer[p], peer'[p])
      /\ Pt(peer'[p]) \notin JoinPoints
  <2>1. CASE Ends(p, s, lock) BY <1>1, <2>1, SetupQuitView
  <2>2. CASE Starts(p, [s EXCEPT !.fanoutRetained = TRUE], lock) BY <2>2, StartsView
  <2>3. ASSUME NEW next \in {"drop-stale", "subscribe"}, Becomes(p, Goto(s, next))
        PROVE  /\ peer' = [peer EXCEPT ![p] = peer'[p]] /\ Carries(peer[p], peer'[p])
               /\ Pt(peer'[p]) \notin JoinPoints
    BY <1>1, <1>2, <2>3, SetupMoves
  <2> QED BY <2>1, <2>2, <2>3
<1> QED BY <1>3, SettingUpStep

LEMMA SetupStepView ==
  ASSUME RoomInv, ViewInv, NEW p \in Peer, SetupStep(p) PROVE ViewInv'
<1>1. ASSUME Retains(p) \/ StaleDropped(p) \/ Subscribed(p) PROVE ViewInv'
  <2>1. PICK point \in {"fanout-lock", "drop-stale", "subscribe"} : At(p, point)
    BY <1>1 DEF Retains, StaleDropped, Subscribed
  <2>2. point \in SetupPoints /\ point # "recheck" BY DEF SetupPoints
  <2>3. Succeeds \/ Fails BY <1>1 DEF Retains, StaleDropped, Subscribed, Succeeds
  <2>4. UNCHANGED <<maintenance, storeVars, viewVars>>
    BY <1>1 DEF Retains, StaleDropped, Subscribed
  <2> DEFINE lock == Tail(fanoutQueue)
  <2>5. \/ Ends(p, peer[p], lock)
        \/ Starts(p, [peer[p] EXCEPT !.fanoutRetained = TRUE], lock)
        \/ \E next \in {"drop-stale", "subscribe"} : Becomes(p, Goto(peer[p], next))
    BY <1>1 DEF Retains, StaleDropped, Subscribed
  <2> HIDE DEF lock
  <2> QED BY <2>1, <2>2, <2>3, <2>4, <2>5, RetainingView
<1> QED BY <1>1, AuthorizedView, AcquiredView DEF SetupStep

-----------------------------------------------------------------------------
(* Calls that queue jobs, and who is shown.                                *)

\* A step in which no peer goes on to another await.  Eviction ends no Leave: what
\* was shown on a host that hibernates is in the store, or its Leave is due.
Quieter(s, t) ==
  /\ SessionOK(t)
  /\ t.phase = "asleep" => s.phase = "asleep" \/ OnMessage
  /\ s.joined \/ s.phase = "left" => t.joined \/ t.phase = "left"
  /\ s.joined /\ s.identity => (t.joined /\ t.identity) \/ (OnMessage /\ Pt(s) = "none")
  /\ s.queue # <<>> => t.queue # <<>> /\ t.queue[1] = s.queue[1]
  /\ s.queue = <<>> => Pt(t) \in {"none", "start", "authorize", "recheck"}

LEMMA QuieterSelf ==
  ASSUME NEW s, SessionOK(s), NEW u, Alike(s, u) PROVE Quieter(s, u)
<1>1. SessionOK(u) BY AlikeCarries
<1> QED BY <1>1 DEF Quieter, Alike, Pt

LEMMA QuieterAlike ==
  ASSUME NEW s, NEW t, Quieter(s, t), NEW u, Alike(t, u) PROVE Quieter(s, u)
<1>1. SessionOK(u) BY AlikeCarries DEF Quieter
<1> QED BY <1>1 DEF Quieter, Alike, Pt

\* The head of a queue stays when a job is queued.
LEMMA EnqueueHead ==
  ASSUME NEW s \in PeerState, s.queue # <<>>, NEW kind, NEW point
  PROVE  Enqueue(s, kind, point).queue # <<>> /\ Enqueue(s, kind, point).queue[1] = s.queue[1]
<1> DEFINE j == [kind |-> kind, at |-> point, leaves |-> {}]
           r == Append(s.queue, j)
<1>1. s.queue \in Seq(Job) BY DEF PeerState
<1>2. Len(s.queue) \in Nat /\ Len(s.queue) >= 1 /\ DOMAIN s.queue = 1 .. Len(s.queue) BY <1>1
<1>3. r = [i \in 1 .. (Len(s.queue) + 1) |-> IF i = Len(s.queue) + 1 THEN j ELSE s.queue[i]]
  BY <1>1
<1> HIDE DEF j
<1>4. r[1] = s.queue[1] /\ 1 \in DOMAIN r BY <1>2, <1>3
<1> HIDE DEF r
<1>5. r # <<>> BY <1>4
<1>6. Enqueue(s, kind, point).queue = r BY DEF Enqueue, PeerState, r, j
<1> QED BY <1>4, <1>5, <1>6

LEMMA QueueView ==
  ASSUME NEW s, PeerOK(s), SessionOK(s), NEW u \in PeerState, Alike(s, u),
         NEW kind \in Requests \cup Removals, kind \in Requests => Active(s)
  PROVE  Quieter(s, Enqueue(u, kind, "start"))
<1> DEFINE t == Enqueue(u, kind, "start")
<1>1. s \in PeerState /\ QueueOK(u.queue) /\ u.queue = s.queue BY DEF PeerOK, Alike
<1>2. SessionOK(u) /\ Pt(u) = Pt(s) /\ (Active(u) <=> Active(s)) BY AlikeCarries
<1>3. /\ SameRest(u, t) /\ Pt(t) = IF u.queue = <<>> THEN "start" ELSE Pt(u)
      /\ \A other : Has(t, other) <=> Has(u, other) \/ other = kind
  BY <1>1, EnqueueIs
<1>4. s.queue # <<>> => t.queue # <<>> /\ t.queue[1] = s.queue[1] BY <1>1, EnqueueHead
<1>5. u.queue = <<>> => Pt(u) = "none" BY DEF Pt
<1> HIDE DEF t
<1>6. Active(t) <=> Active(u) BY <1>3 DEF Active, SameRest
<1>7. \A other \in Requests : Has(t, other) => Active(t) \/ t.phase = "left"
  BY <1>2, <1>3, <1>6 DEF SessionOK, SameRest
<1>8. Pt(t) \in {"start", Pt(u)} /\ (Pt(t) # Pt(u) => Pt(u) = "none") BY <1>3, <1>5
<1>9. SessionOK(t)
  <2>1. "start" \notin ServePoints BY DEF ServePoints
  <2> QED BY <1>2, <1>3, <1>6, <1>7, <1>8, <2>1 DEF SessionOK, SameRest
<1> QED BY <1>1, <1>3, <1>4, <1>9 DEF Quieter, SameRest, Alike, t

LEMMA ExpelView ==
  ASSUME NEW s, PeerOK(s), SessionOK(s), NEW kind \in Removals PROVE Quieter(s, Expel(s, kind))
<1> DEFINE u == [s EXCEPT !.leaveRequested = TRUE, !.open = FALSE]
<1>1. u \in PeerState /\ Alike(s, u) BY DEF PeerOK, PeerState, Alike
<1>2. Expel(s, kind) = Enqueue(u, kind, "start") BY DEF Expel
<1>3. kind \notin Requests BY DEF Requests, Removals
<1> HIDE DEF u
<1> QED BY <1>1, <1>2, <1>3, QueueView

\* Every peer may take such a step at once.
LEMMA QuietViews ==
  ASSUME RoomInv, ViewInv, host' = host, UNCHANGED <<storeVars, viewVars>>, SweepKept,
         \A q \in Peer : Quieter(peer[q], peer'[q])
  PROVE  ViewInv'
<1>1. OnMessage' <=> OnMessage BY DEF OnMessage, RefreshMode
<1>2. /\ shown' = shown /\ lost' = lost /\ members' = members /\ lapsed' = lapsed
  BY DEF storeVars, viewVars
<1>3. \A c : Due(c) => Due(c)'
  <2> TAKE c
  <2>1. ASSUME NEW q \in Peer, Pt(peer[q]) = "publish-leaves", c \in peer[q].queue[1].leaves
        PROVE  Due(c)'
    <3>1. peer[q].queue # <<>> BY <2>1 DEF Pt
    <3>2. peer'[q].queue # <<>> /\ peer'[q].queue[1] = peer[q].queue[1] BY <3>1 DEF Quieter
    <3> QED BY <2>1, <3>1, <3>2 DEF Due, Pt
  <2>2. ASSUME maintenance # <<>>, maintenance[1].at = "publish", c \in maintenance[1].leaves
        PROVE  Due(c)'
    BY <2>2 DEF Due, SweepKept
  <2> QED BY <2>1, <2>2 DEF Due
<1>4. \A c : Known(c) => Known(c)' BY <1>1, <1>2, <1>3 DEF Known
<1> SUFFICES ASSUME NEW c \in Peer PROVE ViewOK(c)' BY DEF ViewInv
<1> DEFINE s == peer[c]   t == peer'[c]
<1>5. ViewOK(c) /\ Quieter(s, t) BY DEF ViewInv
<1>6. /\ Pt(s) # "none" => Pt(t) = Pt(s)
      /\ Pt(s) = "none" => Pt(t) \in {"none", "start", "authorize", "recheck"}
  <2>1. s \in PeerState BY InvIs
  <2>2. Pt(s) = "none" <=> s.queue = <<>> BY <2>1, HasHead
  <2>3. s.queue # <<>> => Pt(t) = Pt(s) BY <1>5 DEF Quieter, Pt
  <2> QED BY <1>5, <2>2, <2>3 DEF Quieter
<1>7. SessionOK(peer[c])' BY <1>5 DEF Quieter, SessionOK, Pt, Has, Active
<1>8. Recorded(c)'
  <2>1. Pt(t) \in JoinPoints => Pt(s) \in JoinPoints BY <1>6 DEF JoinPoints
  <2> QED BY <1>2, <1>5, <2>1 DEF ViewOK, Recorded, Pt
<1>9. (~OnMessage => peer[c].phase # "asleep")' BY <1>1, <1>5 DEF ViewOK, Quieter
<1>10. ASSUME c \in shown \ lost PROVE Covered(c)'
  <2>1. Covered(c) BY <1>5, <1>10 DEF ViewOK
  <2>2. WasJoined(t) BY <1>5, <1>6, <2>1 DEF Covered, WasJoined, Quieter
  <2>3. "none" \notin Resigning BY DEF Resigning, ReleasePoints
  <2>4. Announces(s) => Announces(t) BY <1>5, <1>6, <2>3 DEF Announces, Quieter
  <2>5. WasJoined(peer[c])' /\ (Announces(t) => Announces(peer[c])')
    BY <1>1, <2>2 DEF WasJoined, Announces, Pt
  <2> QED BY <1>4, <2>1, <2>4, <2>5 DEF Covered
<1> QED BY <1>2, <1>7, <1>8, <1>9, <1>10 DEF ViewOK

\* One peer takes one.
LEMMA QuieterView ==
  ASSUME RoomInv, ViewInv, host' = host, UNCHANGED <<storeVars, viewVars>>, SweepKept,
         NEW p \in Peer, NEW t, Becomes(p, t), Quieter(peer[p], t)
  PROVE  ViewInv'
<1>1. peer \in [Peer -> PeerState] BY InvIs
<1>2. \A q \in Peer : peer'[q] = IF q = p THEN t ELSE peer[q] BY <1>1 DEF Becomes
<1>3. \A q \in Peer : Quieter(peer[q], peer[q]) BY SessionIs, QuieterSelf DEF Alike
<1>4. \A q \in Peer : Quieter(peer[q], peer'[q]) BY <1>2, <1>3
<1> QED BY <1>4, QuietViews

LEMMA JoinView ==
  ASSUME RoomInv, ViewInv, NEW p \in Peer, Join(p) PROVE ViewInv'
<1> DEFINE s == peer[p]
           t == [s EXCEPT !.phase = IF closing = "open" THEN "connected" ELSE "left",
                          !.open = closing = "open"]
<1>1. PeerOK(s) /\ s \in PeerState /\ SessionOK(s) /\ s.phase = "absent" /\ Becomes(p, t)
  BY InvIs, SessionIs DEF Join
<1>2. host' = host /\ UNCHANGED <<storeVars, viewVars>> /\ SweepKept
  BY DEF Join, bounds, SweepKept
<1>3. s.queue = <<>> /\ ~s.joined /\ ~s.connectionId BY <1>1 DEF PeerOK, PhaseOK, SessionOK
<1>4. /\ t.queue = <<>> /\ ~t.joined /\ ~t.connectionId /\ t.phase \in {"connected", "left"}
  BY <1>1, <1>3 DEF PeerState
<1> HIDE DEF t
<1>5. Pt(t) = "none" /\ Pt(s) = "none" /\ \A kind : ~Has(t, kind) BY <1>3, <1>4 DEF Pt, Has
<1>6. SessionOK(t) BY <1>4, <1>5 DEF SessionOK, Active, ServePoints
<1>7. Quieter(s, t) BY <1>1, <1>3, <1>4, <1>5, <1>6 DEF Quieter
<1> QED BY <1>1, <1>2, <1>7, QuieterView

LEMMA ReceiveAuthView ==
  ASSUME RoomInv, ViewInv, NEW p \in Peer, ReceiveAuth(p) PROVE ViewInv'
<1> DEFINE s == peer[p]
           u == [s EXCEPT !.phase = "authenticating"]
           t == Enqueue(u, "auth", "authorize")
<1>1. /\ PeerOK(s) /\ s \in PeerState /\ SessionOK(s) /\ InMap(s) /\ ~s.leaveRequested
      /\ "reset" \in Removals
  BY InvIs, SessionIs DEF ReceiveAuth, Receivable, Removals
<1>2. host' = host /\ UNCHANGED <<storeVars, viewVars>> /\ SweepKept
  BY DEF ReceiveAuth, Sends, SweepKept
<1>3. CASE Becomes(p, Expel(s, "reset")) BY <1>1, <1>2, <1>3, ExpelView, QuieterView
<1>4. CASE s.phase = "connected" /\ Becomes(p, t)
  <2>1. s.queue = <<>> /\ ~s.joined BY <1>1, <1>4 DEF PeerOK, PhaseOK, SessionOK
  <2>2. /\ u \in PeerState /\ u.queue = <<>> /\ u.phase = "authenticating" /\ ~u.joined
    BY <1>1, <2>1 DEF PeerState, Phases
  <2>3. "auth" \in Setup /\ "authorize" \in SetupPoints /\ QueueOK(<<>>)
    BY DEF Setup, SetupPoints, QueueOK
  <2>4. \A kind : ~Has(u, kind) BY <2>2 DEF Has
  <2> HIDE DEF u
  <2>5. /\ SameRest(u, t) /\ Pt(t) = "authorize"
        /\ \A other : Has(t, other) <=> Has(u, other) \/ other = "auth"
    BY <2>2, <2>3, EnqueueIs
  <2> HIDE DEF t
  <2>6. t.phase = "authenticating" /\ ~t.joined BY <2>2, <2>5 DEF SameRest
  <2>7. \A kind \in Requests : ~Has(t, kind) BY <2>4, <2>5 DEF Requests
  <2>8. SessionOK(t) BY <2>5, <2>6, <2>7 DEF SessionOK, Active, ServePoints
  <2>9. Quieter(s, t) BY <1>4, <2>1, <2>5, <2>6, <2>8 DEF Quieter
  <2> QED BY <1>2, <1>4, <2>9, QuieterView
<1> QED BY <1>3, <1>4 DEF ReceiveAuth

LEMMA ReceiveMessageView ==
  ASSUME RoomInv, ViewInv, NEW p \in Peer, ReceiveMessage(p) PROVE ViewInv'
<1> DEFINE s == peer[p]
<1>1. PeerOK(s) /\ s \in PeerState /\ SessionOK(s) /\ "reset" \in Removals
  BY InvIs, SessionIs DEF Removals
<1>2. host' = host /\ UNCHANGED <<storeVars, viewVars>> /\ SweepKept
  BY DEF ReceiveMessage, Sends, SweepKept
<1>3. CASE Becomes(p, Expel(s, "reset")) BY <1>1, <1>2, <1>3, ExpelView, QuieterView
<1>4. ASSUME Active(s), NEW kind \in Requests, Becomes(p, Enqueue(s, kind, "start"))
      PROVE  ViewInv'
  <2>1. Alike(s, s) BY DEF Alike
  <2>2. Quieter(s, Enqueue(s, kind, "start")) BY <1>1, <1>4, <2>1, QueueView
  <2> QED BY <1>2, <1>4, <2>2, QuieterView
<1> QED BY <1>3, <1>4 DEF ReceiveMessage

LEMMA LeaveView ==
  ASSUME RoomInv, ViewInv, NEW p \in Peer, Leave(p) PROVE ViewInv'
<1> DEFINE s == peer[p]
           u == Expel(s, "reset")
           t == [u EXCEPT !.released = TRUE]
<1>1. PeerOK(s) /\ SessionOK(s) /\ InMap(s) /\ "reset" \in Removals
  BY InvIs, SessionIs DEF Leave, Removals
<1>2. host' = host /\ UNCHANGED <<storeVars, viewVars>> /\ SweepKept /\ Becomes(p, t)
  BY DEF Leave, bounds, SweepKept
<1>3. Quieter(s, u) BY <1>1, ExpelView
<1>4. u \in PeerState BY <1>1, ExpelIs DEF Quiet, PeerOK
<1> HIDE DEF u
<1>5. Alike(u, t) BY <1>4 DEF PeerState, Alike
<1> HIDE DEF t
<1>6. Quieter(s, t) BY <1>3, <1>5, QuieterAlike
<1> QED BY <1>2, <1>6, QuieterView

LEMMA GoneView ==
  ASSUME NEW s, PeerOK(s), s.queue = <<>>, OnMessage
  PROVE  Quieter(s, [NeverJoined EXCEPT !.phase = "left", !.open = FALSE])
<1> DEFINE t == [NeverJoined EXCEPT !.phase = "left", !.open = FALSE]
<1>1. t.phase = "left" /\ t.queue = <<>> /\ ~t.joined /\ ~t.connectionId BY DEF NeverJoined
<1> HIDE DEF t
<1>2. Pt(t) = "none" /\ Pt(s) = "none" /\ \A kind : ~Has(t, kind) BY <1>1 DEF Pt, Has
<1>3. SessionOK(t) BY <1>1, <1>2 DEF SessionOK, Active, ServePoints
<1>4. Quieter(s, t) BY <1>1, <1>2, <1>3 DEF Quieter
<1> QED BY <1>4 DEF t

LEMMA SocketGoneView ==
  ASSUME RoomInv, ViewInv, NEW p \in Peer, SocketGone(p) PROVE ViewInv'
<1> DEFINE s == peer[p]
           t == [NeverJoined EXCEPT !.phase = "left", !.open = FALSE]
<1>1. PeerOK(s) /\ ViewOK(p) /\ s.phase = "asleep" /\ Becomes(p, t)
  BY InvIs, SessionIs DEF SocketGone
<1>2. host' = host /\ UNCHANGED <<storeVars, viewVars>> /\ SweepKept
  BY DEF SocketGone, bounds, SweepKept
<1>3. s.queue = <<>> /\ OnMessage BY <1>1 DEF PeerOK, PhaseOK, ViewOK
<1>4. Quieter(s, t) BY <1>1, <1>3, GoneView
<1> HIDE DEF t
<1> QED BY <1>1, <1>2, <1>4, QuieterView

LEMMA CloseView ==
  ASSUME RoomInv, ViewInv, Close PROVE ViewInv'
<1>1. host' = host /\ UNCHANGED <<storeVars, viewVars>> /\ SweepKept
  BY DEF Close, bounds, SweepKept
<1>2. ASSUME NEW p \in Peer PROVE Quieter(peer[p], peer'[p])
  <2>1. PeerOK(peer[p]) /\ SessionOK(peer[p]) /\ "closed" \in Removals
    BY InvIs, SessionIs DEF Removals
  <2>2. Quieter(peer[p], Expel(peer[p], "closed")) BY <2>1, ExpelView
  <2>3. Quieter(peer[p], peer[p]) BY <2>1, QuieterSelf DEF Alike
  <2>4. peer'[p] \in {Expel(peer[p], "closed"), peer[p]} BY DEF Close
  <2> QED BY <2>2, <2>3, <2>4
<1> QED BY <1>1, <1>2, QuietViews

\* The room goes on, and no peer changes.
LEMMA StillView ==
  ASSUME RoomInv, ViewInv, peer' = peer, host' = host, UNCHANGED <<storeVars, viewVars>>, SweepKept
  PROVE  ViewInv'
<1>1. \A q \in Peer : Quieter(peer[q], peer'[q]) BY SessionIs, QuieterSelf DEF Alike
<1> QED BY <1>1, QuietViews

LEMMA CloseDrainedView ==
  ASSUME RoomInv, ViewInv, CloseDrained PROVE ViewInv'
<1>1. peer' = peer /\ host' = host /\ UNCHANGED <<storeVars, viewVars>> /\ SweepKept
  BY DEF CloseDrained, bounds, SweepKept
<1> QED BY <1>1, StillView

LEMMA CloseFanoutView ==
  ASSUME RoomInv, ViewInv, CloseFanout PROVE ViewInv'
<1>1. peer' = peer /\ host' = host /\ UNCHANGED <<storeVars, viewVars>> /\ SweepKept
  BY BoundsAre DEF CloseFanout, SweepKept
<1> QED BY <1>1, StillView

LEMMA EvictedView ==
  ASSUME NEW s, PeerOK(s), SessionOK(s), s.queue = <<>>, InMap(s), OnMessage
  PROVE  Quieter(s, [s EXCEPT !.phase = "asleep", !.lease = FALSE, !.fanoutRetained = FALSE])
<1> DEFINE t == [s EXCEPT !.phase = "asleep", !.lease = FALSE, !.fanoutRetained = FALSE]
<1>1. /\ t.queue = <<>> /\ t.phase = "asleep" /\ t.joined = s.joined
      /\ t.identity = s.identity /\ t.connectionId = s.connectionId
  BY DEF PeerOK, PeerState
<1> HIDE DEF t
<1>2. Pt(t) = "none" /\ Pt(s) = "none" /\ \A kind : ~Has(t, kind) BY <1>1 DEF Pt, Has
<1>3. SessionOK(t) BY <1>1, <1>2 DEF SessionOK, Active, ServePoints
<1>4. Quieter(s, t) BY <1>1, <1>2, <1>3 DEF Quieter, InMap
<1> QED BY <1>4 DEF t

LEMMA HibernateView ==
  ASSUME RoomInv, ViewInv, Hibernate PROVE ViewInv'
<1> DEFINE asleep(p) ==
             [peer[p] EXCEPT !.phase = "asleep", !.lease = FALSE, !.fanoutRetained = FALSE]
           gone == [NeverJoined EXCEPT !.phase = "left", !.open = FALSE]
<1>1. /\ host' = host /\ UNCHANGED <<storeVars, viewVars>> /\ SweepKept
      /\ \A p \in Peer : peer[p].queue = <<>>
  BY DEF Hibernate, bounds, SweepKept
<1>2. OnMessage
  <2>1. host \in Hosts /\ host.hibernates BY DEF Hibernate, RoomInv, TypeOK
  <2> QED BY <2>1, HostAssumption DEF OnMessage, RefreshMode
<1>3. peer' = [p \in Peer |->
                 CASE ~InMap(peer[p]) -> peer[p]
                   [] InMap(peer[p]) /\ peer[p].open -> asleep(p)
                   [] OTHER -> gone]
  BY DEF Hibernate
<1>4. ASSUME NEW p \in Peer PROVE Quieter(peer[p], peer'[p])
  <2>1. PeerOK(peer[p]) /\ SessionOK(peer[p]) BY InvIs, SessionIs
  <2>2. CASE ~InMap(peer[p])
    <3>1. peer'[p] = peer[p] BY <1>3, <2>2
    <3> QED BY <2>1, <3>1, QuieterSelf DEF Alike
  <2>3. CASE InMap(peer[p])
    <3>1. Quieter(peer[p], asleep(p)) BY <1>1, <1>2, <2>1, <2>3, EvictedView
    <3>2. Quieter(peer[p], gone) BY <1>1, <1>2, <2>1, GoneView
    <3>3. peer'[p] \in {asleep(p), gone} BY <1>3, <2>3
    <3> HIDE DEF asleep, gone
    <3> QED BY <3>1, <3>2, <3>3
  <2> QED BY <2>2, <2>3
<1> QED BY <1>1, <1>4, QuietViews

LEMMA ResumedView ==
  ASSUME NEW s, PeerOK(s), SessionOK(s), s.phase = "asleep", OnMessage
  PROVE  Quieter(s, Enqueue([s EXCEPT !.phase = "authenticating", !.identity = FALSE,
                                      !.connectionId = FALSE], "resume", "recheck"))
<1> DEFINE u == [s EXCEPT !.phase = "authenticating", !.identity = FALSE, !.connectionId = FALSE]
           t == Enqueue(u, "resume", "recheck")
<1>1. s \in PeerState /\ s.queue = <<>> BY DEF PeerOK, PhaseOK
<1>2. /\ u \in PeerState /\ u.queue = <<>> /\ u.phase = "authenticating"
      /\ u.joined = s.joined /\ ~u.connectionId
  BY <1>1 DEF PeerState, Phases
<1>3. "resume" \in Setup /\ "recheck" \in SetupPoints /\ QueueOK(<<>>)
  BY DEF Setup, SetupPoints, QueueOK
<1>4. Pt(s) = "none" /\ (\A kind : ~Has(u, kind)) BY <1>1, <1>2 DEF Pt, Has
<1> HIDE DEF u
<1>5. /\ SameRest(u, t) /\ Pt(t) = "recheck"
      /\ \A other : Has(t, other) <=> Has(u, other) \/ other = "resume"
  BY <1>2, <1>3, EnqueueIs
<1> HIDE DEF t
<1>6. t.phase = "authenticating" /\ t.joined = s.joined /\ ~t.connectionId
  BY <1>2, <1>5 DEF SameRest
<1>7. \A kind \in Requests : ~Has(t, kind) BY <1>4, <1>5 DEF Requests
<1>8. SessionOK(t) BY <1>5, <1>6, <1>7 DEF SessionOK, Active, ServePoints
<1>9. Quieter(s, t) BY <1>1, <1>4, <1>5, <1>6, <1>8 DEF Quieter
<1> QED BY <1>9 DEF t, u

LEMMA RejoinedView ==
  ASSUME NEW s, PeerOK(s), SessionOK(s), s.phase = "asleep", ~s.identity
  PROVE  Quieter(s, [s EXCEPT !.phase = "connected"])
<1> DEFINE t == [s EXCEPT !.phase = "connected"]
<1>1. s \in PeerState /\ s.queue = <<>> BY DEF PeerOK, PhaseOK
<1>2. t.queue = <<>> /\ t.phase = "connected" /\ t.joined = s.joined BY <1>1 DEF PeerState
<1> HIDE DEF t
<1>3. Pt(t) = "none" /\ Pt(s) = "none" /\ \A kind : ~Has(t, kind) BY <1>1, <1>2 DEF Pt, Has
<1>4. ~t.joined BY <1>2, <1>3 DEF SessionOK
<1>5. SessionOK(t) BY <1>2, <1>3, <1>4 DEF SessionOK, Active, ServePoints
<1>6. Quieter(s, t) BY <1>1, <1>2, <1>3, <1>4, <1>5 DEF Quieter
<1> QED BY <1>6 DEF t

LEMMA WakeView ==
  ASSUME RoomInv, ViewInv, Wake PROVE ViewInv'
<1> DEFINE resumed(p) ==
             Enqueue([peer[p] EXCEPT !.phase = "authenticating", !.identity = FALSE,
                                     !.connectionId = FALSE], "resume", "recheck")
           rejoined(p) == [peer[p] EXCEPT !.phase = "connected"]
<1>1. peer' = [p \in Peer |->
                 CASE peer[p].phase # "asleep" -> peer[p]
                   [] peer[p].phase = "asleep" /\ peer[p].identity -> resumed(p)
                   [] OTHER -> rejoined(p)]
  BY DEF Wake
<1>2. host' = host /\ UNCHANGED <<storeVars, viewVars>> /\ SweepKept
  BY DEF Wake, bounds, SweepKept
<1>3. ASSUME NEW p \in Peer PROVE Quieter(peer[p], peer'[p])
  <2>1. PeerOK(peer[p]) /\ SessionOK(peer[p]) /\ ViewOK(p) BY InvIs, SessionIs
  <2>2. CASE peer[p].phase # "asleep"
    <3>1. peer'[p] = peer[p] BY <1>1, <2>2
    <3> QED BY <2>1, <3>1, QuieterSelf DEF Alike
  <2>3. CASE peer[p].phase = "asleep" /\ peer[p].identity
    <3>1. OnMessage BY <2>1, <2>3 DEF ViewOK
    <3>2. Quieter(peer[p], resumed(p)) BY <2>1, <2>3, <3>1, ResumedView
    <3>3. peer'[p] = resumed(p) BY <1>1, <2>3
    <3> QED BY <3>2, <3>3
  <2>4. CASE peer[p].phase = "asleep" /\ ~peer[p].identity
    <3>1. Quieter(peer[p], rejoined(p)) BY <2>1, <2>4, RejoinedView
    <3>2. peer'[p] = rejoined(p) BY <1>1, <2>4
    <3> QED BY <3>1, <3>2
  <2> QED BY <2>2, <2>3, <2>4
<1> QED BY <1>2, <1>3, QuietViews

LEMMA HostStepView ==
  ASSUME RoomInv, ViewInv, HostStep PROVE ViewInv'
<1>1. CASE \E p \in Peer : Join(p) \/ ReceiveAuth(p) \/ ReceiveMessage(p) \/ Leave(p) \/ SocketGone(p)
  BY <1>1, JoinView, ReceiveAuthView, ReceiveMessageView, LeaveView, SocketGoneView
<1> QED
  BY <1>1, CloseView, CloseDrainedView, CloseFanoutView, HibernateView, WakeView DEF HostStep

-----------------------------------------------------------------------------
(* Heartbeats, records and sweeps, and who is shown.                       *)

LEMMA HeartbeatExpiresView ==
  ASSUME RoomInv, ViewInv, NEW p \in Peer, HeartbeatExpires(p) PROVE ViewInv'
<1> DEFINE s == peer[p]
           u == [s EXCEPT !.heartbeat = "overdue"]
           v == [s EXCEPT !.heartbeat = "none", !.leaveRequested = TRUE, !.open = FALSE]
<1>1. PeerOK(s) /\ s \in PeerState /\ SessionOK(s) BY InvIs, SessionIs
<1>2. /\ host' = host /\ UNCHANGED <<storeVars, viewVars>> /\ SweepKept
      /\ Becomes(p, u) \/ Becomes(p, Enqueue(v, "reset", "start"))
  BY DEF HeartbeatExpires, TimePasses, SweepKept, Expel
<1>3. Alike(s, u) /\ Alike(s, v) /\ v \in PeerState BY <1>1 DEF Alike, PeerState
<1> HIDE DEF u, v
<1>4. "reset" \in Removals /\ "reset" \notin Requests BY DEF Removals, Requests
<1>5. Quieter(s, u) BY <1>1, <1>3, QuieterSelf
<1>6. Quieter(s, Enqueue(v, "reset", "start")) BY <1>1, <1>3, <1>4, QueueView
<1> QED BY <1>2, <1>5, <1>6, QuieterView

LEMMA MemberLapsesView ==
  ASSUME RoomInv, ViewInv, NEW p \in Peer, MemberLapses(p) PROVE ViewInv'
<1>1. /\ peer' = peer /\ maintenance' = maintenance /\ host' = host /\ members' = members
      /\ shown' = shown /\ lost' = lost /\ lapsed' = lapsed \cup {p}
      /\ ~At(p, "join-lease") /\ ~At(p, "publish-join")
  BY DEF MemberLapses, viewVars, TimePasses
<1>2. "join-lease" \in Points /\ "publish-join" \in Points BY DEF Points
<1>3. Pt(peer[p]) \notin JoinPoints BY <1>1, <1>2, AtPoint DEF JoinPoints
<1>4. \A c : Known(c) => Known(c)' BY <1>1 DEF Known, Due, Pt, OnMessage, RefreshMode
<1>5. \A c \in Peer : Kept(c) BY <1>1, <1>3, <1>4 DEF Kept
<1> QED BY <1>1, <1>5, KeptView DEF ViewInv

LEMMA SweepCalledView ==
  ASSUME RoomInv, ViewInv, SweepCalled PROVE ViewInv'
<1> DEFINE j == NewSweep(Alarm, Overdue)
<1>1. /\ peer' = peer /\ host' = host /\ UNCHANGED <<storeVars, viewVars>>
      /\ maintenance' = Append(maintenance, j)
  BY DEF SweepCalled, bounds, NewSweep
<1>2. j \in Sweep /\ maintenance \in Seq(Sweep) BY SweepIs DEF Overdue, RoomInv, TypeOK
<1> HIDE DEF j
<1>3. maintenance # <<>> => maintenance' # <<>> /\ maintenance'[1] = maintenance[1]
  BY <1>1, <1>2
<1>4. SweepKept BY <1>3 DEF SweepKept
<1> QED BY <1>1, <1>4, StillView

LEMMA SweepStartsView ==
  ASSUME RoomInv, ViewInv, SweepStarts PROVE ViewInv'
<1>1. maintenance # <<>> /\ Head(maintenance).at = "lock" BY DEF SweepStarts
<1>2. maintenance[1].at = "lock" BY <1>1, HeadIs
<1>3. host' = host /\ UNCHANGED <<storeVars, viewVars>> /\ SweepKept
  BY <1>2 DEF SweepStarts, bounds, SweepKept
<1>4. ASSUME NEW p \in Peer PROVE Quieter(peer[p], peer'[p])
  <2>1. PeerOK(peer[p]) /\ SessionOK(peer[p]) /\ "swept" \in Removals
    BY InvIs, SessionIs DEF Removals
  <2>2. Quieter(peer[p], Expel(peer[p], "swept")) BY <2>1, ExpelView
  <2>3. Quieter(peer[p], peer[p]) BY <2>1, QuieterSelf DEF Alike
  <2>4. peer'[p] \in {Expel(peer[p], "swept"), peer[p]} BY DEF SweepStarts
  <2> QED BY <2>2, <2>3, <2>4
<1> QED BY <1>3, <1>4, QuietViews

\* The sweep that ends has no Leave left to publish, or has lost those that were left.
LEMMA EndSweepView ==
  ASSUME RoomInv, ViewInv, maintenance # <<>>, EndSweep(maintenance[1].by),
         host' = host, UNCHANGED storeVars,
         \A c \in shown' \ lost' :
           c \in shown \ lost /\ (maintenance[1].at = "publish" => c \notin maintenance[1].leaves)
  PROVE  ViewInv'
<1>1. maintenance[1].by \in Peer \cup {Alarm} /\ SweepsOK /\ 1 \in DOMAIN maintenance
  BY HeadIs DEF RoomInv
<1>2. members' = members /\ lapsed' = lapsed BY DEF storeVars
<1>3. OnMessage' <=> OnMessage BY DEF OnMessage, RefreshMode
<1>4. CASE maintenance[1].by = Alarm
  <2>1. peer' = peer BY <1>4 DEF EndSweep
  <2>2. \A c \in shown' \ lost' : Due(c) => Due(c)' BY <2>1 DEF Due, Pt
  <2>3. \A c \in Peer : Kept(c) BY <1>2, <1>3, <2>2 DEF Kept, Known
  <2> QED BY <2>1, <2>3, KeptView DEF ViewInv
<1>5. ASSUME NEW p \in Peer, maintenance[1].by = p, p # Alarm PROVE ViewInv'
  <2> DEFINE s == peer[p]   t == peer'[p]
  <2>1. Pt(s) = "maintain" BY <1>1, <1>5 DEF SweepsOK
  <2>2. /\ PeerOK(s) /\ s \in PeerState /\ peer \in [Peer -> PeerState] /\ SessionOK(s)
        /\ "maintain" \in ServePoints /\ "list" \in ServePoints \ {"publish-join"}
        /\ "list" \notin JoinPoints /\ "maintain" \in Points
    BY InvIs, SessionIs DEF ServePoints, JoinPoints, Points
  <2>3. Active(s) /\ At(p, "maintain") /\ s.queue # <<>> BY <2>1, <2>2, AtPoint DEF SessionOK, Pt
  <2>4. s.queue[1].kind \in Requests BY <2>2, <2>3, ServingIs
  <2>5. Dispatch(p, s) \/ Becomes(p, Done(s)) BY <1>5 DEF EndSweep
  <2>6. peer' = [peer EXCEPT ![p] = t] /\ Carries(s, t) /\ Pt(t) \notin JoinPoints
    <3>1. CASE Dispatch(p, s)
      <4>1. Alike(s, s) BY DEF Alike
      <4> QED BY <2>1, <2>2, <2>3, <2>4, <3>1, <4>1, DispatchView
    <3>2. CASE Becomes(p, Done(s)) BY <2>2, <2>3, <3>2, ServedView
    <3> QED BY <2>5, <3>1, <3>2
  <2>7. \A c \in shown' \ lost' : Due(c) => Due(c)'
    <3> SUFFICES ASSUME NEW c \in shown' \ lost', Due(c) PROVE Due(c)' OBVIOUS
    <3>1. PICK q \in Peer : Pt(peer[q]) = "publish-leaves" /\ c \in peer[q].queue[1].leaves
      BY DEF Due
    <3>2. q # p BY <2>1, <3>1
    <3>3. peer'[q] = peer[q] BY <2>2, <2>6, <3>2
    <3> QED BY <3>1, <3>3 DEF Due, Pt
  <2>8. \A c \in Peer : Kept(c) BY <1>2, <1>3, <2>7 DEF Kept, Known
  <2>9. Recorded(p)' BY <2>6 DEF Recorded, Pt
  <2>10. ViewOK(p)' BY <2>1, <2>6, <2>8, <2>9, ViewOf DEF Kept
  <2> QED BY <2>2, <2>6, <2>8, <2>10, ViewStep
<1> QED BY <1>1, <1>4, <1>5, Distinct

LEMMA SweepListedView ==
  ASSUME RoomInv, ViewInv, SweepListed PROVE ViewInv'
<1>1. /\ maintenance # <<>> /\ maintenance[1].at = "resets" /\ maintenance[1] \in Sweep
      /\ maintenance \in Seq(Sweep) /\ 1 \in DOMAIN maintenance
      /\ Head(maintenance) = maintenance[1]
  BY HeadIs DEF SweepListed
<1>2. host' = host /\ shown' = shown /\ lost' = lost BY BoundsAre DEF SweepListed, viewVars
<1>3. CASE EndSweep(maintenance[1].by) /\ UNCHANGED storeVars BY <1>1, <1>2, <1>3, EndSweepView
<1>4. CASE /\ peer' = peer /\ members' = members \ lapsed /\ lapsed' = {}
           /\ maintenance' = [maintenance EXCEPT ![1].at = "publish", ![1].leaves = lapsed]
  <2>1. maintenance' # <<>> /\ maintenance'[1].at = "publish" /\ maintenance'[1].leaves = lapsed
    <3> DEFINE sweep == [maintenance[1] EXCEPT !.at = "publish", !.leaves = lapsed]
    <3>1. lapsed \in SUBSET Peer BY DEF RoomInv, TypeOK
    <3>2. sweep \in Sweep /\ sweep.at = "publish" /\ sweep.leaves = lapsed
      BY <1>1, <3>1 DEF Sweep
    <3>3. maintenance' = [maintenance EXCEPT ![1] = sweep] BY <1>1, <1>4
    <3> HIDE DEF sweep
    <3>4. maintenance'[1] = sweep /\ maintenance' # <<>> BY <1>1, <3>2, <3>3
    <3> QED BY <3>2, <3>4
  <2>2. \A c : c \in lapsed => Due(c)' BY <2>1 DEF Due
  <2>3. \A c : Due(c) => Due(c)' BY <1>1, <1>4 DEF Due, Pt
  <2>4. \A c : Known(c) => Known(c)'
    <3>1. OnMessage' <=> OnMessage BY <1>2 DEF OnMessage, RefreshMode
    <3> QED BY <1>4, <2>2, <2>3, <3>1 DEF Known
  <2>5. \A c \in Peer : Kept(c) BY <1>2, <1>4, <2>4 DEF Kept
  <2> QED BY <1>2, <1>4, <2>5, KeptView DEF ViewInv
<1>5. \/ EndSweep(maintenance[1].by) /\ UNCHANGED storeVars
      \/ /\ peer' = peer /\ members' = members \ lapsed /\ lapsed' = {}
         /\ maintenance' = [maintenance EXCEPT ![1].at = "publish", ![1].leaves = lapsed]
  BY <1>1 DEF SweepListed
<1> QED BY <1>3, <1>4, <1>5

LEMMA SweepPublishedView ==
  ASSUME RoomInv, ViewInv, SweepPublished PROVE ViewInv'
<1> DEFINE leaves == maintenance[1].leaves
<1>1. /\ maintenance # <<>> /\ maintenance[1].at = "publish" /\ maintenance[1] \in Sweep
      /\ maintenance \in Seq(Sweep) /\ 1 \in DOMAIN maintenance
      /\ Head(maintenance) = maintenance[1]
  BY HeadIs DEF SweepPublished
<1>2. host' = host /\ UNCHANGED storeVars BY BoundsAre DEF SweepPublished
<1>3. \/ leaves = {} /\ EndSweep(maintenance[1].by) /\ UNCHANGED viewVars
      \/ \E c \in leaves : /\ shown' = shown \ {c} /\ lost' = lost /\ peer' = peer
                           /\ maintenance' = [maintenance EXCEPT ![1].leaves = @ \ {c}]
      \/ EndSweep(maintenance[1].by) /\ lost' = lost \cup leaves /\ shown' = shown
  BY <1>1 DEF SweepPublished
<1>4. CASE leaves = {} /\ EndSweep(maintenance[1].by) /\ UNCHANGED viewVars
  BY <1>1, <1>2, <1>4, EndSweepView DEF viewVars
<1>5. CASE EndSweep(maintenance[1].by) /\ lost' = lost \cup leaves /\ shown' = shown
  BY <1>1, <1>2, <1>5, EndSweepView
<1>6. ASSUME NEW c \in leaves, shown' = shown \ {c}, lost' = lost, peer' = peer,
             maintenance' = [maintenance EXCEPT ![1].leaves = @ \ {c}]
      PROVE  ViewInv'
  <2>1. /\ maintenance' # <<>> /\ maintenance'[1].at = "publish"
        /\ maintenance'[1].leaves = leaves \ {c}
    BY <1>1, <1>6 DEF Sweep
  <2>2. \A d : d # c /\ Due(d) => Due(d)'
    <3> TAKE d
    <3>1. d # c /\ d \in leaves => Due(d)' BY <2>1 DEF Due
    <3>2. (\E q \in Peer : Pt(peer[q]) = "publish-leaves" /\ d \in peer[q].queue[1].leaves) => Due(d)'
      BY <1>6 DEF Due, Pt
    <3> QED BY <3>1, <3>2 DEF Due
  <2>3. \A d : d # c /\ Known(d) => Known(d)'
    <3>1. OnMessage' <=> OnMessage BY <1>2 DEF OnMessage, RefreshMode
    <3> QED BY <1>2, <2>2, <3>1 DEF Known, storeVars
  <2>4. \A d \in Peer : Kept(d) BY <1>2, <1>6, <2>3 DEF Kept, storeVars
  <2> QED BY <1>2, <1>6, <2>4, KeptView DEF ViewInv
<1> QED BY <1>3, <1>4, <1>5, <1>6

LEMMA SweepStepView ==
  ASSUME RoomInv, ViewInv, SweepStep PROVE ViewInv'
BY HeartbeatExpiresView, MemberLapsesView, SweepCalledView, SweepStartsView, SweepListedView,
   SweepPublishedView
DEF SweepStep

LEMMA InitView ==
  ASSUME Init PROVE ViewInv
<1>1. peer = [p \in Peer |-> NeverJoined] /\ shown = {} BY DEF Init
<1> SUFFICES ASSUME NEW c \in Peer PROVE ViewOK(c) BY DEF ViewInv
<1> DEFINE s == NeverJoined
<1>2. peer[c] = s BY <1>1
<1>3. s.queue = <<>> /\ s.phase = "absent" /\ ~s.joined /\ ~s.connectionId BY DEF NeverJoined
<1> HIDE DEF s
<1>4. Pt(s) = "none" /\ (\A kind : ~Has(s, kind)) BY <1>3 DEF Pt, Has
<1>5. SessionOK(s) BY <1>3, <1>4 DEF SessionOK, Active, ServePoints
<1>6. Recorded(c) BY <1>2, <1>4 DEF Recorded, JoinPoints
<1> QED BY <1>1, <1>2, <1>3, <1>5, <1>6 DEF ViewOK

LEMMA NextView ==
  ASSUME RoomInv, ViewInv, [Next]_vars PROVE ViewInv'
<1>1. CASE HostStep BY <1>1, HostStepView
<1>2. ASSUME NEW p \in Peer, SetupStep(p) \/ MessageStep(p) \/ ResetStep(p) PROVE ViewInv'
  BY <1>2, SetupStepView, MessageStepView, ResetStepView
<1>3. CASE SweepStep BY <1>3, SweepStepView
<1>4. CASE UNCHANGED vars
  <2>1. /\ peer' = peer /\ host' = host /\ UNCHANGED <<storeVars, viewVars>>
        /\ maintenance' = maintenance
    BY <1>4 DEF vars, bounds
  <2> QED BY <2>1, StillView DEF SweepKept
<1> QED BY <1>1, <1>2, <1>3, <1>4 DEF Next

LEMMA ViewInvariant == Spec => [](RoomInv /\ ViewInv)
<1>1. Init => RoomInv /\ ViewInv BY InitRoomInv, InitView
<1>2. RoomInv /\ ViewInv /\ [Next]_vars => ViewInv' BY NextView
<1> QED BY <1>1, <1>2, RoomInvariant, PTL DEF Spec

\* Nobody stays on the screens of others for ever.  A connection that is shown belongs
\* to a session, or the reset that ended the session is about to announce its Leave; on
\* a host that hibernates, where the object may lose all it knew of its peers, the store
\* still has its record, or a sweep or a sync that took the record out is about to
\* announce it (resetState, sweepLocked, receiveSync; presence-room-implementation.ts).
THEOREM RoomNoGhosts == Spec => []NoGhosts
<1>1. ASSUME RoomInv, ViewInv PROVE NoGhosts
  <2> SUFFICES ASSUME NEW c \in shown \ lost
               PROVE  peer[c].identity \/ c \in members \/ LeavePending(c)
    BY DEF NoGhosts
  <2>1. c \in Peer BY <1>1 DEF RoomInv, TypeOK
  <2>2. Covered(c) BY <1>1, <2>1 DEF ViewInv, ViewOK
  <2>3. "publish-leave" \in Points BY DEF Points
  <2>4. Pt(peer[c]) = "publish-leave" => LeavePending(c)
    BY <1>1, <2>1, <2>3, AtPoint DEF LeavePending
  <2>5. Announces(peer[c]) => peer[c].identity \/ LeavePending(c) BY <2>4 DEF Announces
  <2>6. ASSUME NEW q \in Peer, Pt(peer[q]) = "publish-leaves", c \in peer[q].queue[1].leaves
        PROVE  LeavePending(c)
    <3>1. peer[q].queue # <<>> /\ peer[q] \in PeerState BY <1>1, <2>6, InvIs DEF Pt
    <3>2. 1 \in DOMAIN peer[q].queue BY <3>1, HeadIsJob
    <3> QED BY <2>6, <3>2 DEF LeavePending
  <2>7. ASSUME maintenance # <<>>, c \in maintenance[1].leaves PROVE LeavePending(c)
    <3>1. 1 \in DOMAIN maintenance BY <1>1, <2>7, HeadIs
    <3> QED BY <2>7, <3>1 DEF LeavePending
  <2>8. Due(c) => LeavePending(c) BY <2>6, <2>7 DEF Due
  <2> QED BY <2>2, <2>5, <2>8 DEF Covered, Known
<1>2. RoomInv /\ ViewInv => NoGhosts BY <1>1
<1> QED BY <1>2, ViewInvariant, PTL
=============================================================================
