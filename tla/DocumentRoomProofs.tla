------------------------- MODULE DocumentRoomProofs -------------------------
(***************************************************************************)
(* Theorems about DocumentRoom, for any peers, hosts, batches and bounds.  *)
(*                                                                         *)
(* To the invariant of the room the first part adds that nothing is        *)
(* acknowledged or published but what is stored, and what the bounds       *)
(* count; the second is about when a session may begin, and that the       *)
(* checks of one that goes on are never forgotten; the third about what a  *)
(* session has been sent, which is every durable batch but what is still   *)
(* to come.                                                                *)
(***************************************************************************)
EXTENDS DocumentRoomStepProofs

-----------------------------------------------------------------------------
(* What is acknowledged, published or lost is stored.                      *)

\* A peer acknowledges, and is about to publish, nothing but what is in d.
Logged(s, d) ==
  /\ s \in PeerState
  /\ s.acked \subseteq d
  /\ \A i \in DOMAIN s.queue : Publishes(s.queue[i]) => s.queue[i].data \subseteq d

LEMMA LoggedSame ==
  ASSUME NEW d, NEW s, Logged(s, d), NEW t \in PeerState, t.queue = s.queue, t.acked = s.acked
  PROVE  Logged(t, d)
BY DEF Logged

LEMMA LoggedRewritten ==
  ASSUME NEW d, NEW s, Logged(s, d), NEW t, NEW j, Rewritten(s, j, t),
         Publishes(j) => j.data \subseteq d
  PROVE  Logged(t, d) /\ t.queue # <<>>
<1>1. s.queue \in Seq(Job) /\ t.queue \in Seq(Job) BY DEF Logged, Rewritten, PeerState
<1>2. \A i \in DOMAIN t.queue : i = 1 \/ i > 1 BY <1>1
<1> QED BY <1>2 DEF Logged, Rewritten, SameRest

LEMMA LoggedGoto ==
  ASSUME NEW d, NEW s, Logged(s, d), s.queue # <<>>, NEW point \in Points,
         point = "publish" => s.queue[1].next = "publish"
  PROVE  Logged(Goto(s, point), d)
<1> DEFINE j == [s.queue[1] EXCEPT !.at = point]
<1>1. s \in PeerState /\ s.queue[1] \in Job /\ 1 \in DOMAIN s.queue BY HeadIsJob DEF Logged
<1>2. Rewritten(s, j, Goto(s, point)) BY <1>1, GotoIs
<1>3. j.next = s.queue[1].next /\ j.data = s.queue[1].data /\ j.at = point BY <1>1 DEF Job
<1> HIDE DEF j
<1>4. Publishes(j) => j.data \subseteq d BY <1>1, <1>3 DEF Logged, Publishes
<1> QED BY <1>2, <1>4, LoggedRewritten

LEMMA LoggedThen ==
  ASSUME NEW d, NEW s, Logged(s, d), s.queue # <<>>, NEW next \in Continuations,
         next = "publish" => s.queue[1].data \subseteq d
  PROVE  Logged(Then(s, next), d) /\ Then(s, next).queue # <<>>
<1> DEFINE j == [s.queue[1] EXCEPT !.next = next]
<1>1. s \in PeerState /\ s.queue[1] \in Job BY HeadIsJob DEF Logged
<1>2. Rewritten(s, j, Then(s, next)) BY <1>1, ThenIs
<1>3. j.next = next /\ j.data = s.queue[1].data /\ j.at = s.queue[1].at BY <1>1 DEF Job
<1> HIDE DEF j
<1>4. Publishes(j) => j.data \subseteq d BY <1>1, <1>3, HeadIsJob DEF Logged, Publishes
<1> QED BY <1>2, <1>4, LoggedRewritten

LEMMA LoggedDone ==
  ASSUME NEW d, NEW s, Logged(s, d), s.queue # <<>>
  PROVE  Logged(Done(s), d)
<1> DEFINE r == Tail(s.queue)
<1>1. s \in PeerState /\ s.queue \in Seq(Job) BY DEF Logged, PeerState
<1>2. r \in Seq(Job) /\ \A i \in DOMAIN r : r[i] = s.queue[i + 1] /\ i + 1 \in DOMAIN s.queue
  BY <1>1
<1>3. Done(s) = [s EXCEPT !.queue = r] BY DEF Done
<1> HIDE DEF r
<1>4. /\ [s EXCEPT !.queue = r] \in PeerState /\ [s EXCEPT !.queue = r].queue = r
      /\ [s EXCEPT !.queue = r].acked = s.acked
  BY <1>1, <1>2 DEF PeerState
<1> QED BY <1>2, <1>3, <1>4 DEF Logged

LEMMA LoggedEnqueue ==
  ASSUME NEW d, NEW s, Logged(s, d),
         NEW kind \in {"auth", "resume", "event", "repair", "maintain", "reset", "close"},
         NEW at \in {"start", "authorize"}, NEW next \in {"end", "dispatch"}, NEW data \in SUBSET Batch
  PROVE  Logged(Enqueue(s, kind, at, next, data), d)
<1> DEFINE j == [kind |-> kind, at |-> at, next |-> next, remove |-> TRUE, data |-> data]
           r == Append(s.queue, j)
<1>1. s \in PeerState /\ s.queue \in Seq(Job) BY DEF Logged, PeerState
<1>2. j \in Job /\ ~Publishes(j) BY DEF Job, Points, Continuations, Publishes
<1>3. Enqueue(s, kind, at, next, data) = [s EXCEPT !.queue = r] BY DEF Enqueue
<1> HIDE DEF j
<1>4. r \in Seq(Job) /\ \A i \in DOMAIN r : (i \in DOMAIN s.queue /\ r[i] = s.queue[i]) \/ r[i] = j
  BY <1>1, <1>2
<1> HIDE DEF r
<1>5. /\ [s EXCEPT !.queue = r] \in PeerState /\ [s EXCEPT !.queue = r].queue = r
      /\ [s EXCEPT !.queue = r].acked = s.acked
  BY <1>1, <1>4 DEF PeerState
<1> QED BY <1>2, <1>3, <1>4, <1>5 DEF Logged

LEMMA LoggedDispatch ==
  ASSUME NEW d, NEW s, Logged(s, d), s.queue # <<>>
  PROVE  Logged(Dispatch(s), d)
<1>1. Logged(Then(s, "end"), d) /\ Then(s, "end").queue # <<>> BY LoggedThen DEF Continuations
<1>2. Logged(Goto(Then(s, "end"), "read"), d) /\ Logged(Goto(Then(s, "end"), "append"), d)
  BY <1>1, LoggedGoto DEF Points
<1> QED BY <1>2, LoggedDone DEF Dispatch

\* An acknowledgement is of a batch that was to be published.
LEMMA LoggedContinue ==
  ASSUME NEW d, NEW s, Logged(s, d), s.queue # <<>>, NEW active \in BOOLEAN
  PROVE  Logged(Continue(s, active), d)
<1> DEFINE data == s.queue[1].data
           a == [s EXCEPT !.acked = @ \cup data]
           b == [s EXCEPT !.received = @ \cup data, !.repaired = TRUE]
<1>1. s \in PeerState /\ s.queue[1] \in Job /\ 1 \in DOMAIN s.queue /\ Running(s) = s.queue[1]
  BY HeadIsJob DEF Logged
<1>2. data \subseteq Batch /\ s.queue[1].next \in Continuations BY <1>1 DEF Job
<1>3. s.queue[1].next = "publish" => Logged(a, d) /\ a.queue # <<>> /\ a.queue[1] = s.queue[1]
  <2>1. a \in PeerState /\ a.queue = s.queue /\ a.acked = s.acked \cup data
    BY <1>1, <1>2 DEF PeerState
  <2> HIDE DEF a
  <2> QED BY <1>1, <2>1 DEF Logged, Publishes
<1>4. Logged(b, d) /\ b.queue # <<>>
  <2>1. b \in PeerState /\ b.queue = s.queue /\ b.acked = s.acked BY <1>1, <1>2 DEF PeerState
  <2> HIDE DEF b
  <2> QED BY <2>1, LoggedSame
<1>5. CASE s.queue[1].next = "end" BY <1>1, <1>5, LoggedDone DEF Continue
<1>6. CASE s.queue[1].next = "dispatch" BY <1>1, <1>6, LoggedDone, LoggedDispatch DEF Continue
<1>7. CASE s.queue[1].next = "publish"
  <2>1. Logged(Goto(a, "publish"), d) /\ Logged(Goto(s, "publish"), d)
    BY <1>3, <1>7, LoggedGoto DEF Points
  <2> QED BY <1>1, <1>7, <2>1 DEF Continue
<1>8. CASE s.queue[1].next = "reply"
  <2>1. Logged(Done(b), d) /\ Logged(Done(s), d) BY <1>4, LoggedDone
  <2> QED BY <1>1, <1>8, <2>1 DEF Continue
<1> QED BY <1>2, <1>5, <1>6, <1>7, <1>8 DEF Continuations

\* Steps of a job, a reset or a timer that change neither queue nor acknowledgements.
LEMMA LoggedArms ==
  ASSUME NEW d, NEW s, Logged(s, d)
  PROVE  /\ Logged(ArmAuth(s), d) /\ ArmAuth(s).queue = s.queue
         /\ Logged(ArmLease(s), d) /\ ArmLease(s).queue = s.queue
         /\ Logged(ClosePeer(s), d) /\ ClosePeer(s).queue = s.queue
         /\ \A role \in Sessions : /\ Logged([s EXCEPT !.session = role], d)
                                   /\ [s EXCEPT !.session = role].queue = s.queue
         /\ Logged([s EXCEPT !.leaveRequested = TRUE], d)
         /\ [s EXCEPT !.leaveRequested = TRUE].queue = s.queue
<1>1. s \in PeerState BY DEF Logged
<1>2. ASSUME NEW t \in PeerState, t.queue = s.queue, t.acked = s.acked PROVE Logged(t, d)
  BY <1>2, LoggedSame
<1>3. /\ ArmAuth(s) \in PeerState /\ ArmAuth(s).queue = s.queue /\ ArmAuth(s).acked = s.acked
      /\ ArmLease(s) \in PeerState /\ ArmLease(s).queue = s.queue /\ ArmLease(s).acked = s.acked
  BY <1>1 DEF ArmAuth, ArmLease, PeerState
<1>4. /\ ClosePeer(s) \in PeerState /\ ClosePeer(s).queue = s.queue /\ ClosePeer(s).acked = s.acked
      /\ [s EXCEPT !.leaveRequested = TRUE] \in PeerState
      /\ [s EXCEPT !.leaveRequested = TRUE].queue = s.queue
      /\ [s EXCEPT !.leaveRequested = TRUE].acked = s.acked
  BY <1>1 DEF ClosePeer, PeerState
<1>5. \A role \in Sessions : /\ [s EXCEPT !.session = role] \in PeerState
                             /\ [s EXCEPT !.session = role].queue = s.queue
                             /\ [s EXCEPT !.session = role].acked = s.acked
  BY <1>1 DEF PeerState
<1> QED BY <1>2, <1>3, <1>4, <1>5

LEMMA LoggedMaintain ==
  ASSUME NEW d, NEW s, Logged(s, d), s.queue # <<>>
  PROVE  Logged(MaintainLease(s), d) /\ Logged(MaintainPeer(s), d)
<1> DEFINE u == [s EXCEPT !.authPromise = TRUE]
<1>1. u \in PeerState /\ u.queue = s.queue /\ u.acked = s.acked BY DEF Logged, PeerState
<1> HIDE DEF u
<1>2. Logged(u, d) BY <1>1, LoggedSame
<1>3. Logged(Goto(u, "refresh"), d) BY <1>1, <1>2, LoggedGoto DEF Points
<1>4. Logged(Goto(s, "shared-refresh"), d) /\ Logged(Goto(s, "lease-refresh"), d)
  BY LoggedGoto DEF Points
<1>5. Logged(Continue(s, TRUE), d) /\ Logged(Continue(s, FALSE), d) BY LoggedContinue
<1>6. Logged(MaintainLease(s), d) BY <1>4, <1>5 DEF MaintainLease
<1> QED BY <1>3, <1>4, <1>5, <1>6 DEF MaintainPeer, u

LEMMA LoggedFinishReset ==
  ASSUME NEW d, NEW s, Logged(s, d), s.queue # <<>>
  PROVE  Logged(FinishReset(s), d)
<1> DEFINE u == [s EXCEPT !.phase = "left"]
           v == [s EXCEPT !.phase = "joined", !.leaveRequested = FALSE]
<1>1. /\ u \in PeerState /\ u.queue = s.queue /\ u.acked = s.acked
      /\ v \in PeerState /\ v.queue = s.queue /\ v.acked = s.acked
  BY DEF Logged, PeerState, Phases
<1> HIDE DEF u, v
<1>2. Logged(Continue(u, FALSE), d) /\ Logged(Continue(v, FALSE), d)
  BY <1>1, LoggedSame, LoggedContinue
<1> QED BY <1>2 DEF FinishReset, u, v

LEMMA LoggedReset ==
  ASSUME NEW d, NEW s, Logged(s, d), s.queue # <<>>
  PROVE  Logged(EndSession(s), d) /\ Logged(ReleaseLease(s), d)
<1> DEFINE u == [s EXCEPT !.session = "none", !.authDue = FALSE, !.leaseDue = FALSE]
           v == [s EXCEPT !.lease = FALSE]
<1>1. /\ u \in PeerState /\ u.queue = s.queue /\ u.acked = s.acked
      /\ v \in PeerState /\ v.queue = s.queue /\ v.acked = s.acked
  BY DEF Logged, PeerState, Sessions
<1> HIDE DEF u, v
<1>2. Logged(Goto(u, "session-end"), d) /\ Logged(Goto(v, "lease-release"), d)
  BY <1>1, LoggedSame, LoggedGoto DEF Points
<1>3. Logged(EndSession(s), d) BY <1>2, LoggedFinishReset DEF EndSession, u
<1> QED BY <1>2, <1>3 DEF ReleaseLease, v

LEMMA LoggedStartReset ==
  ASSUME NEW d, NEW s, Logged(s, d), s.queue # <<>>, NEW remove \in BOOLEAN
  PROVE  Logged(StartReset(s, remove), d)
<1> DEFINE j == [s.queue[1] EXCEPT !.remove = remove]
           r == [s.queue EXCEPT ![1] = j]
           w == [s EXCEPT !.queue = r]
           quiet == [s EXCEPT !.authTimer = FALSE, !.leaseTimer = FALSE,
                              !.authPromise = FALSE, !.queue = r]
           u == [quiet EXCEPT !.fanoutRetained = FALSE]
<1>1. s \in PeerState /\ s.queue[1] \in Job /\ 1 \in DOMAIN s.queue BY HeadIsJob DEF Logged
<1>2. /\ j \in Job /\ j.next = s.queue[1].next /\ j.data = s.queue[1].data
      /\ j.at = s.queue[1].at
  BY <1>1 DEF Job
<1>3. StartReset(s, remove) = IF s.fanoutRetained THEN Goto(u, "release-lock") ELSE ReleaseLease(quiet)
  BY <1>1 DEF StartReset
<1> HIDE DEF j
<1>4. Rewritten(s, j, w) BY <1>1, <1>2, SetHead
<1>5. Logged(w, d) /\ w.queue # <<>>
  <2>1. Publishes(j) => j.data \subseteq d BY <1>1, <1>2 DEF Logged, Publishes
  <2> HIDE DEF r, w
  <2> QED BY <1>4, <2>1, LoggedRewritten
<1>6. w \in PeerState /\ w.queue = r /\ w.acked = s.acked BY <1>1, <1>5 DEF Logged, PeerState
<1> HIDE DEF r, w
<1>7. r \in Seq(Job) BY <1>6 DEF PeerState
<1>8. quiet \in PeerState /\ quiet.queue = r /\ quiet.acked = s.acked BY <1>1, <1>7 DEF PeerState
<1> HIDE DEF quiet
<1>9. u \in PeerState /\ u.queue = r /\ u.acked = s.acked BY <1>8 DEF PeerState
<1> HIDE DEF u
<1>10. Logged(quiet, d) /\ Logged(u, d) BY <1>5, <1>6, <1>8, <1>9, LoggedSame
<1>11. quiet.queue # <<>> /\ u.queue # <<>> BY <1>5, <1>6, <1>8, <1>9
<1>12. Logged(Goto(u, "release-lock"), d) /\ Logged(ReleaseLease(quiet), d)
  BY <1>10, <1>11, LoggedGoto, LoggedReset DEF Points
<1> QED BY <1>3, <1>12

LEMMA LoggedExpel ==
  ASSUME NEW d, NEW s, Logged(s, d)
  PROVE  Logged(Expel(s), d) /\ Logged(Terminate(s), d)
<1> DEFINE u(q) == ClosePeer([q EXCEPT !.leaveRequested = TRUE])
           v == [s EXCEPT !.authTimer = FALSE, !.leaseTimer = FALSE]
<1>1. ASSUME NEW q, Logged(q, d) PROVE Logged(Expel(q), d)
  <2>1. Logged(u(q), d) BY <1>1, LoggedArms
  <2> QED BY <2>1, LoggedEnqueue DEF Expel, EnqueueReset
<1>2. v \in PeerState /\ v.queue = s.queue /\ v.acked = s.acked BY DEF Logged, PeerState
<1> HIDE DEF v
<1>3. Logged(v, d) BY <1>2, LoggedSame
<1> QED BY <1>1, <1>3 DEF Terminate, v

LEMMA LoggedAuthenticated ==
  ASSUME NEW d, NEW s, Logged(s, d), s.queue # <<>>
  PROVE  Logged(Authenticated(s), d)
<1> DEFINE u == [s EXCEPT !.phase = "authenticated"]
<1>1. u \in PeerState /\ u.queue = s.queue /\ u.acked = s.acked BY DEF Logged, PeerState, Phases
<1> HIDE DEF u
<1>2. Logged(u, d) BY <1>1, LoggedSame
<1>3. Logged(ArmAuth(u), d) /\ ArmAuth(u).queue = u.queue BY <1>2, LoggedArms
<1>4. Logged(ArmLease(ArmAuth(u)), d) /\ ArmLease(ArmAuth(u)).queue = u.queue BY <1>3, LoggedArms
<1>5. Logged(Done(ArmLease(ArmAuth(u))), d) BY <1>1, <1>4, LoggedDone
<1> QED BY <1>5 DEF Authenticated, u

\* The step of p leaves it with nothing but what is in d.
LogsOne(p, d) == \E t : Becomes(p, t) /\ Logged(t, d)

LEMMA LogIs == ASSUME RoomInv, LogOK PROVE \A p \in Peer : Logged(peer[p], durable)
BY DEF RoomInv, ShapeOK, LogOK, Logged

\* What is in the store stays there.
LEMMA LoggedGrows == ASSUME NEW s, NEW d, NEW e, Logged(s, d), d \subseteq e PROVE Logged(s, e)
BY DEF Logged

LEMMA LogByOne ==
  ASSUME RoomInv, LogOK, NEW p \in Peer, LogsOne(p, durable'), durable \subseteq durable',
         committed' \subseteq durable', lost' \subseteq durable',
         inflight' \subseteq [to : live', batch : durable']
  PROVE  LogOK'
<1>1. PICK t : Becomes(p, t) /\ Logged(t, durable') BY DEF LogsOne
<1>2. peer \in [Peer -> PeerState] BY DEF RoomInv, ShapeOK
<1>3. \A q \in Peer : Logged(peer'[q], durable')
  BY <1>1, <1>2, LogIs, LoggedGrows DEF Becomes
<1> QED BY <1>3 DEF LogOK, Logged

\* What was on its way still goes to a subscription that is alive.
LEMMA LogStill ==
  ASSUME RoomInv, LogOK, NEW p \in Peer, LogsOne(p, durable), UNCHANGED logVars, live \subseteq live'
  PROVE  LogOK'
BY LogByOne DEF LogOK, logVars

LEMMA LogDrops ==
  ASSUME RoomInv, LogOK, Dropped(subscription)
  PROVE  /\ UNCHANGED <<durable, committed, lost>>
         /\ inflight' \subseteq [to : live', batch : durable']
BY DEF LogOK, Dropped

LEMMA ResetsLog ==
  ASSUME NEW d, NEW p \in Peer, NEW s, Logged(s, d), s.queue # <<>>, NEW remove \in BOOLEAN,
         NEW lock, Resets(p, s, remove, lock)
  PROVE  LogsOne(p, d)
BY LoggedStartReset DEF Resets, LogsOne

LEMMA FailSetupLog ==
  ASSUME RoomInv, NEW d, NEW p \in Peer, NEW s, Logged(s, d), s.queue # <<>>,
         NEW lock, FailSetup(p, s, lock)
  PROVE  LogsOne(p, d)
<1> DEFINE v == [s EXCEPT !.leaveRequested = TRUE]
           u == ClosePeer(v)
<1>1. Logged(v, d) /\ v.queue = s.queue BY LoggedArms
<1> HIDE DEF v
<1>2. Logged(u, d) /\ u.queue # <<>> BY <1>1, LoggedArms
<1>3. s \in PeerState BY DEF Logged
<1>4. Leaving(s) \in BOOLEAN BY <1>3 DEF Leaving, PeerState
<1> HIDE DEF u
<1>5. ASSUME Resets(p, u, TRUE, lock) PROVE LogsOne(p, d) BY <1>2, <1>5, ResetsLog
<1>6. ASSUME Resets(p, s, Leaving(s), lock) PROVE LogsOne(p, d) BY <1>4, <1>6, ResetsLog
<1> QED BY <1>5, <1>6 DEF FailSetup, u, v

LEMMA RetainedLog ==
  ASSUME RoomInv, NEW d, NEW p \in Peer, Logged(peer[p], d), peer[p].queue # <<>>, Retained(p)
  PROVE  LogsOne(p, d)
<1> DEFINE s == [peer[p] EXCEPT !.fanoutRetained = TRUE]
<1>1. s \in PeerState /\ s.queue = peer[p].queue /\ s.acked = peer[p].acked
  BY DEF Logged, PeerState
<1>2. \/ Resets(p, s, TRUE, Tail(fanoutQueue))
      \/ Becomes(p, Authenticated(s))
      \/ \E role \in Sessions \ {"none"} : Becomes(p, Goto([s EXCEPT !.session = role], "ready"))
  BY DEF Retained
<1> HIDE DEF s
<1>3. Logged(s, d) /\ s.queue # <<>> BY <1>1, LoggedSame
<1>4. CASE Resets(p, s, TRUE, Tail(fanoutQueue)) BY <1>3, <1>4, ResetsLog
<1>5. CASE Becomes(p, Authenticated(s)) BY <1>3, <1>5, LoggedAuthenticated DEF LogsOne
<1>6. CASE \E role \in Sessions \ {"none"} : Becomes(p, Goto([s EXCEPT !.session = role], "ready"))
  <2>1. PICK role \in Sessions : Becomes(p, Goto([s EXCEPT !.session = role], "ready")) BY <1>6
  <2> DEFINE u == [s EXCEPT !.session = role]
  <2>2. Logged(u, d) /\ u.queue # <<>> BY <1>3, LoggedArms
  <2> HIDE DEF u
  <2>3. Logged(Goto(u, "ready"), d) BY <2>2, LoggedGoto DEF Points
  <2> QED BY <2>1, <2>3 DEF LogsOne, u
<1> QED BY <1>2, <1>4, <1>5, <1>6

-----------------------------------------------------------------------------
(* One step of each action.                                                *)

LEMMA HostCallsLog ==
  ASSUME RoomInv, LogOK, NEW p \in Peer,
         Join(p) \/ ReceiveAuth(p) \/ Resume(p) \/ Leave(p) \/ Expires(p) \/ AuthTimer(p) \/ LeaseTimer(p)
  PROVE  LogOK'
<1> DEFINE s == peer[p]
<1>1. Logged(s, durable) /\ s \in PeerState BY LogIs DEF Logged
<1>2. ASSUME NEW t \in PeerState, t.queue = s.queue, t.acked = s.acked PROVE Logged(t, durable)
  BY <1>1, <1>2, LoggedSame
<1>3. ASSUME NEW t, Logged(t, durable), Becomes(p, t), UNCHANGED <<logVars, live>> PROVE LogOK'
  BY <1>3, LogStill DEF LogsOne
<1>4. CASE Join(p)
  <2>1. NewPeer(s) \in PeerState /\ NewPeer(s).queue = s.queue /\ NewPeer(s).acked = s.acked
    BY <1>1 DEF NewPeer, PeerState, Phases
  <2>2. Logged(NewPeer(s), durable) /\ Logged(ClosePeer(s), durable) BY <1>1, <1>2, <2>1, LoggedArms
  <2> QED BY <1>3, <1>4, <2>2 DEF Join, serviceVars
<1>5. CASE ReceiveAuth(p) \/ Resume(p)
  <2> DEFINE u == [s EXCEPT !.phase = "authenticating"]
  <2>1. u \in PeerState /\ u.queue = s.queue /\ u.acked = s.acked BY <1>1 DEF PeerState, Phases
  <2>2. Logged(u, durable) BY <1>2, <2>1
  <2> HIDE DEF u
  <2>3. /\ Logged(Enqueue(u, "auth", "authorize", "end", {}), durable)
        /\ Logged(Enqueue(u, "resume", "start", "end", {}), durable)
        /\ Logged(Expel(s), durable)
    BY <1>1, <2>2, LoggedEnqueue, LoggedExpel
  <2> QED BY <1>3, <1>5, <2>3 DEF ReceiveAuth, Resume, serviceVars, u
<1>6. CASE Leave(p)
  <2>1. PICK open \in BOOLEAN :
          Becomes(p, EnqueueReset([s EXCEPT !.leaveRequested = TRUE, !.released = TRUE, !.open = open]))
    BY <1>6 DEF Leave
  <2> DEFINE u == [s EXCEPT !.leaveRequested = TRUE, !.released = TRUE, !.open = open]
  <2>2. u \in PeerState /\ u.queue = s.queue /\ u.acked = s.acked BY <1>1 DEF PeerState
  <2>3. Becomes(p, EnqueueReset(u)) BY <2>1
  <2>4. Logged(u, durable) BY <1>2, <2>2
  <2> HIDE DEF u
  <2>5. Logged(EnqueueReset(u), durable) BY <2>4, LoggedEnqueue DEF EnqueueReset
  <2> QED BY <1>3, <1>6, <2>3, <2>5 DEF Leave, serviceVars
<1>7. CASE Expires(p)
  <2>1. PICK t \in {[s EXCEPT !.authDue = TRUE], [s EXCEPT !.leaseDue = TRUE]} : Becomes(p, t)
    BY <1>7 DEF Expires
  <2>2. t \in PeerState /\ t.queue = s.queue /\ t.acked = s.acked BY <1>1, <2>1 DEF PeerState
  <2>3. Logged(t, durable) BY <1>2, <2>2
  <2> QED BY <1>3, <1>7, <2>1, <2>3 DEF Expires, serviceVars
<1>8. CASE AuthTimer(p)
  <2> DEFINE u == [s EXCEPT !.authTimer = FALSE]
             t == IF Current(u) /\ ~u.authPromise
                  THEN [u EXCEPT !.authPromise = TRUE, !.authCall = TRUE] ELSE u
  <2>1. t \in PeerState /\ t.queue = s.queue /\ t.acked = s.acked BY <1>1 DEF PeerState
  <2>2. Becomes(p, t) BY <1>8 DEF AuthTimer
  <2> HIDE DEF t
  <2> QED BY <1>2, <1>3, <1>8, <2>1, <2>2 DEF AuthTimer, serviceVars
<1>9. CASE LeaseTimer(p)
  <2> DEFINE u == [s EXCEPT !.leaseTimer = FALSE]
             t == IF Current(u) /\ u.lease /\ ~u.leaseCall THEN [u EXCEPT !.leaseCall = TRUE] ELSE u
  <2>1. t \in PeerState /\ t.queue = s.queue /\ t.acked = s.acked BY <1>1 DEF PeerState
  <2>2. Becomes(p, t) BY <1>9 DEF LeaseTimer
  <2> HIDE DEF t
  <2> QED BY <1>2, <1>3, <1>9, <2>1, <2>2 DEF LeaseTimer, serviceVars
<1> QED BY <1>4, <1>5, <1>6, <1>7, <1>8, <1>9

\* Steps of several peers at once.
LEMMA LogByAll ==
  ASSUME RoomInv, LogOK, \A p \in Peer : Logged(peer'[p], durable), UNCHANGED <<durable, committed>>,
         lost' \subseteq durable, inflight' \subseteq inflight, live' = live
  PROVE  LogOK'
BY DEF LogOK, Logged

LEMMA MessagesLog ==
  ASSUME RoomInv, LogOK, (\E p \in Peer : ReceiveMessage(p)) \/ StartMaintenance \/ EndMaintenance
  PROVE  LogOK'
<1>1. ASSUME NEW p \in Peer, NEW request \in Requests
      PROVE  Logged(Enqueue(peer[p], request.kind, "start", "dispatch", request.data), durable)
  BY <1>1, LogIs, HostIs, LoggedEnqueue
<1>2. CASE \E p \in Peer : ReceiveMessage(p)
  <2>1. PICK p \in Peer : ReceiveMessage(p) BY <1>2
  <2>2. UNCHANGED <<logVars, live>> BY <2>1 DEF ReceiveMessage, serviceVars
  <2>3. PICK request \in Requests :
          \/ Becomes(p, Enqueue(peer[p], request.kind, "start", "dispatch", request.data))
          \/ UNCHANGED peer
    BY <2>1 DEF ReceiveMessage
  <2>4. CASE UNCHANGED peer BY <2>2, <2>4 DEF LogOK, logVars
  <2>5. CASE Becomes(p, Enqueue(peer[p], request.kind, "start", "dispatch", request.data))
    BY <1>1, <2>2, <2>5, LogStill DEF LogsOne
  <2> QED BY <2>3, <2>4, <2>5
<1>3. CASE StartMaintenance
  <2> DEFINE due(s) == /\ s.phase = "authenticated" /\ ~s.leaveRequested
                       /\ s.queue = <<>> /\ (s.authDue \/ s.leaseDue)
  <2>1. peer' = [p \in Peer |->
                   IF due(peer[p]) THEN Enqueue(peer[p], "maintain", "start", "end", {})
                                   ELSE peer[p]]
        /\ UNCHANGED <<logVars, live>>
    BY <1>3 DEF StartMaintenance, serviceVars
  <2>2. \A p \in Peer : Logged(peer[p], durable)
                        /\ Logged(Enqueue(peer[p], "maintain", "start", "end", {}), durable)
    BY LogIs, LoggedEnqueue
  <2> HIDE DEF due
  <2>3. \A p \in Peer : Logged(peer'[p], durable) BY <2>1, <2>2
  <2> QED BY <2>1, <2>3, LogByAll DEF LogOK, logVars
<1>4. CASE EndMaintenance
  <2> DEFINE p == Head(maintenance).from
             request == Head(maintenance).request
  <2>1. /\ maintenance # <<>> /\ UNCHANGED <<logVars, live>>
        /\ Becomes(p, Enqueue(peer[p], request.kind, "start", "dispatch", request.data))
    BY <1>4 DEF EndMaintenance, serviceVars
  <2>2. Head(maintenance) = maintenance[1] /\ 1 \in DOMAIN maintenance
    BY <2>1 DEF RoomInv, ShapeOK
  <2>3. p \in Peer /\ request \in Requests BY <2>2, WaitingIs
  <2> HIDE DEF p, request
  <2> QED BY <1>1, <2>1, <2>3, LogStill DEF LogsOne
<1> QED BY <1>2, <1>3, <1>4

LEMMA AnswersLog ==
  ASSUME RoomInv, LogOK, NEW p \in Peer, AuthCallAnswered(p) \/ LeaseCallAnswered(p)
  PROVE  LogOK'
<1>1. Logged(peer[p], durable) /\ peer[p] \in PeerState BY LogIs DEF Logged
<1>2. ASSUME NEW t, Logged(t, durable), Becomes(p, t), UNCHANGED <<logVars, live>> PROVE LogOK'
  BY <1>2, LogStill DEF LogsOne
<1>3. CASE AuthCallAnswered(p)
  <2> DEFINE s == [peer[p] EXCEPT !.authCall = FALSE, !.authPromise = FALSE]
             waits == At(p, "shared-refresh")
  <2>1. s \in PeerState /\ s.queue = peer[p].queue /\ s.acked = peer[p].acked
    BY <1>1 DEF PeerState
  <2>2. UNCHANGED <<logVars, live>> BY <1>3 DEF AuthCallAnswered, serviceVars
  <2>3. waits => s.queue # <<>> BY <2>1 DEF At
  <2>4. \/ \E role \in Sessions \ {"none"} :
              LET t == IF Current(s) THEN ArmAuth([s EXCEPT !.session = role]) ELSE s
              IN  Becomes(p, IF ~waits THEN t
                             ELSE IF Current(t) THEN MaintainLease(t) ELSE Continue(t, FALSE))
        \/ LET t == Terminate(s)
           IN  Becomes(p, IF waits THEN Continue(t, FALSE) ELSE t)
    BY <1>3 DEF AuthCallAnswered
  <2> HIDE DEF s, waits
  <2>5. Logged(s, durable) BY <1>1, <2>1, LoggedSame
  <2>6. ASSUME NEW t, Logged(t, durable), waits => t.queue # <<>>
        PROVE  waits => Logged(MaintainLease(t), durable) /\ Logged(Continue(t, FALSE), durable)
    BY <2>6, LoggedMaintain, LoggedContinue
  <2>7. ASSUME NEW role \in Sessions \ {"none"},
               LET t == IF Current(s) THEN ArmAuth([s EXCEPT !.session = role]) ELSE s
               IN  Becomes(p, IF ~waits THEN t
                              ELSE IF Current(t) THEN MaintainLease(t) ELSE Continue(t, FALSE))
        PROVE  LogOK'
    <3> DEFINE u == [s EXCEPT !.session = role]
               t == IF Current(s) THEN ArmAuth(u) ELSE s
    <3>1. Logged(u, durable) /\ u.queue = s.queue BY <2>5, LoggedArms
    <3>2. Becomes(p, IF ~waits THEN t
                     ELSE IF Current(t) THEN MaintainLease(t) ELSE Continue(t, FALSE))
      BY <2>7
    <3> HIDE DEF u
    <3>3. Logged(t, durable) /\ t.queue = s.queue BY <2>5, <3>1, LoggedArms
    <3> HIDE DEF t
    <3>4. waits => Logged(MaintainLease(t), durable) /\ Logged(Continue(t, FALSE), durable)
      BY <2>3, <2>6, <3>3
    <3> QED BY <1>2, <2>2, <3>2, <3>3, <3>4
  <2>8. ASSUME LET t == Terminate(s) IN Becomes(p, IF waits THEN Continue(t, FALSE) ELSE t)
        PROVE  LogOK'
    <3> DEFINE t == Terminate(s)
    <3>1. Logged(t, durable) BY <2>5, LoggedExpel
    <3>2. PeerOK(peer[p]) BY PeerIs
    <3>3. SameCore(peer[p], [peer[p] EXCEPT !.authCall = FALSE, !.authPromise = FALSE])
      BY <1>1 DEF SameCore, PeerState
    <3>4. PeerOK(s) /\ Pt(s) = Pt(peer[p]) BY <3>2, <3>3, SameCoreKept DEF s
    <3>5. waits => Pt(s) = "shared-refresh" BY <3>4, AtIs DEF waits
    <3>6. Pt(s) # "none" => Pt(t) = Pt(s) BY <3>4, TerminateKept
    <3> HIDE DEF t
    <3>7. waits => t.queue # <<>> BY <3>5, <3>6 DEF Pt
    <3>8. waits => Logged(Continue(t, FALSE), durable) BY <2>6, <3>1, <3>7
    <3> QED BY <1>2, <2>2, <2>8, <3>1, <3>8 DEF t
  <2> QED BY <2>4, <2>7, <2>8
<1>4. CASE LeaseCallAnswered(p)
  <2> DEFINE s == [peer[p] EXCEPT !.leaseCall = FALSE]
  <2>1. s \in PeerState /\ s.queue = peer[p].queue /\ s.acked = peer[p].acked
    BY <1>1 DEF PeerState
  <2>2. UNCHANGED <<logVars, live>> BY <1>4 DEF LeaseCallAnswered, serviceVars
  <2>3. \/ Becomes(p, IF Current(s) THEN ArmLease(s) ELSE s)
        \/ Becomes(p, Terminate(s))
    BY <1>4 DEF LeaseCallAnswered
  <2> HIDE DEF s
  <2>4. Logged(s, durable) BY <1>1, <2>1, LoggedSame
  <2>5. Logged(ArmLease(s), durable) /\ Logged(Terminate(s), durable)
    BY <2>4, LoggedArms, LoggedExpel
  <2> QED BY <1>2, <2>2, <2>3, <2>4, <2>5
<1> QED BY <1>3, <1>4

LEMMA StartJobLog == ASSUME RoomInv, LogOK, NEW p \in Peer, StartJob(p) PROVE LogOK'
<1> DEFINE s == peer[p]
<1>1. Logged(s, durable) /\ s.queue # <<>> BY LogIs, AtIs DEF StartJob
<1>2. UNCHANGED <<logVars, live>> BY DEF StartJob
<1>3. \/ Resets(p, s, TRUE, fanoutQueue)
      \/ \E role \in Sessions \ {"none"} : Becomes(p, Goto([s EXCEPT !.session = role], "recheck"))
      \/ Becomes(p, MaintainPeer(s))
      \/ Becomes(p, Continue(s, s.phase = "authenticated" /\ ~s.leaveRequested))
  BY DEF StartJob
<1>4. LogsOne(p, durable)
  <2>1. CASE Resets(p, s, TRUE, fanoutQueue) BY <1>1, <2>1, ResetsLog
  <2>2. CASE \E role \in Sessions \ {"none"} : Becomes(p, Goto([s EXCEPT !.session = role], "recheck"))
    <3>1. PICK role \in Sessions : Becomes(p, Goto([s EXCEPT !.session = role], "recheck")) BY <2>2
    <3> DEFINE u == [s EXCEPT !.session = role]
    <3>2. Logged(u, durable) /\ u.queue # <<>> BY <1>1, LoggedArms
    <3> HIDE DEF u
    <3>3. Logged(Goto(u, "recheck"), durable) BY <3>2, LoggedGoto DEF Points
    <3> QED BY <3>1, <3>3 DEF LogsOne, u
  <2>3. CASE Becomes(p, MaintainPeer(s)) BY <1>1, <2>3, LoggedMaintain DEF LogsOne
  <2>4. CASE Becomes(p, Continue(s, s.phase = "authenticated" /\ ~s.leaveRequested))
    <3>1. (s.phase = "authenticated" /\ ~s.leaveRequested) \in BOOLEAN
      BY <1>1 DEF Logged, PeerState
    <3>2. Logged(Continue(s, s.phase = "authenticated" /\ ~s.leaveRequested), durable)
      BY <1>1, <3>1, LoggedContinue
    <3> QED BY <2>4, <3>2 DEF LogsOne
  <2> QED BY <1>3, <2>1, <2>2, <2>3, <2>4
<1> QED BY <1>2, <1>4, LogStill

LEMMA AuthorizedLog == ASSUME RoomInv, LogOK, NEW p \in Peer, Authorized(p) PROVE LogOK'
<1> DEFINE s == peer[p]
<1>1. Logged(s, durable) /\ s.queue # <<>> BY LogIs, AtIs DEF Authorized
<1>2. UNCHANGED <<logVars, live>> BY DEF Authorized, serviceVars
<1>3. Logged(ClosePeer(s), durable) /\ ClosePeer(s).queue # <<>> BY <1>1, LoggedArms
<1>4. LogsOne(p, durable)
  <2>1. CASE FailSetup(p, s, fanoutQueue) BY <1>1, <2>1, FailSetupLog
  <2>2. CASE Resets(p, s, TRUE, fanoutQueue) BY <1>1, <2>2, ResetsLog
  <2>3. CASE Becomes(p, Goto(s, "acquire"))
    <3>1. Logged(Goto(s, "acquire"), durable) BY <1>1, LoggedGoto DEF Points
    <3> QED BY <2>3, <3>1 DEF LogsOne
  <2>4. CASE Resets(p, ClosePeer(s), TRUE, fanoutQueue) BY <1>3, <2>4, ResetsLog
  <2> QED BY <2>1, <2>2, <2>3, <2>4 DEF Authorized
<1> QED BY <1>2, <1>4, LogStill

LEMMA RecheckedLog == ASSUME RoomInv, LogOK, NEW p \in Peer, Rechecked(p) PROVE LogOK'
<1> DEFINE s == peer[p]
<1>1. Logged(s, durable) /\ s.queue # <<>> BY LogIs, AtIs DEF Rechecked
<1>2. UNCHANGED <<logVars, live>> BY DEF Rechecked, serviceVars
<1>3. LogsOne(p, durable)
  <2>1. CASE FailSetup(p, s, fanoutQueue) BY <1>1, <2>1, FailSetupLog
  <2>2. CASE Resets(p, s, TRUE, fanoutQueue) BY <1>1, <2>2, ResetsLog
  <2>3. CASE \E role \in Sessions \ {"none"} : Becomes(p, Goto([s EXCEPT !.session = role], "acquire"))
    <3>1. PICK role \in Sessions : Becomes(p, Goto([s EXCEPT !.session = role], "acquire")) BY <2>3
    <3> DEFINE u == [s EXCEPT !.session = role]
    <3>2. Logged(u, durable) /\ u.queue # <<>> BY <1>1, LoggedArms
    <3> HIDE DEF u
    <3>3. Logged(Goto(u, "acquire"), durable) BY <3>2, LoggedGoto DEF Points
    <3> QED BY <3>1, <3>3 DEF LogsOne, u
  <2> QED BY <2>1, <2>2, <2>3 DEF Rechecked
<1> QED BY <1>2, <1>3, LogStill

LEMMA AcquiredLog == ASSUME RoomInv, LogOK, NEW p \in Peer, Acquired(p) PROVE LogOK'
<1> DEFINE s == peer[p]
           u == [s EXCEPT !.lease = TRUE]
<1>1. Logged(s, durable) /\ s.queue # <<>> BY LogIs, AtIs DEF Acquired
<1>2. UNCHANGED <<logVars, live>> BY DEF Acquired
<1>3. Logged(ClosePeer(s), durable) /\ ClosePeer(s).queue # <<>> BY <1>1, LoggedArms
<1>4. u \in PeerState /\ u.queue = s.queue /\ u.acked = s.acked BY <1>1 DEF Logged, PeerState
<1>5. \/ FailSetup(p, s, fanoutQueue)
      \/ Resets(p, ClosePeer(s), TRUE, fanoutQueue)
      \/ Resets(p, u, TRUE, fanoutQueue)
      \/ Becomes(p, Goto(u, "fanout-lock"))
  BY DEF Acquired
<1> HIDE DEF u
<1>6. Logged(u, durable) /\ u.queue # <<>> BY <1>1, <1>4, LoggedSame
<1>7. LogsOne(p, durable)
  <2>1. CASE FailSetup(p, s, fanoutQueue) BY <1>1, <2>1, FailSetupLog
  <2>2. CASE Resets(p, ClosePeer(s), TRUE, fanoutQueue) BY <1>3, <2>2, ResetsLog
  <2>3. CASE Resets(p, u, TRUE, fanoutQueue) BY <1>6, <2>3, ResetsLog
  <2>4. CASE Becomes(p, Goto(u, "fanout-lock"))
    <3>1. Logged(Goto(u, "fanout-lock"), durable) BY <1>6, LoggedGoto DEF Points
    <3> QED BY <2>4, <3>1 DEF LogsOne
  <2> QED BY <1>5, <2>1, <2>2, <2>3, <2>4
<1> QED BY <1>2, <1>7, LogStill

LEMMA RetainFanoutLog == ASSUME RoomInv, LogOK, NEW p \in Peer, RetainFanout(p) PROVE LogOK'
<1> DEFINE s == peer[p]
<1>1. Logged(s, durable) /\ s.queue # <<>> BY LogIs, AtIs DEF RetainFanout
<1>2. UNCHANGED <<logVars, live>> BY DEF RetainFanout
<1>3. LogsOne(p, durable)
  <2>1. CASE Retained(p) BY <1>1, <2>1, RetainedLog
  <2>2. CASE Becomes(p, Goto(s, IF subscription = None THEN "subscribe" ELSE "drop-stale"))
    <3>1. Logged(Goto(s, "subscribe"), durable) /\ Logged(Goto(s, "drop-stale"), durable)
      BY <1>1, LoggedGoto DEF Points
    <3> QED BY <2>2, <3>1 DEF LogsOne
  <2> QED BY <2>1, <2>2 DEF RetainFanout
<1> QED BY <1>2, <1>3, LogStill

LEMMA StaleDroppedLog == ASSUME RoomInv, LogOK, NEW p \in Peer, StaleDropped(p) PROVE LogOK'
<1> DEFINE s == peer[p]
<1>1. Logged(s, durable) /\ s.queue # <<>> BY LogIs, AtIs DEF StaleDropped
<1>2. CASE Dropped(subscription) /\ Becomes(p, Goto(s, "subscribe"))
  <2>1. Logged(Goto(s, "subscribe"), durable) BY <1>1, LoggedGoto DEF Points
  <2>2. UNCHANGED <<durable, committed, lost>> /\ inflight' \subseteq [to : live', batch : durable']
    BY <1>2, LogDrops
  <2> QED BY <1>2, <2>1, <2>2, LogByOne DEF LogsOne, LogOK
<1>3. CASE FailSetup(p, s, Tail(fanoutQueue)) /\ UNCHANGED <<live, subscription, logVars>>
  BY <1>1, <1>3, FailSetupLog, LogStill
<1> QED BY <1>2, <1>3 DEF StaleDropped

LEMMA SubscribedLog == ASSUME RoomInv, LogOK, NEW p \in Peer, Subscribed(p) PROVE LogOK'
<1>1. Logged(peer[p], durable) /\ peer[p].queue # <<>> BY LogIs, AtIs DEF Subscribed
<1>2. UNCHANGED logVars /\ live \subseteq live' BY DEF Subscribed
<1>3. LogsOne(p, durable) BY <1>1, RetainedLog, FailSetupLog DEF Subscribed
<1> QED BY <1>2, <1>3, LogStill

LEMMA ReadySentLog == ASSUME RoomInv, LogOK, NEW p \in Peer, ReadySent(p) PROVE LogOK'
<1> DEFINE s == peer[p]
<1>1. Logged(s, durable) /\ s.queue # <<>> BY LogIs, AtIs DEF ReadySent
<1>2. UNCHANGED <<logVars, live>> BY DEF ReadySent, serviceVars
<1>3. LogsOne(p, durable)
  <2>1. CASE FailSetup(p, s, fanoutQueue) BY <1>1, <2>1, FailSetupLog
  <2>2. CASE Resets(p, s, TRUE, fanoutQueue) BY <1>1, <2>2, ResetsLog
  <2>3. CASE Becomes(p, Authenticated(s)) BY <1>1, <2>3, LoggedAuthenticated DEF LogsOne
  <2> QED BY <2>1, <2>2, <2>3 DEF ReadySent
<1> QED BY <1>2, <1>3, LogStill

LEMMA ReleasesLog ==
  ASSUME RoomInv, LogOK, NEW p \in Peer,
         ReleaseFanout(p) \/ Unsubscribed(p) \/ LeaseReleased(p) \/ SessionEnded(p)
  PROVE  LogOK'
<1> DEFINE s == peer[p]
<1>1. Logged(s, durable) /\ s.queue # <<>>
  BY LogIs, AtIs DEF ReleaseFanout, Unsubscribed, LeaseReleased, SessionEnded
<1>2. /\ Logged(Goto(s, "unsubscribe"), durable) /\ Logged(ReleaseLease(s), durable)
      /\ Logged(EndSession(s), durable) /\ Logged(FinishReset(s), durable)
  BY <1>1, LoggedGoto, LoggedReset, LoggedFinishReset DEF Points
<1>3. LogsOne(p, durable)
  BY <1>2 DEF LogsOne, ReleaseFanout, Unsubscribed, LeaseReleased, SessionEnded
<1>4. CASE UNCHANGED <<logVars, live>> BY <1>3, <1>4, LogStill
<1>5. CASE Dropped(subscription)
  <2>1. UNCHANGED <<durable, committed, lost>> /\ inflight' \subseteq [to : live', batch : durable']
    BY <1>5, LogDrops
  <2> QED BY <1>3, <2>1, LogByOne DEF LogOK
<1> QED BY <1>4, <1>5 DEF ReleaseFanout, Unsubscribed, LeaseReleased, SessionEnded, serviceVars

LEMMA RefreshesLog ==
  ASSUME RoomInv, LogOK, NEW p \in Peer, Refreshed(p) \/ LeaseRefreshed(p)
  PROVE  LogOK'
<1>1. Logged(peer[p], durable) /\ peer[p] \in PeerState /\ peer[p].queue # <<>>
  BY LogIs, AtIs DEF Logged, Refreshed, LeaseRefreshed
<1>2. UNCHANGED <<logVars, live>> BY DEF Refreshed, LeaseRefreshed, serviceVars
<1>3. CASE Refreshed(p)
  <2> DEFINE s == [peer[p] EXCEPT !.authPromise = FALSE]
  <2>1. s \in PeerState /\ s.queue = peer[p].queue /\ s.acked = peer[p].acked BY <1>1 DEF PeerState
  <2>2. \/ \E role \in Sessions \ {"none"} : Becomes(p, MaintainLease(ArmAuth([s EXCEPT !.session = role])))
        \/ Becomes(p, Continue(s, FALSE))
        \/ Resets(p, ClosePeer(s), TRUE, fanoutQueue)
    BY <1>3 DEF Refreshed
  <2> HIDE DEF s
  <2>3. Logged(s, durable) /\ s.queue # <<>> BY <1>1, <2>1, LoggedSame
  <2>4. LogsOne(p, durable)
    <3>1. CASE \E role \in Sessions \ {"none"} : Becomes(p, MaintainLease(ArmAuth([s EXCEPT !.session = role])))
      <4>1. PICK role \in Sessions : Becomes(p, MaintainLease(ArmAuth([s EXCEPT !.session = role]))) BY <3>1
      <4> DEFINE u == [s EXCEPT !.session = role]
      <4>2. Logged(u, durable) /\ u.queue # <<>> BY <2>3, LoggedArms
      <4> HIDE DEF u
      <4>3. Logged(ArmAuth(u), durable) /\ ArmAuth(u).queue # <<>> BY <4>2, LoggedArms
      <4>4. Logged(MaintainLease(ArmAuth(u)), durable) BY <4>3, LoggedMaintain
      <4> QED BY <4>1, <4>4 DEF LogsOne, u
    <3>2. CASE Becomes(p, Continue(s, FALSE)) BY <2>3, <3>2, LoggedContinue DEF LogsOne
    <3>3. CASE Resets(p, ClosePeer(s), TRUE, fanoutQueue)
      <4>1. Logged(ClosePeer(s), durable) /\ ClosePeer(s).queue # <<>> BY <2>3, LoggedArms
      <4> QED BY <3>3, <4>1, ResetsLog
    <3> QED BY <2>2, <3>1, <3>2, <3>3
  <2> QED BY <1>2, <2>4, LogStill
<1>4. CASE LeaseRefreshed(p)
  <2> DEFINE s == peer[p]
             v == [s EXCEPT !.leaveRequested = TRUE]
  <2>1. \/ Becomes(p, Continue(ArmLease(s), TRUE))
        \/ Becomes(p, Continue(s, FALSE))
        \/ Resets(p, ClosePeer(v), TRUE, fanoutQueue)
    BY <1>4 DEF LeaseRefreshed
  <2>2. /\ Logged(ArmLease(s), durable) /\ ArmLease(s).queue # <<>>
        /\ Logged(v, durable) /\ v.queue # <<>>
    BY <1>1, LoggedArms
  <2> HIDE DEF v
  <2>3. Logged(ClosePeer(v), durable) /\ ClosePeer(v).queue # <<>> BY <2>2, LoggedArms
  <2>4. Logged(Continue(ArmLease(s), TRUE), durable) /\ Logged(Continue(s, FALSE), durable)
    BY <1>1, <2>2, LoggedContinue
  <2>5. ASSUME Resets(p, ClosePeer(v), TRUE, fanoutQueue) PROVE LogsOne(p, durable)
    BY <2>3, <2>5, ResetsLog
  <2>6. LogsOne(p, durable) BY <2>1, <2>4, <2>5 DEF LogsOne
  <2> QED BY <1>2, <2>6, LogStill
<1> QED BY <1>3, <1>4

\* A batch is stored before anything is said about it.
LEMMA AppendedLog == ASSUME RoomInv, LogOK, NEW p \in Peer, Appended(p) PROVE LogOK'
<1> DEFINE s == peer[p]
           data == s.queue[1].data
           d == durable \cup data
           u == Then(s, "publish")
<1>1. /\ Logged(s, durable) /\ s.queue # <<>> /\ Running(s) = s.queue[1] /\ At(p, "append")
  BY LogIs, AtIs DEF Appended
<1>2. UNCHANGED <<live, committed, inflight>> BY DEF Appended, serviceVars
<1>3. Logged(s, d) /\ Logged(Done(s), d) /\ Logged(Done(s), durable)
  BY <1>1, LoggedGrows, LoggedDone
<1>4. CASE durable' = d /\ UNCHANGED lost /\ Becomes(p, AfterStore(u))
  <2>1. Logged(u, d) /\ u.queue # <<>> BY <1>1, <1>3, LoggedThen DEF Continuations
  <2> HIDE DEF u
  <2>2. Logged(MaintainPeer(u), d) /\ Logged(Continue(u, TRUE), d)
    BY <2>1, LoggedMaintain, LoggedContinue
  <2>3. LogsOne(p, durable') BY <1>4, <2>2 DEF AfterStore, LogsOne
  <2> QED BY <1>2, <1>4, <2>3, LogByOne DEF LogOK
<1>5. CASE UNCHANGED <<durable, lost>> /\ Becomes(p, Done(s))
  BY <1>2, <1>3, <1>5, LogByOne DEF LogOK, LogsOne
<1>6. CASE durable' = d /\ lost' = lost \cup (data \ durable) /\ Becomes(p, Done(s))
  BY <1>2, <1>3, <1>6, LogByOne DEF LogOK, LogsOne
<1> QED BY <1>1, <1>4, <1>5, <1>6 DEF Appended

LEMMA PublishedLog == ASSUME RoomInv, LogOK, NEW p \in Peer, Published(p) PROVE LogOK'
<1> DEFINE s == peer[p]
           data == s.queue[1].data
<1>1. /\ Logged(s, durable) /\ s.queue # <<>> /\ Running(s) = s.queue[1]
      /\ s.queue[1].at = "publish" /\ 1 \in DOMAIN s.queue
  BY LogIs, AtIs, PeerIs, HeadIsJob DEF Published, Pt
<1>2. data \subseteq durable BY <1>1 DEF Logged, Publishes
<1>3. LogsOne(p, durable)
  BY <1>1, LoggedDone DEF Published, LogsOne
<1>4. UNCHANGED <<live, durable, committed>> BY DEF Published, serviceVars
<1>5. lost' \subseteq durable /\ inflight' \subseteq [to : live, batch : durable]
  <2>1. CASE Publish(data) /\ UNCHANGED lost BY <1>2, <2>1 DEF Publish, LogOK
  <2>2. CASE lost' = lost \cup data /\ UNCHANGED inflight BY <1>2, <2>2 DEF LogOK
  <2> QED BY <1>1, <2>1, <2>2 DEF Published
<1> QED BY <1>3, <1>4, <1>5, LogByOne DEF LogOK

LEMMA HistoryReadLog == ASSUME RoomInv, LogOK, NEW p \in Peer, HistoryRead(p) PROVE LogOK'
<1> DEFINE s == peer[p]
           u == Then(s, "reply")
           j == [u.queue[1] EXCEPT !.data = durable]
           r == [u.queue EXCEPT ![1] = j]
           t == [u EXCEPT !.queue = r]
<1>1. Logged(s, durable) /\ s.queue # <<>> /\ s.queue[1].at = "read" /\ PeerOK(s)
  BY LogIs, AtIs, PeerIs DEF HistoryRead, Pt
<1>2. UNCHANGED <<logVars, live>> BY DEF HistoryRead, serviceVars
<1>3. Logged(u, durable) /\ u.queue # <<>> BY <1>1, LoggedThen DEF Continuations
<1>4. u.queue[1].at = "read" /\ u.queue[1].next = "reply"
  <2>1. s \in PeerState /\ s.queue[1] \in Job BY <1>1, HeadIsJob DEF Logged
  <2>2. Rewritten(s, [s.queue[1] EXCEPT !.next = "reply"], u)
    BY <1>1, <2>1, ThenIs DEF Continuations
  <2> HIDE DEF u
  <2> QED BY <1>1, <2>1, <2>2 DEF Rewritten, Job
<1>5. \/ Becomes(p, MaintainPeer(t)) \/ Becomes(p, Continue(t, Current(t))) \/ Becomes(p, Done(s))
  <2>1. 1 \in DOMAIN u.queue BY <1>3, HeadIsJob DEF Logged
  <2>2. t = [u EXCEPT !.queue[1].data = durable] BY <2>1
  <2> QED BY <2>2 DEF HistoryRead
<1> HIDE DEF u
<1>6. Logged(t, durable) /\ t.queue # <<>>
  <2>1. u \in PeerState /\ u.queue[1] \in Job BY <1>3, HeadIsJob DEF Logged
  <2>2. durable \subseteq Batch BY DEF RoomInv, ShapeOK
  <2>3. j \in Job /\ j.data = durable BY <2>1, <2>2 DEF Job
  <2> HIDE DEF j
  <2>4. Rewritten(u, j, t) BY <1>3, <2>1, <2>3, SetHead
  <2> HIDE DEF t
  <2> QED BY <1>3, <2>3, <2>4, LoggedRewritten
<1> HIDE DEF t
<1>7. Logged(MaintainPeer(t), durable) /\ Logged(Done(s), durable)
  BY <1>1, <1>6, LoggedMaintain, LoggedDone
<1>8. Current(t) \in BOOLEAN BY <1>6 DEF Current, Logged, PeerState
<1>9. Logged(Continue(t, Current(t)), durable) BY <1>6, <1>8, LoggedContinue
<1>10. LogsOne(p, durable) BY <1>5, <1>7, <1>9 DEF LogsOne
<1> QED BY <1>2, <1>10, LogStill

LEMMA RemoteLog ==
  ASSUME RoomInv, LogOK, RemoteCommit \/ RemotePublish \/ Drop
  PROVE  LogOK'
<1>1. \A p \in Peer : Logged(peer[p], durable) BY LogIs
<1>2. peer' = peer /\ live' = live /\ durable \subseteq durable'
  BY DEF RemoteCommit, RemotePublish, Drop, serviceVars
<1>3. /\ committed' \subseteq durable' /\ lost' \subseteq durable'
      /\ inflight' \subseteq [to : live, batch : durable']
  <2>1. CASE RemoteCommit BY <2>1 DEF RemoteCommit, LogOK
  <2>2. CASE RemotePublish BY <2>2 DEF RemotePublish, Publish, LogOK
  <2>3. CASE Drop BY <2>3 DEF Drop, LogOK
  <2> QED BY <2>1, <2>2, <2>3
<1> QED BY <1>1, <1>2, <1>3, LoggedGrows DEF LogOK, Logged

LEMMA DeliverLog == ASSUME RoomInv, LogOK, Deliver PROVE LogOK'
<1>1. PICK m \in inflight :
        /\ inflight' = inflight \ {m}
        /\ peer' = [p \in Peer |->
             LET s == peer[p]
             IN  CASE ~Current(s) -> s
                   [] Current(s) /\ RefreshMode = "on-message" /\ (s.authDue \/ s.leaseDue) -> Expel(s)
                   [] OTHER -> IF s.open THEN [s EXCEPT !.received = @ \cup {m.batch}] ELSE s]
  BY DEF Deliver
<1>2. m.batch \in Batch BY DEF LogOK, RoomInv, ShapeOK
<1>3. \A p \in Peer : Logged(peer'[p], durable)
  <2> TAKE p \in Peer
  <2> DEFINE s == peer[p]
             u == [s EXCEPT !.received = @ \cup {m.batch}]
  <2>1. Logged(s, durable) BY LogIs
  <2>2. Logged(Expel(s), durable) BY <2>1, LoggedExpel
  <2>3. u \in PeerState /\ u.queue = s.queue /\ u.acked = s.acked
    BY <1>2, <2>1 DEF Logged, PeerState
  <2> HIDE DEF u
  <2>4. Logged(u, durable) BY <2>1, <2>3, LoggedSame
  <2>5. peer'[p] \in {s, Expel(s), u} BY <1>1 DEF u
  <2> QED BY <2>1, <2>2, <2>4, <2>5
<1> QED BY <1>1, <1>3, LogByAll DEF Deliver, serviceVars, LogOK

LEMMA CloseLog == ASSUME RoomInv, LogOK, Close \/ CloseStep PROVE LogOK'
<1>1. CASE Close
  <2> DEFINE u(s) == ClosePeer([s EXCEPT !.leaveRequested = TRUE])
             t(s) == Enqueue(u(s), "close", "start", "end", {})
  <2>1. /\ peer' = [p \in Peer |-> IF InMap(peer[p]) THEN t(peer[p]) ELSE peer[p]]
        /\ UNCHANGED <<logVars, live>>
    BY <1>1 DEF Close, serviceVars
  <2>2. ASSUME NEW p \in Peer PROVE Logged(t(peer[p]), durable) /\ Logged(peer[p], durable)
    <3> DEFINE v == [peer[p] EXCEPT !.leaveRequested = TRUE]
    <3>1. Logged(peer[p], durable) BY LogIs
    <3>2. Logged(v, durable) BY <3>1, LoggedArms
    <3> HIDE DEF v
    <3>3. Logged(ClosePeer(v), durable) BY <3>2, LoggedArms
    <3>4. Logged(Enqueue(ClosePeer(v), "close", "start", "end", {}), durable)
      BY <3>3, LoggedEnqueue
    <3> QED BY <3>1, <3>4 DEF v
  <2> HIDE DEF t
  <2>3. \A p \in Peer : Logged(peer'[p], durable) BY <2>1, <2>2
  <2> QED BY <2>1, <2>3, LogByAll DEF LogOK, logVars
<1>2. CASE CloseDrained \/ CloseFanout
  BY <1>2 DEF CloseDrained, CloseFanout, LogOK, logVars, serviceVars
<1>3. CASE CloseUnsubscribed
  <2>1. CASE Dropped(subscription)
    <3>1. UNCHANGED <<durable, committed, lost, peer>>
          /\ inflight' \subseteq [to : live', batch : durable']
      BY <1>3, <2>1, LogDrops DEF CloseUnsubscribed
    <3> QED BY <3>1 DEF LogOK
  <2>2. CASE UNCHANGED <<live, subscription, logVars>>
    BY <1>3, <2>2 DEF CloseUnsubscribed, LogOK, logVars
  <2> QED BY <1>3, <2>1, <2>2 DEF CloseUnsubscribed
<1> QED BY <1>1, <1>2, <1>3 DEF CloseStep

-----------------------------------------------------------------------------
(* The specification.                                                      *)

\* What the bounds count stays within them.
BoundsOK ==
  /\ host \in Hosts
  /\ messages \in 0 .. host.messages
  /\ faults \in 0 .. host.faults
  /\ expiries \in 0 .. host.expiries

\* The inductive invariant.
Inv == RoomInv /\ LogOK /\ BoundsOK

LEMMA RoomInit == ASSUME Init PROVE Inv
<1>1. \A p \in Peer : peer[p] = NeverJoined BY DEF Init
<1>2. NeverJoined \in PeerState
  BY DEF NeverJoined, PeerState, Phases, Sessions
<1>3. /\ NeverJoined.phase = "absent" /\ NeverJoined.queue = <<>> /\ ~NeverJoined.fanoutRetained
      /\ ~NeverJoined.lease /\ NeverJoined.session = "none" /\ NeverJoined.acked = {}
      /\ Pt(NeverJoined) = "none"
  BY DEF NeverJoined, Pt
<1> HIDE DEF NeverJoined
<1>4. PeerOK(NeverJoined)
  BY <1>2, <1>3 DEF PeerOK, RunOK, QueueOK, PhaseOK, HeldOK, HoldsOK, ResetPoints
<1>5. host \in Hosts /\ host.messages \in Nat /\ host.faults \in Nat /\ host.expiries \in Nat
  BY HostAssumption DEF Init
<1>6. ShapeOK BY <1>1, <1>2, <1>5 DEF Init, ShapeOK
<1>7. PeersOK BY <1>1, <1>4 DEF PeersOK
<1>8. LockOK BY <1>1, <1>3 DEF LockOK, HoldPoints, Init
<1>9. \A p \in Peer : ~Counts(peer[p]) /\ ~HasLease(peer[p]) /\ ~HasSession(peer[p])
  BY <1>1, <1>3 DEF Counts, HasLease, HasSession
<1>10. CountOK
  <2>1. {p \in Peer : Counts(peer[p])} = {} BY <1>9
  <2>2. Cardinality({}) = 0 BY FS_EmptySet
  <2> QED BY <1>9, <2>1, <2>2 DEF CountOK, Init
<1>11. CloseOK BY DEF CloseOK, Late, Init
<1>12. ServicesOK BY <1>9 DEF ServicesOK, Init
<1>13. MaintenanceOK BY DEF MaintenanceOK, Init
<1>14. LogOK BY <1>1, <1>3 DEF LogOK, Init
<1>15. BoundsOK BY <1>5 DEF BoundsOK, Init
<1> QED BY <1>6, <1>7, <1>8, <1>10, <1>11, <1>12, <1>13, <1>14, <1>15 DEF Inv, RoomInv

LEMMA RoomStutters == ASSUME Inv, UNCHANGED vars PROVE Inv'
<1> USE DEF vars, roomVars, serviceVars, logVars, bounds
<1>1. ShapeOK' /\ PeersOK' BY DEF Inv, RoomInv, ShapeOK, PeersOK, Requests
<1>2. LockOK' BY DEF Inv, RoomInv, LockOK, HoldsLock
<1>3. CountOK' BY DEF Inv, RoomInv, CountOK, Late
<1>4. CloseOK' /\ ServicesOK' /\ MaintenanceOK'
  BY DEF Inv, RoomInv, CloseOK, ServicesOK, MaintenanceOK, Late
<1>5. LogOK' /\ BoundsOK' BY DEF Inv, LogOK, BoundsOK
<1> QED BY <1>1, <1>2, <1>3, <1>4, <1>5 DEF Inv, RoomInv

\* Every step counts at most one of them, within its bound.
LEMMA BoundsStep == ASSUME Inv, Next PROVE BoundsOK'
<1>1. host.messages \in Nat /\ host.faults \in Nat /\ host.expiries \in Nat
  BY HostIs DEF Inv
<1>2. ASSUME UNCHANGED bounds PROVE BoundsOK' BY <1>2 DEF Inv, BoundsOK, bounds
<1>3. ASSUME Sends PROVE BoundsOK' BY <1>1, <1>3 DEF Inv, BoundsOK, Sends
<1>4. ASSUME Fails PROVE BoundsOK' BY <1>1, <1>4 DEF Inv, BoundsOK, Fails
<1>5. ASSUME NEW p \in Peer, Expires(p) PROVE BoundsOK'
  BY <1>1, <1>5 DEF Inv, BoundsOK, Expires
<1>6. ASSUME NEW p \in Peer, JobStep(p) PROVE UNCHANGED bounds \/ Fails
  <2> USE DEF Succeeds
  <2>1. CASE StartJob(p) \/ RetainFanout(p) \/ ReleaseFanout(p) \/ LeaseReleased(p) \/ SessionEnded(p)
    BY <2>1 DEF StartJob, RetainFanout, ReleaseFanout, LeaseReleased, SessionEnded
  <2>2. CASE Authorized(p) \/ Rechecked(p) \/ Acquired(p) \/ ReadySent(p)
    BY <2>2 DEF Authorized, Rechecked, Acquired, ReadySent
  <2>3. CASE StaleDropped(p) \/ Subscribed(p) \/ Unsubscribed(p)
    BY <2>3 DEF StaleDropped, Subscribed, Unsubscribed
  <2>4. CASE Refreshed(p) \/ LeaseRefreshed(p) \/ Appended(p) \/ Published(p) \/ HistoryRead(p)
    BY <2>4 DEF Refreshed, LeaseRefreshed, Appended, Published, HistoryRead
  <2> QED BY <1>6, <2>1, <2>2, <2>3, <2>4 DEF JobStep
<1>7. ASSUME NEW p \in Peer,
             Join(p) \/ Leave(p) \/ AuthTimer(p) \/ AuthCallAnswered(p) \/ LeaseTimer(p) \/ LeaseCallAnswered(p)
      PROVE  UNCHANGED bounds
  BY <1>7 DEF Join, Leave, AuthTimer, AuthCallAnswered, LeaseTimer, LeaseCallAnswered
<1>8. ASSUME NEW p \in Peer, ReceiveAuth(p) \/ Resume(p) \/ ReceiveMessage(p) PROVE Sends
  BY <1>8 DEF ReceiveAuth, Resume, ReceiveMessage
<1>9. ASSUME MaintenanceStep \/ Close \/ CloseStep \/ RemoteCommit \/ RemotePublish \/ Deliver \/ Drop
      PROVE  UNCHANGED bounds \/ Fails \/ Sends
  <2>1. CASE MaintenanceStep BY <2>1 DEF MaintenanceStep, StartMaintenance, EndMaintenance
  <2>2. CASE Close \/ CloseStep
    BY <2>2 DEF Close, CloseStep, CloseDrained, CloseFanout, CloseUnsubscribed, Succeeds
  <2>3. CASE RemoteCommit \/ RemotePublish \/ Deliver \/ Drop
    BY <2>3 DEF RemoteCommit, RemotePublish, Deliver, Drop
  <2> QED BY <1>9, <2>1, <2>2, <2>3
<1> QED BY <1>2, <1>3, <1>4, <1>5, <1>6, <1>7, <1>8, <1>9 DEF Next

LEMMA JobStepInv == ASSUME RoomInv, NEW p \in Peer, JobStep(p) PROVE RoomInv'
<1>1. CASE StartJob(p) BY <1>1, StartJobInv
<1>2. CASE Authorized(p) BY <1>2, AuthorizedInv
<1>3. CASE Rechecked(p) BY <1>3, RecheckedInv
<1>4. CASE Acquired(p) BY <1>4, AcquiredInv
<1>5. CASE RetainFanout(p) BY <1>5, RetainFanoutInv
<1>6. CASE StaleDropped(p) BY <1>6, StaleDroppedInv
<1>7. CASE Subscribed(p) BY <1>7, SubscribedInv
<1>8. CASE ReadySent(p) BY <1>8, ReadySentInv
<1>9. CASE Refreshed(p) BY <1>9, RefreshedInv
<1>10. CASE LeaseRefreshed(p) BY <1>10, LeaseRefreshedInv
<1>11. CASE Appended(p) BY <1>11, AppendedInv
<1>12. CASE Published(p) BY <1>12, PublishedInv
<1>13. CASE HistoryRead(p) BY <1>13, HistoryReadInv
<1>14. CASE ReleaseFanout(p) BY <1>14, ReleaseFanoutInv
<1>15. CASE Unsubscribed(p) BY <1>15, UnsubscribedInv
<1>16. CASE LeaseReleased(p) BY <1>16, LeaseReleasedInv
<1>17. CASE SessionEnded(p) BY <1>17, SessionEndedInv
<1> QED BY <1>1, <1>2, <1>3, <1>4, <1>5, <1>6, <1>7, <1>8, <1>9, <1>10, <1>11, <1>12, <1>13,
           <1>14, <1>15, <1>16, <1>17 DEF JobStep

LEMMA JobStepLog == ASSUME RoomInv, LogOK, NEW p \in Peer, JobStep(p) PROVE LogOK'
<1>1. CASE StartJob(p) BY <1>1, StartJobLog
<1>2. CASE Authorized(p) BY <1>2, AuthorizedLog
<1>3. CASE Rechecked(p) BY <1>3, RecheckedLog
<1>4. CASE Acquired(p) BY <1>4, AcquiredLog
<1>5. CASE RetainFanout(p) BY <1>5, RetainFanoutLog
<1>6. CASE StaleDropped(p) BY <1>6, StaleDroppedLog
<1>7. CASE Subscribed(p) BY <1>7, SubscribedLog
<1>8. CASE ReadySent(p) BY <1>8, ReadySentLog
<1>9. CASE Refreshed(p) \/ LeaseRefreshed(p) BY <1>9, RefreshesLog
<1>10. CASE Appended(p) BY <1>10, AppendedLog
<1>11. CASE Published(p) BY <1>11, PublishedLog
<1>12. CASE HistoryRead(p) BY <1>12, HistoryReadLog
<1>13. CASE ReleaseFanout(p) \/ Unsubscribed(p) \/ LeaseReleased(p) \/ SessionEnded(p)
  BY <1>13, ReleasesLog
<1> QED BY <1>1, <1>2, <1>3, <1>4, <1>5, <1>6, <1>7, <1>8, <1>9, <1>10, <1>11, <1>12, <1>13
        DEF JobStep

LEMMA RoomNext == ASSUME Inv, Next PROVE Inv'
<1> USE DEF Inv
<1>1. BoundsOK' BY BoundsStep
<1>2. ASSUME NEW p \in Peer,
             Join(p) \/ ReceiveAuth(p) \/ Resume(p) \/ Leave(p) \/ Expires(p) \/ AuthTimer(p) \/ LeaseTimer(p)
      PROVE  RoomInv' /\ LogOK'
  BY <1>2, JoinInv, ReceiveAuthInv, ResumeInv, LeaveInv, ExpiresInv, AuthTimerInv, LeaseTimerInv,
     HostCallsLog
<1>3. ASSUME NEW p \in Peer, ReceiveMessage(p) PROVE RoomInv' /\ LogOK'
  BY <1>3, ReceiveMessageInv, MessagesLog
<1>4. ASSUME NEW p \in Peer, JobStep(p) PROVE RoomInv' /\ LogOK'
  BY <1>4, JobStepInv, JobStepLog
<1>5. ASSUME NEW p \in Peer, AuthCallAnswered(p) \/ LeaseCallAnswered(p) PROVE RoomInv' /\ LogOK'
  BY <1>5, AuthCallAnsweredInv, LeaseCallAnsweredInv, AnswersLog
<1>6. ASSUME MaintenanceStep PROVE RoomInv' /\ LogOK'
  BY <1>6, StartMaintenanceInv, EndMaintenanceInv, MessagesLog DEF MaintenanceStep
<1>7. ASSUME Close \/ CloseStep PROVE RoomInv' /\ LogOK'
  BY <1>7, CloseInv, CloseDrainedInv, CloseFanoutInv, CloseUnsubscribedInv, CloseLog DEF CloseStep
<1>8. ASSUME RemoteCommit \/ RemotePublish \/ Drop PROVE RoomInv' /\ LogOK'
  BY <1>8, RemoteInv, RemoteLog
<1>9. ASSUME Deliver PROVE RoomInv' /\ LogOK'
  BY <1>9, DeliverInv, DeliverLog
<1> QED BY <1>1, <1>2, <1>3, <1>4, <1>5, <1>6, <1>7, <1>8, <1>9 DEF Next

\* The inductive invariant holds in every state of the room.
LEMMA RoomAlways == Spec => []Inv
<1>1. Init => Inv BY RoomInit
<1>2. Inv /\ [Next]_vars => Inv' BY RoomNext, RoomStutters
<1> QED BY <1>1, <1>2, PTL DEF Spec

\* The state of the room and of its services is well formed, and a batch that
\* is acknowledged, published or lost has been stored: "a failed append must
\* never be acknowledged or published" (document-room.ts:130).
THEOREM RoomTypeOK == Spec => []TypeOK
<1>1. Inv => TypeOK BY DEF Inv, RoomInv, ShapeOK, CountOK, ServicesOK, LogOK, BoundsOK, TypeOK
<1> QED BY <1>1, RoomAlways, PTL

\* The count of the room's fan-out is right and at most one subscription is
\* alive, the one the room knows, through every race of setup, removal, failure
\* and close (document-room-implementation.ts:1200-1293).
THEOREM RoomFanoutCounted == Spec => []FanoutCounted
<1>1. ASSUME Inv PROVE FanoutCounted
  <2>1. \A p \in Peer : Counts(peer[p]) <=> peer[p].fanoutRetained \/ At(p, "release-lock")
    <3> TAKE p \in Peer
    <3>1. peer[p] \in PeerState BY <1>1, PeerIs DEF Inv
    <3>2. Pt(peer[p]) = "release-lock" <=> At(p, "release-lock")
      BY <3>1, HeadIsJob DEF Pt, At
    <3> QED BY <3>2 DEF Counts
  <2>2. {p \in Peer : Counts(peer[p])} = {p \in Peer : peer[p].fanoutRetained \/ At(p, "release-lock")}
    BY <2>1
  <2>3. closing \in {"open", "draining"} =>
          retainers = Cardinality({p \in Peer : peer[p].fanoutRetained \/ At(p, "release-lock")})
    BY <1>1, <2>2 DEF Inv, RoomInv, CountOK, Late
  <2>4. live = {subscription} \ {None} BY <1>1 DEF Inv, RoomInv, CountOK
  <2>5. (\E p \in Peer : peer[p].fanoutRetained) => subscription # None
    BY <1>1 DEF Inv, RoomInv, CountOK, Counts
  <2> QED BY <2>3, <2>4, <2>5 DEF FanoutCounted
<1> QED BY <1>1, RoomAlways, PTL

\* A peer that has left holds nothing at any service, and a closed room has
\* nothing left but what could not be unsubscribed (document-room.ts:126-150).
THEOREM RoomNothingLeaks == Spec => []NothingLeaks
<1>1. ASSUME Inv PROVE NothingLeaks
  <2>1. \A p \in Peer : ~InMap(peer[p]) =>
          ~peer[p].fanoutRetained /\ ~HasLease(peer[p]) /\ ~HasSession(peer[p])
    <3> TAKE p \in Peer
    <3>1. PeerOK(peer[p]) BY <1>1, PeerIs DEF Inv
    <3> QED BY <3>1 DEF PeerOK, RunOK, PhaseOK, HeldOK, HoldsOK, HasLease, HasSession, InMap, ResetPoints
  <2>2. \A p \in Peer : ~InMap(peer[p]) => p \notin leases \cup sessions /\ ~peer[p].fanoutRetained
    BY <1>1, <2>1 DEF Inv, RoomInv, ServicesOK
  <2>3. closing = "closed" => leases \cup sessions = {}
    <3>1. closing = "closed" => \A p \in Peer : ~InMap(peer[p])
      BY <1>1 DEF Inv, RoomInv, CloseOK, Late
    <3> QED BY <1>1, <2>2, <3>1 DEF Inv, RoomInv, ServicesOK
  <2>4. closing = "closed" /\ live # {} => faults > 0 BY <1>1 DEF Inv, RoomInv, CountOK
  <2> QED BY <2>2, <2>3, <2>4 DEF NothingLeaks
<1> QED BY <1>1, RoomAlways, PTL


-----------------------------------------------------------------------------
(* The invariant of one session.                                           *)

Background == RefreshMode = "background"

Kinds(s) == {s.queue[i].kind : i \in DOMAIN s.queue}
Removals == {"reset", "close"}

\* Points of setup at which the peer has its lease.
LeasePoints == {"fanout-lock", "drop-stale", "subscribe", "ready"}

\* A removal that waits, of a peer that is inside, has told the peer to go.
ToldOK(s) ==
  s.phase \in {"authenticating", "authenticated"} /\ Kinds(s) \cap Removals # {} => s.leaveRequested

\* A refresh that was asked for belongs to a session, or to a closed socket.
PromiseOK(s) ==
  s.authPromise => s.phase = "authenticated" \/ (s.phase = "left" /\ ~s.open)

\* What a session in the background relies on while no refresh is waited for.
Checked(s) ==
  /\ s.lease
  /\ s.authTimer \/ s.authCall
  /\ s.leaseTimer \/ s.leaseCall
  /\ s.authPromise => s.authCall

\* A session whose job may go on.
Steady(s) ==
  /\ ToldOK(s)
  /\ PromiseOK(s)
  /\ Current(s) /\ Background => Checked(s)

\* A peer whose reset may go on.
Going(s) ==
  /\ ToldOK(s)
  /\ PromiseOK(s)
  /\ s.phase = "authenticated" => s.leaveRequested \/ ~s.open
  /\ s.authPromise => ~s.open

\* The one job that asks for a refresh stands in for the timer.
SessionOK(s) ==
  /\ ToldOK(s)
  /\ PromiseOK(s)
  /\ Pt(s) \in ResetPoints /\ s.phase = "authenticated" =>
       /\ s.leaveRequested \/ ~s.open
       /\ s.open => ~s.authPromise
  /\ Pt(s) \in LeasePoints => s.lease
  /\ Current(s) /\ Background /\ Pt(s) \notin ResetPoints =>
       /\ s.lease
       /\ s.authTimer \/ s.authCall \/ Pt(s) = "refresh"
       /\ s.leaseTimer \/ s.leaseCall
       /\ s.authPromise => s.authCall \/ Pt(s) = "refresh"

SessionsOK == \A p \in Peer : SessionOK(peer[p])

LEMMA SteadyIs ==
  ASSUME NEW s, SessionOK(s), Pt(s) \notin ResetPoints \cup {"refresh"}
  PROVE  Steady(s)
BY DEF SessionOK, Steady, Checked

LEMMA SteadyStays ==
  ASSUME NEW s, Steady(s), Pt(s) \notin ResetPoints \cup LeasePoints
  PROVE  SessionOK(s)
BY DEF SessionOK, Steady, Checked

-----------------------------------------------------------------------------
(* What the operators leave of a session.                                  *)

\* Everything that SessionOK is about, but where the job is.
SameSelf(s, t) ==
  /\ t \in PeerState /\ Kinds(t) \subseteq Kinds(s)
  /\ t.phase = s.phase /\ t.leaveRequested = s.leaveRequested /\ t.open = s.open
  /\ t.lease = s.lease /\ t.session = s.session
  /\ t.authTimer = s.authTimer /\ t.authPromise = s.authPromise /\ t.authCall = s.authCall
  /\ t.leaseTimer = s.leaseTimer /\ t.leaseCall = s.leaseCall

LEMMA SteadySelf ==
  ASSUME NEW s, NEW t, Steady(s), SameSelf(s, t)
  PROVE  Steady(t)
BY DEF Steady, SameSelf, ToldOK, PromiseOK, Checked, Current

LEMMA SelfTwice ==
  ASSUME NEW s, NEW t, NEW u, SameSelf(s, t), SameSelf(t, u)
  PROVE  SameSelf(s, u)
BY DEF SameSelf

LEMMA SelfRewritten ==
  ASSUME NEW s \in PeerState, s.queue # <<>>, NEW j, NEW t, Rewritten(s, j, t),
         j.kind = s.queue[1].kind
  PROVE  SameSelf(s, t) /\ t.queue # <<>> /\ t.queue[1] = j
<1>1. t \in PeerState /\ SameRest(s, t) /\ t.queue[1] = j /\ t.queue # <<>> BY DEF Rewritten
<1>2. s.queue \in Seq(Job) /\ 1 \in DOMAIN s.queue BY HeadIsJob
<1>3. \A i \in DOMAIN t.queue : i \in DOMAIN s.queue /\ (i = 1 \/ t.queue[i] = s.queue[i])
  BY <1>2 DEF Rewritten
<1>4. Kinds(t) \subseteq Kinds(s) BY <1>1, <1>2, <1>3 DEF Kinds
<1> QED BY <1>1, <1>4 DEF SameSelf, SameRest

LEMMA SelfGoto ==
  ASSUME NEW s \in PeerState, s.queue # <<>>, NEW point \in Points
  PROVE  SameSelf(s, Goto(s, point)) /\ Pt(Goto(s, point)) = point
<1> DEFINE j == [s.queue[1] EXCEPT !.at = point]
<1>1. s.queue[1] \in Job BY HeadIsJob
<1>2. j.kind = s.queue[1].kind /\ j.at = point BY <1>1 DEF Job
<1>3. Rewritten(s, j, Goto(s, point)) BY GotoIs
<1> HIDE DEF j
<1> QED BY <1>2, <1>3, SelfRewritten DEF Pt

LEMMA SelfThen ==
  ASSUME NEW s \in PeerState, s.queue # <<>>, NEW next \in Continuations
  PROVE  SameSelf(s, Then(s, next)) /\ Then(s, next).queue # <<>> /\ Pt(Then(s, next)) = Pt(s)
<1> DEFINE j == [s.queue[1] EXCEPT !.next = next]
<1>1. s.queue[1] \in Job BY HeadIsJob
<1>2. j.kind = s.queue[1].kind /\ j.at = s.queue[1].at BY <1>1 DEF Job
<1>3. Rewritten(s, j, Then(s, next)) BY ThenIs
<1> HIDE DEF j
<1> QED BY <1>2, <1>3, SelfRewritten DEF Pt

LEMMA SelfDone ==
  ASSUME NEW s \in PeerState, s.queue # <<>>
  PROVE  SameSelf(s, Done(s))
<1> DEFINE r == Tail(s.queue)
<1>1. s.queue \in Seq(Job) BY DEF PeerState
<1>2. r \in Seq(Job) /\ \A i \in DOMAIN r : r[i] = s.queue[i + 1] /\ i + 1 \in DOMAIN s.queue
  BY <1>1
<1>3. Done(s) = [s EXCEPT !.queue = r] BY DEF Done
<1> HIDE DEF r
<1> DEFINE t == [s EXCEPT !.queue = r]
<1>4. t \in PeerState /\ t.queue = r BY <1>2 DEF PeerState
<1>5. SameRest(s, t) BY DEF SameRest, PeerState
<1> HIDE DEF t
<1>6. Kinds(t) \subseteq Kinds(s) BY <1>2, <1>4 DEF Kinds
<1>7. SameSelf(s, t) BY <1>4, <1>5, <1>6 DEF SameSelf, SameRest
<1> QED BY <1>3, <1>7 DEF t

LEMMA SelfDispatch ==
  ASSUME NEW s \in PeerState, s.queue # <<>>
  PROVE  SameSelf(s, Dispatch(s))
<1> DEFINE u == Then(s, "end")
<1>1. SameSelf(s, u) /\ u.queue # <<>> BY SelfThen DEF Continuations
<1> HIDE DEF u
<1>2. SameSelf(u, Goto(u, "read")) /\ SameSelf(u, Goto(u, "append"))
  BY <1>1, SelfGoto DEF SameSelf, Points
<1>3. SameSelf(s, Goto(u, "read")) /\ SameSelf(s, Goto(u, "append")) /\ SameSelf(s, Done(s))
  BY <1>1, <1>2, SelfTwice, SelfDone
<1> QED BY <1>3 DEF Dispatch, u

LEMMA SelfContinue ==
  ASSUME NEW s \in PeerState, s.queue # <<>>, NEW active \in BOOLEAN
  PROVE  SameSelf(s, Continue(s, active))
<1> DEFINE data == s.queue[1].data
           a == [s EXCEPT !.acked = @ \cup data]
           b == [s EXCEPT !.received = @ \cup data, !.repaired = TRUE]
<1>1. s.queue[1] \in Job /\ Running(s) = s.queue[1] BY HeadIsJob
<1>2. data \subseteq Batch /\ s.queue[1].next \in Continuations BY <1>1 DEF Job
<1>3. a \in PeerState /\ b \in PeerState /\ a.queue = s.queue /\ b.queue = s.queue
  BY <1>2 DEF PeerState
<1>4. SameSelf(s, a) /\ SameSelf(s, b) BY <1>2 DEF SameSelf, Kinds, PeerState
<1> HIDE DEF a, b
<1>5. SameSelf(s, s) BY DEF SameSelf
<1>6. \A u \in {s, a, b} : SameSelf(s, Done(u)) /\ SameSelf(s, Goto(u, "publish"))
  BY <1>3, <1>4, <1>5, SelfDone, SelfGoto, SelfTwice DEF Points
<1>7. SameSelf(s, Dispatch(s)) BY SelfDispatch
<1>8. Continue(s, active) \in {Done(s), Dispatch(s), Done(b), Goto(s, "publish"), Goto(a, "publish")}
  BY <1>1, <1>2 DEF Continue, Continuations, a, b
<1> QED BY <1>6, <1>7, <1>8

\* The job of a session goes on, without a refresh or to wait for one.
LEMMA MaintainSession ==
  ASSUME NEW s, Busy(s), Steady(s), NEW active \in BOOLEAN
  PROVE  /\ SessionOK(Continue(s, active)) /\ Continue(s, active).phase = s.phase
         /\ SessionOK(MaintainLease(s)) /\ MaintainLease(s).phase = s.phase
         /\ SessionOK(MaintainPeer(s)) /\ MaintainPeer(s).phase = s.phase
<1>1. s \in PeerState /\ s.queue # <<>> /\ MayEnd(s) BY DEF Busy, MayEnd
<1>2. ASSUME NEW t, SameSelf(s, t), Pt(t) \in CalmPoints PROVE SessionOK(t) /\ t.phase = s.phase
  <2>1. Steady(t) BY <1>2, SteadySelf
  <2> QED BY <1>2, <2>1, SteadyStays DEF CalmPoints, ResetPoints, LeasePoints, SameSelf
<1>3. ASSUME NEW a \in BOOLEAN PROVE SessionOK(Continue(s, a)) /\ Continue(s, a).phase = s.phase
  <2>1. SameSelf(s, Continue(s, a)) BY <1>1, SelfContinue
  <2>2. Calm(s, Continue(s, a)) BY <1>1, ContinueCalm
  <2> QED BY <1>2, <2>1, <2>2 DEF Calm
<1>4. ASSUME NEW point \in {"shared-refresh", "lease-refresh"}
      PROVE  SessionOK(Goto(s, point)) /\ Goto(s, point).phase = s.phase
  <2>1. SameSelf(s, Goto(s, point)) /\ Pt(Goto(s, point)) = point BY <1>1, SelfGoto DEF Points
  <2> QED BY <1>2, <2>1 DEF CalmPoints
<1>5. SessionOK(MaintainLease(s)) /\ MaintainLease(s).phase = s.phase
  BY <1>3, <1>4 DEF MaintainLease
<1> DEFINE u == [s EXCEPT !.authPromise = TRUE]
           t == Goto(u, "refresh")
<1>6. Current(s) => SessionOK(t) /\ t.phase = s.phase
  <2>1. u \in PeerState /\ u.queue = s.queue BY <1>1 DEF PeerState
  <2>2. /\ Kinds(u) = Kinds(s) /\ u.phase = s.phase /\ u.leaveRequested = s.leaveRequested
        /\ u.open = s.open /\ u.lease = s.lease /\ u.session = s.session
        /\ u.leaseTimer = s.leaseTimer /\ u.leaseCall = s.leaseCall
    BY <1>1 DEF PeerState, Kinds
  <2> HIDE DEF u
  <2>3. SameSelf(u, t) /\ Pt(t) = "refresh" BY <1>1, <2>1, SelfGoto DEF Points
  <2> HIDE DEF t
  <2>4. ToldOK(t) BY <2>2, <2>3 DEF ToldOK, SameSelf, Steady
  <2>5. Current(s) => PromiseOK(t) BY <2>2, <2>3 DEF PromiseOK, SameSelf, Current
  <2>6. Current(t) <=> Current(s) BY <2>2, <2>3 DEF Current, SameSelf
  <2> QED BY <2>2, <2>3, <2>4, <2>5, <2>6
          DEF SessionOK, Steady, Checked, SameSelf, ResetPoints, LeasePoints
<1>7. SessionOK(MaintainPeer(s)) /\ MaintainPeer(s).phase = s.phase
  BY <1>3, <1>4, <1>5, <1>6 DEF MaintainPeer
<1> QED BY <1>3, <1>5, <1>7

-----------------------------------------------------------------------------
(* Resets: what is left of a session, from one await to the next.          *)

\* A reset goes on, or it has ended with the peer outside or to try again.
Ends(s, t) == SessionOK(t) /\ t.phase \in {s.phase, "left", "joined"}

LEMMA GoingAt ==
  ASSUME NEW s, PeerOK(s), SessionOK(s), Pt(s) \in ResetPoints
  PROVE  Going(s)
BY DEF SessionOK, Going, PeerOK, HoldsOK, ToldOK, PromiseOK

LEMMA ResetAt ==
  ASSUME NEW s \in PeerState, s.queue # <<>>, Going(s), NEW point \in ResetPoints
  PROVE  Ends(s, Goto(s, point))
<1> DEFINE t == Goto(s, point)
<1>1. SameSelf(s, t) /\ Pt(t) = point BY SelfGoto DEF Points, ResetPoints
<1> HIDE DEF t
<1>2. ToldOK(t) /\ PromiseOK(t) BY <1>1 DEF SameSelf, Going, ToldOK, PromiseOK
<1>3. t.phase = "authenticated" => (t.leaveRequested \/ ~t.open) /\ (t.open => ~t.authPromise)
  BY <1>1 DEF SameSelf, Going
<1> QED BY <1>1, <1>2, <1>3 DEF SessionOK, Ends, SameSelf, ResetPoints, LeasePoints, t

LEMMA FinishResetSession ==
  ASSUME NEW s, RunOK(s), s.queue # <<>>, ~s.fanoutRetained, ~s.lease, s.session = "none", Going(s)
  PROVE  Ends(s, FinishReset(s))
<1> DEFINE u == IF s.queue[1].remove
                THEN [s EXCEPT !.phase = "left"]
                ELSE [s EXCEPT !.phase = "joined", !.leaveRequested = FALSE]
           t == Continue(u, FALSE)
<1>1. /\ s \in PeerState /\ Running(s) = s.queue[1] /\ JobOK(s.queue[1]) /\ PhaseOK(s)
  BY HeadIsJob DEF RunOK, QueueOK
<1>2. ~s.queue[1].remove => s.phase = "authenticating" BY <1>1 DEF JobOK, PhaseOK, Setup
<1>3. /\ u \in PeerState /\ u.queue = s.queue /\ u.open = s.open /\ u.authPromise = s.authPromise
      /\ u.phase = (IF s.queue[1].remove THEN "left" ELSE "joined")
  BY <1>1 DEF PeerState, Phases
<1>4. FinishReset(s) = t BY <1>1 DEF FinishReset
<1>5. Pt(FinishReset(s)) \in CalmPoints BY FinishResetIs
<1> HIDE DEF u
<1>6. SameSelf(u, t) BY <1>3, SelfContinue
<1> HIDE DEF t
<1>7. /\ t.phase = (IF s.queue[1].remove THEN "left" ELSE "joined")
      /\ t.open = s.open /\ t.authPromise = s.authPromise
  BY <1>3, <1>6 DEF SameSelf
<1>8. PromiseOK(t) /\ ToldOK(t) BY <1>2, <1>7 DEF PromiseOK, ToldOK, Going
<1>9. Pt(t) \notin ResetPoints \cup LeasePoints BY <1>4, <1>5 DEF CalmPoints, ResetPoints, LeasePoints
<1> QED BY <1>4, <1>7, <1>8, <1>9 DEF Ends, SessionOK, Current

LEMMA EndSessionSession ==
  ASSUME NEW s, RunOK(s), s.queue # <<>>, ~s.fanoutRetained, ~s.lease, Going(s)
  PROVE  Ends(s, EndSession(s))
<1> DEFINE u == [s EXCEPT !.session = "none", !.authDue = FALSE, !.leaseDue = FALSE]
<1>1. s \in PeerState BY DEF RunOK
<1>2. /\ u \in PeerState /\ u.queue = s.queue /\ u.phase = s.phase /\ u.open = s.open
      /\ u.leaveRequested = s.leaveRequested /\ u.authPromise = s.authPromise
  BY <1>1 DEF PeerState, Sessions
<1> HIDE DEF u
<1>3. Going(u) BY <1>2 DEF Going, ToldOK, PromiseOK, Kinds
<1>4. Ends(u, Goto(u, "session-end")) BY <1>2, <1>3, ResetAt DEF ResetPoints
<1>5. Ends(s, Goto(u, "session-end")) BY <1>2, <1>4 DEF Ends
<1> QED BY <1>5, FinishResetSession DEF EndSession, u

LEMMA ReleaseLeaseSession ==
  ASSUME NEW s, RunOK(s), s.queue # <<>>, ~s.fanoutRetained, Going(s)
  PROVE  Ends(s, ReleaseLease(s))
<1> DEFINE u == [s EXCEPT !.lease = FALSE]
<1>1. s \in PeerState BY DEF RunOK
<1>2. /\ u \in PeerState /\ u.queue = s.queue /\ u.phase = s.phase /\ u.open = s.open
      /\ u.leaveRequested = s.leaveRequested /\ u.authPromise = s.authPromise
  BY <1>1 DEF PeerState
<1> HIDE DEF u
<1>3. Going(u) BY <1>2 DEF Going, ToldOK, PromiseOK, Kinds
<1>4. Ends(u, Goto(u, "lease-release")) BY <1>2, <1>3, ResetAt DEF ResetPoints
<1>5. Ends(s, Goto(u, "lease-release")) BY <1>2, <1>4 DEF Ends
<1> QED BY <1>5, EndSessionSession DEF ReleaseLease, u

LEMMA StartResetSession ==
  ASSUME NEW s, RunOK(s), s.queue # <<>>, NEW remove \in BOOLEAN,
         ~remove => s.queue[1].kind = "auth",
         ToldOK(s), s.phase = "authenticated" => s.leaveRequested \/ ~s.open
  PROVE  Ends(s, StartReset(s, remove))
<1> DEFINE j == [s.queue[1] EXCEPT !.remove = remove]
           r == [s.queue EXCEPT ![1] = j]
           w == [s EXCEPT !.queue = r]
           quiet == [s EXCEPT !.authTimer = FALSE, !.leaseTimer = FALSE,
                              !.authPromise = FALSE, !.queue = r]
<1>1. /\ s \in PeerState /\ QueueOK(s.queue) /\ PhaseOK(s) /\ s.fanoutRetained \in BOOLEAN
      /\ s.queue[1] \in Job /\ JobOK(s.queue[1]) /\ 1 \in DOMAIN s.queue
  BY HeadIsJob DEF RunOK, PeerState, QueueOK
<1>2. j \in Job /\ j.kind = s.queue[1].kind /\ j.at = s.queue[1].at /\ j.next = s.queue[1].next
      /\ j.remove = remove
  BY <1>1 DEF Job
<1>3. StartReset(s, remove) =
        IF s.fanoutRetained
        THEN Goto([quiet EXCEPT !.fanoutRetained = FALSE], "release-lock")
        ELSE ReleaseLease(quiet)
  BY <1>1 DEF StartReset
<1> HIDE DEF j
<1>4. JobOK(j) BY <1>1, <1>2 DEF JobOK
<1>5. Rewritten(s, j, w) BY <1>1, <1>2, SetHead
<1>6. w.queue = r BY <1>1 DEF PeerState
<1>7. SameSelf(s, w) BY <1>1, <1>2, <1>5, SelfRewritten
<1> HIDE DEF r, w
<1>8. QueueOK(w.queue) BY <1>1, <1>2, <1>4, <1>5, RewrittenQueue
<1>9. r \in Seq(Job) /\ r # <<>> /\ Len(r) = Len(s.queue) /\ r[1] = j /\ QueueOK(r)
  BY <1>5, <1>6, <1>8 DEF Rewritten, PeerState
<1>10. {r[i].kind : i \in DOMAIN r} \subseteq Kinds(s) BY <1>6, <1>7 DEF SameSelf, Kinds
<1>11. /\ quiet \in PeerState /\ quiet.queue = r /\ quiet.phase = s.phase /\ quiet.open = s.open
       /\ quiet.leaveRequested = s.leaveRequested /\ quiet.fanoutRetained = s.fanoutRetained
       /\ quiet.lease = s.lease /\ quiet.session = s.session /\ ~quiet.authPromise
  BY <1>1, <1>9 DEF PeerState
<1> HIDE DEF quiet
<1>12. RunOK(quiet) BY <1>1, <1>2, <1>9, <1>11 DEF RunOK, PhaseOK, HeldOK
<1>13. Kinds(quiet) \subseteq Kinds(s) BY <1>10, <1>11 DEF Kinds
<1>14. Going(quiet) BY <1>11, <1>13 DEF Going, ToldOK, PromiseOK
<1>15. CASE ~s.fanoutRetained
  <2>1. Ends(quiet, ReleaseLease(quiet)) BY <1>9, <1>11, <1>12, <1>14, <1>15, ReleaseLeaseSession
  <2> QED BY <1>3, <1>11, <1>15, <2>1 DEF Ends
<1>16. CASE s.fanoutRetained
  <2> DEFINE u == [quiet EXCEPT !.fanoutRetained = FALSE]
  <2>1. /\ u \in PeerState /\ u.queue = r /\ u.phase = s.phase /\ u.open = s.open
        /\ u.leaveRequested = s.leaveRequested /\ ~u.authPromise
    BY <1>11 DEF PeerState
  <2> HIDE DEF u
  <2>2. Going(u) BY <1>11, <1>14, <2>1 DEF Going, ToldOK, PromiseOK, Kinds
  <2>3. Ends(u, Goto(u, "release-lock")) BY <1>9, <2>1, <2>2, ResetAt DEF ResetPoints
  <2> QED BY <1>3, <1>16, <2>1, <2>3 DEF Ends, u
<1> QED BY <1>1, <1>15, <1>16

-----------------------------------------------------------------------------
(* What a step does to the sessions.                                       *)

\* A session stays in order, and none begins for a peer that is told to go.
Goes(s, t) ==
  /\ SessionOK(t)
  /\ t.phase = "authenticated" => s.phase = "authenticated" \/ ~Leaving(s)

SessionsGo == \A q \in Peer : Goes(peer[q], peer'[q])

SessionInv == RoomInv /\ SessionsOK

LEMMA SessionIs ==
  ASSUME SessionInv, NEW p \in Peer
  PROVE  /\ PeerOK(peer[p]) /\ peer[p] \in PeerState /\ RunOK(peer[p]) /\ HoldsOK(peer[p])
         /\ SessionOK(peer[p])
BY PeerIs DEF SessionInv, SessionsOK

LEMMA GoesByOne ==
  ASSUME SessionInv, NEW p \in Peer, NEW t, Goes(peer[p], t), Becomes(p, t)
  PROVE  SessionsGo
<1>1. peer \in [Peer -> PeerState] BY DEF SessionInv, RoomInv, ShapeOK
<1>2. peer'[p] = t /\ \A q \in Peer \ {p} : peer'[q] = peer[q] BY <1>1 DEF Becomes
<1>3. \A q \in Peer : Goes(peer[q], peer[q]) BY DEF SessionInv, SessionsOK, Goes
<1> QED BY <1>2, <1>3 DEF SessionsGo

LEMMA QuietGoes == ASSUME SessionInv, UNCHANGED peer PROVE SessionsGo
BY DEF SessionInv, SessionsOK, SessionsGo, Goes

\* What SessionOK says nothing of.
LEMMA SessionSame ==
  ASSUME NEW s, SessionOK(s), NEW t, t.queue = s.queue, t.phase = s.phase,
         t.leaveRequested = s.leaveRequested, t.open = s.open, t.lease = s.lease,
         t.session # "none" <=> s.session # "none",
         t.authTimer = s.authTimer, t.authPromise = s.authPromise, t.authCall = s.authCall,
         t.leaseTimer = s.leaseTimer, t.leaseCall = s.leaseCall
  PROVE  SessionOK(t)
<1>1. Kinds(t) = Kinds(s) /\ Pt(t) = Pt(s) /\ (Current(t) <=> Current(s)) BY DEF Kinds, Pt, Current
<1> QED BY <1>1 DEF SessionOK, ToldOK, PromiseOK

\* A peer that has been told to go.
LEMMA GoneSession ==
  ASSUME NEW t, t.leaveRequested, PromiseOK(t), Pt(t) \in LeasePoints => t.lease,
         Pt(t) \in ResetPoints /\ t.phase = "authenticated" /\ t.open => ~t.authPromise
  PROVE  SessionOK(t)
BY DEF SessionOK, ToldOK, Current

LEMMA EnqueueSelf ==
  ASSUME NEW s \in PeerState,
         NEW kind \in {"auth", "resume", "event", "repair", "maintain", "reset", "close"},
         NEW at \in Points, NEW next \in Continuations, NEW data \in SUBSET Batch
  PROVE  LET t == Enqueue(s, kind, at, next, data) IN
         /\ SameRest(s, t) /\ Kinds(t) \subseteq Kinds(s) \cup {kind}
         /\ Pt(t) = IF s.queue = <<>> THEN at ELSE Pt(s)
<1> DEFINE j == [kind |-> kind, at |-> at, next |-> next, remove |-> TRUE, data |-> data]
           r == Append(s.queue, j)
           t == [s EXCEPT !.queue = r]
<1>1. s.queue \in Seq(Job) BY DEF PeerState
<1>2. j \in Job /\ j.kind = kind /\ j.at = at BY DEF Job
<1> HIDE DEF j
<1>3. /\ DOMAIN r = 1 .. Len(s.queue) + 1
      /\ r # <<>>
  <2>1. r \in Seq(Job) /\ Len(r) = Len(s.queue) + 1 BY <1>1, <1>2
  <2> HIDE DEF r
  <2>2. Len(s.queue) \in Nat BY <1>1
  <2> QED BY <2>1, <2>2
<1>4. \A i \in 1 .. Len(s.queue) : r[i] = s.queue[i] BY <1>1, <1>2
<1>5. r[Len(s.queue) + 1] = j BY <1>1, <1>2
<1>6. /\ Len(s.queue) \in Nat /\ DOMAIN s.queue = 1 .. Len(s.queue)
      /\ s.queue = <<>> <=> Len(s.queue) = 0
  BY <1>1
<1> HIDE DEF r
<1>7. SameRest(s, t) /\ t.queue = r BY DEF SameRest, PeerState
<1> HIDE DEF t
<1>8. Kinds(t) \subseteq Kinds(s) \cup {kind}
  <2> SUFFICES ASSUME NEW i \in DOMAIN r PROVE r[i].kind \in Kinds(s) \cup {kind} BY <1>7 DEF Kinds
  <2>1. i \in 1 .. Len(s.queue) \/ i = Len(s.queue) + 1 BY <1>3, <1>6
  <2> QED BY <1>2, <1>4, <1>5, <1>6, <2>1 DEF Kinds
<1>9. Pt(t) = IF s.queue = <<>> THEN at ELSE Pt(s)
  <2>1. r[1] = IF s.queue = <<>> THEN j ELSE s.queue[1] BY <1>4, <1>5, <1>6
  <2> QED BY <1>2, <1>3, <1>7, <2>1 DEF Pt
<1>10. Enqueue(s, kind, at, next, data) = t BY DEF Enqueue, t, r, j
<1> QED BY <1>7, <1>8, <1>9, <1>10

\* A message or a maintenance joins the queue.
LEMMA EnqueueSession ==
  ASSUME NEW s \in PeerState, SessionOK(s), NEW kind \in {"event", "repair", "maintain"},
         NEW next \in Continuations, NEW data \in SUBSET Batch
  PROVE  LET t == Enqueue(s, kind, "start", next, data) IN SessionOK(t) /\ t.phase = s.phase
<1> DEFINE t == Enqueue(s, kind, "start", next, data)
<1>1. /\ SameRest(s, t) /\ Kinds(t) \subseteq Kinds(s) \cup {kind}
      /\ Pt(t) = IF s.queue = <<>> THEN "start" ELSE Pt(s)
  BY EnqueueSelf DEF Points
<1> HIDE DEF t
<1>2. Pt(t) = Pt(s) \/ (Pt(s) = "none" /\ Pt(t) = "start") BY <1>1 DEF Pt
<1>3. ToldOK(t) /\ PromiseOK(t) /\ (Current(t) <=> Current(s))
  BY <1>1 DEF SessionOK, ToldOK, PromiseOK, Removals, SameRest, Current
<1> QED BY <1>1, <1>2, <1>3 DEF SessionOK, SameRest, ResetPoints, LeasePoints, t

\* The peer is told to go, and its removal joins the queue.
LEMMA RemovalSession ==
  ASSUME NEW s \in PeerState, PromiseOK(s), Pt(s) \in LeasePoints => s.lease,
         NEW u \in PeerState, u.queue = s.queue, u.phase = s.phase, u.lease = s.lease,
         u.authPromise = s.authPromise, u.leaveRequested,
         u.open => s.phase = "joined" /\ s.queue = <<>>,
         NEW kind \in {"reset", "close"}
  PROVE  LET t == Enqueue(u, kind, "start", "end", {}) IN SessionOK(t) /\ t.phase = s.phase
<1> DEFINE t == Enqueue(u, kind, "start", "end", {})
<1>1. SameRest(u, t) /\ Pt(t) = IF u.queue = <<>> THEN "start" ELSE Pt(u)
  BY EnqueueSelf DEF Points, Continuations
<1> HIDE DEF t
<1>2. Pt(u) = Pt(s) BY DEF Pt
<1>3. PromiseOK(t) BY <1>1 DEF PromiseOK, SameRest
<1>4. Pt(t) \in LeasePoints => t.lease BY <1>1, <1>2 DEF SameRest, LeasePoints
<1>5. Pt(t) \in ResetPoints => ~t.open BY <1>1 DEF SameRest, ResetPoints
<1>6. SessionOK(t) BY <1>1, <1>3, <1>4, <1>5, GoneSession DEF SameRest
<1> QED BY <1>1, <1>6 DEF SameRest, t

LEMMA ExpelSession ==
  ASSUME NEW s \in PeerState, PromiseOK(s), Pt(s) \in LeasePoints => s.lease
  PROVE  SessionOK(Expel(s)) /\ Expel(s).phase = s.phase
<1> DEFINE u == ClosePeer([s EXCEPT !.leaveRequested = TRUE])
<1>1. /\ u \in PeerState /\ u.queue = s.queue /\ u.phase = s.phase /\ ~u.open
      /\ u.leaveRequested /\ u.lease = s.lease /\ u.authPromise = s.authPromise
  BY DEF PeerState, ClosePeer
<1> HIDE DEF u
<1> DEFINE t == Enqueue(u, "reset", "start", "end", {})
<1>2. SessionOK(t) /\ t.phase = s.phase BY <1>1, RemovalSession
<1>3. t = Expel(s) BY DEF Expel, EnqueueReset, u
<1> QED BY <1>2, <1>3

\* A background refresh that failed ends the session it belongs to.
LEMMA TerminateSession ==
  ASSUME NEW s \in PeerState, PromiseOK(s), Pt(s) \in LeasePoints => s.lease,
         ~Current(s) => SessionOK(s)
  PROVE  SessionOK(Terminate(s)) /\ Terminate(s).phase = s.phase
<1> DEFINE u == [s EXCEPT !.authTimer = FALSE, !.leaseTimer = FALSE]
<1>1. /\ u \in PeerState /\ u.queue = s.queue /\ u.phase = s.phase /\ u.open = s.open
      /\ u.lease = s.lease /\ u.authPromise = s.authPromise
  BY DEF PeerState
<1> HIDE DEF u
<1>2. PromiseOK(u) /\ (Pt(u) \in LeasePoints => u.lease) BY <1>1 DEF PromiseOK, Pt
<1>3. SessionOK(Expel(u)) /\ Expel(u).phase = s.phase BY <1>1, <1>2, ExpelSession
<1> QED BY <1>3 DEF Terminate, u

-----------------------------------------------------------------------------
(* Calls of the host, timers and the bus.                                  *)

LEMMA JoinGoes == ASSUME SessionInv, NEW p \in Peer, Join(p) PROVE SessionsGo
<1> DEFINE s == peer[p]
<1>1. s \in PeerState /\ SessionOK(s) BY SessionIs
<1>2. s.phase \in {"absent", "left"} /\ s.open /\ s.queue = <<>> BY DEF Join, InMap
<1>3. ~s.authPromise BY <1>1, <1>2 DEF SessionOK, PromiseOK
<1>4. PICK t \in {NewPeer(s), ClosePeer(s)} : Becomes(p, t) BY DEF Join
<1>5. /\ t.phase \in {"joined", "absent", "left"} /\ t.queue = <<>> /\ ~t.authPromise
  BY <1>1, <1>2, <1>3, <1>4 DEF NewPeer, ClosePeer, PeerState
<1>6. SessionOK(t)
  BY <1>5 DEF SessionOK, ToldOK, PromiseOK, Current, Pt, ResetPoints, LeasePoints
<1> QED BY <1>4, <1>5, <1>6, GoesByOne DEF Goes

\* A peer in the room begins to authenticate.
LEMMA SetupBeginsSession ==
  ASSUME NEW s, PeerOK(s), SessionOK(s), s.phase = "joined", s.open, ~s.leaveRequested,
         NEW kind \in {"auth", "resume"}, NEW at \in {"authorize", "start"}
  PROVE  LET t == Enqueue([s EXCEPT !.phase = "authenticating"], kind, at, "end", {}) IN
         SessionOK(t) /\ t.phase = "authenticating"
<1> DEFINE u == [s EXCEPT !.phase = "authenticating"]
           t == Enqueue(u, kind, at, "end", {})
<1>1. s \in PeerState /\ s.queue = <<>> BY DEF PeerOK, RunOK, PhaseOK
<1>2. /\ u \in PeerState /\ u.queue = <<>> /\ u.phase = "authenticating"
      /\ u.authPromise = s.authPromise
  BY <1>1 DEF PeerState, Phases
<1> HIDE DEF u
<1>3. SameRest(u, t) /\ Kinds(t) \subseteq Kinds(u) \cup {kind} /\ Pt(t) = at
  BY <1>2, EnqueueSelf DEF Points, Continuations
<1> HIDE DEF t
<1>4. Kinds(u) = {} BY <1>2 DEF Kinds
<1>5. ~t.authPromise BY <1>2, <1>3 DEF SessionOK, PromiseOK, SameRest
<1>6. ToldOK(t) BY <1>3, <1>4 DEF ToldOK, Removals
<1>7. t.phase = "authenticating" BY <1>2, <1>3 DEF SameRest
<1>8. SessionOK(t)
  BY <1>3, <1>5, <1>6, <1>7 DEF SessionOK, PromiseOK, Current, ResetPoints, LeasePoints
<1> QED BY <1>7, <1>8 DEF t, u

LEMMA SetupRequestGoes ==
  ASSUME SessionInv, NEW p \in Peer, ReceiveAuth(p) \/ Resume(p)
  PROVE  SessionsGo
<1> DEFINE s == peer[p]
           begins(kind, at) == Enqueue([s EXCEPT !.phase = "authenticating"], kind, at, "end", {})
<1>1. PeerOK(s) /\ s \in PeerState /\ SessionOK(s) BY SessionIs
<1>2. InMap(s) /\ s.open /\ ~s.leaveRequested BY DEF ReceiveAuth, Resume, Receivable
<1>3. \/ s.phase = "joined" /\ Becomes(p, begins("auth", "authorize"))
      \/ s.phase = "joined" /\ Becomes(p, begins("resume", "start"))
      \/ Becomes(p, Expel(s))
  BY DEF ReceiveAuth, Resume
<1>4. s.phase = "joined" =>
        /\ SessionOK(begins("auth", "authorize")) /\ begins("auth", "authorize").phase = "authenticating"
        /\ SessionOK(begins("resume", "start")) /\ begins("resume", "start").phase = "authenticating"
  BY <1>1, <1>2, SetupBeginsSession
<1>5. SessionOK(Expel(s)) /\ Expel(s).phase = s.phase BY <1>1, ExpelSession DEF SessionOK
<1> HIDE DEF begins
<1>6. CASE Becomes(p, Expel(s))
  BY <1>5, <1>6, GoesByOne DEF Goes
<1>7. ASSUME NEW t, SessionOK(t), t.phase = "authenticating", Becomes(p, t) PROVE SessionsGo
  BY <1>7, GoesByOne DEF Goes
<1> QED BY <1>3, <1>4, <1>6, <1>7

LEMMA ReceiveMessageGoes == ASSUME SessionInv, NEW p \in Peer, ReceiveMessage(p) PROVE SessionsGo
<1>1. PICK request \in Requests :
        \/ Becomes(p, Enqueue(peer[p], request.kind, "start", "dispatch", request.data))
        \/ UNCHANGED peer
  BY DEF ReceiveMessage
<1>2. request.kind \in {"repair", "event"} /\ request.data \in SUBSET Batch
  BY HostIs DEF SessionInv
<1>3. peer[p] \in PeerState /\ SessionOK(peer[p]) BY SessionIs
<1> DEFINE t == Enqueue(peer[p], request.kind, "start", "dispatch", request.data)
<1>4. SessionOK(t) /\ t.phase = peer[p].phase BY <1>2, <1>3, EnqueueSession DEF Continuations
<1>5. Becomes(p, t) \/ UNCHANGED peer BY <1>1
<1> HIDE DEF t
<1>6. Goes(peer[p], t) BY <1>4 DEF Goes
<1> QED BY <1>5, <1>6, GoesByOne, QuietGoes

LEMMA MaintenanceGoes == ASSUME SessionInv, MaintenanceStep PROVE SessionsGo
<1>1. CASE StartMaintenance
  <2> DEFINE due(s) == /\ s.phase = "authenticated" /\ ~s.leaveRequested
                       /\ s.queue = <<>> /\ (s.authDue \/ s.leaseDue)
             t(s) == IF due(s) THEN Enqueue(s, "maintain", "start", "end", {}) ELSE s
  <2>1. peer' = [p \in Peer |-> t(peer[p])] BY <1>1 DEF StartMaintenance
  <2>2. ASSUME NEW p \in Peer PROVE Goes(peer[p], t(peer[p]))
    <3> DEFINE u == Enqueue(peer[p], "maintain", "start", "end", {})
    <3>1. peer[p] \in PeerState /\ SessionOK(peer[p]) BY SessionIs
    <3>2. SessionOK(u) /\ u.phase = peer[p].phase BY <3>1, EnqueueSession DEF Continuations
    <3>3. t(peer[p]) \in {peer[p], u} OBVIOUS
    <3> HIDE DEF t, u
    <3> QED BY <3>1, <3>2, <3>3 DEF Goes
  <2> HIDE DEF t
  <2> QED BY <2>1, <2>2 DEF SessionsGo
<1>2. CASE EndMaintenance
  <2> DEFINE m == maintenance[1]
             t == Enqueue(peer[m.from], m.request.kind, "start", "dispatch", m.request.data)
  <2>1. maintenance # <<>> /\ Head(maintenance) = m /\ Becomes(m.from, t)
    BY <1>2 DEF EndMaintenance
  <2>2. 1 \in DOMAIN maintenance BY <2>1 DEF SessionInv, RoomInv, ShapeOK
  <2>3. m.from \in Peer /\ m.request \in Requests BY <2>2, WaitingIs DEF SessionInv
  <2>4. m.request.kind \in {"repair", "event"} /\ m.request.data \in SUBSET Batch
    BY <2>3, HostIs DEF SessionInv
  <2>5. peer[m.from] \in PeerState /\ SessionOK(peer[m.from]) BY <2>3, SessionIs
  <2>6. SessionOK(t) /\ t.phase = peer[m.from].phase
    BY <2>4, <2>5, EnqueueSession DEF Continuations
  <2> HIDE DEF m, t
  <2>7. Goes(peer[m.from], t) BY <2>6 DEF Goes
  <2> QED BY <2>1, <2>3, <2>7, GoesByOne
<1> QED BY <1>1, <1>2 DEF MaintenanceStep

LEMMA LeaveGoes == ASSUME SessionInv, NEW p \in Peer, Leave(p) PROVE SessionsGo
<1> DEFINE s == peer[p]
<1>1. PICK open \in BOOLEAN :
        /\ open => s.open /\ s.phase = "joined" /\ s.queue = <<>>
        /\ Becomes(p, EnqueueReset([s EXCEPT !.leaveRequested = TRUE, !.released = TRUE,
                                             !.open = open]))
  BY DEF Leave
<1> DEFINE u == [s EXCEPT !.leaveRequested = TRUE, !.released = TRUE, !.open = open]
           t == Enqueue(u, "reset", "start", "end", {})
<1>2. s \in PeerState /\ SessionOK(s) BY SessionIs
<1>3. /\ u \in PeerState /\ u.queue = s.queue /\ u.phase = s.phase /\ u.open = open
      /\ u.leaveRequested /\ u.lease = s.lease /\ u.authPromise = s.authPromise
  BY <1>2 DEF PeerState
<1>4. Becomes(p, t) BY <1>1 DEF EnqueueReset
<1> HIDE DEF u
<1>5. SessionOK(t) /\ t.phase = s.phase BY <1>1, <1>2, <1>3, RemovalSession DEF SessionOK
<1> HIDE DEF t
<1>6. Goes(s, t) BY <1>5 DEF Goes
<1> QED BY <1>4, <1>6, GoesByOne

LEMMA CloseGoes == ASSUME SessionInv, Close PROVE SessionsGo
<1> DEFINE t(s) == IF InMap(s)
                   THEN Enqueue(ClosePeer([s EXCEPT !.leaveRequested = TRUE]),
                                "close", "start", "end", {})
                   ELSE s
<1>1. peer' = [p \in Peer |-> t(peer[p])] BY DEF Close
<1>2. ASSUME NEW p \in Peer PROVE Goes(peer[p], t(peer[p]))
  <2> DEFINE s == peer[p]
             u == ClosePeer([s EXCEPT !.leaveRequested = TRUE])
             v == Enqueue(u, "close", "start", "end", {})
  <2>1. s \in PeerState /\ SessionOK(s) BY SessionIs
  <2>2. /\ u \in PeerState /\ u.queue = s.queue /\ u.phase = s.phase /\ ~u.open
        /\ u.leaveRequested /\ u.lease = s.lease /\ u.authPromise = s.authPromise
    BY <2>1 DEF PeerState, ClosePeer
  <2>3. t(s) \in {s, v} OBVIOUS
  <2> HIDE DEF u, t
  <2>4. SessionOK(v) /\ v.phase = s.phase BY <2>1, <2>2, RemovalSession DEF SessionOK
  <2> HIDE DEF v
  <2> QED BY <2>1, <2>3, <2>4 DEF Goes
<1> HIDE DEF t
<1> QED BY <1>1, <1>2 DEF SessionsGo

LEMMA DeliverGoes == ASSUME SessionInv, Deliver PROVE SessionsGo
<1> DEFINE t(s, b) ==
             CASE ~Current(s) -> s
               [] Current(s) /\ RefreshMode = "on-message" /\ (s.authDue \/ s.leaseDue) -> Expel(s)
               [] OTHER -> IF s.open THEN [s EXCEPT !.received = @ \cup {b}] ELSE s
<1>1. PICK m \in inflight : peer' = [p \in Peer |-> t(peer[p], m.batch)] BY DEF Deliver
<1>2. ASSUME NEW p \in Peer PROVE Goes(peer[p], t(peer[p], m.batch))
  <2> DEFINE s == peer[p]
             u == [s EXCEPT !.received = @ \cup {m.batch}]
  <2>1. s \in PeerState /\ SessionOK(s) BY SessionIs
  <2>2. /\ u.queue = s.queue /\ u.phase = s.phase /\ u.leaveRequested = s.leaveRequested
        /\ u.open = s.open /\ u.lease = s.lease /\ u.session = s.session
        /\ u.authTimer = s.authTimer /\ u.authPromise = s.authPromise /\ u.authCall = s.authCall
        /\ u.leaseTimer = s.leaseTimer /\ u.leaseCall = s.leaseCall
    BY <2>1 DEF PeerState
  <2>3. t(s, m.batch) \in {s, u, Expel(s)} OBVIOUS
  <2> HIDE DEF u, t
  <2>4. SessionOK(u) /\ u.phase = s.phase BY <2>1, <2>2, SessionSame
  <2>5. SessionOK(Expel(s)) /\ Expel(s).phase = s.phase BY <2>1, ExpelSession DEF SessionOK
  <2> QED BY <2>1, <2>3, <2>4, <2>5 DEF Goes
<1> HIDE DEF t
<1> QED BY <1>1, <1>2 DEF SessionsGo

LEMMA ExpiresGoes == ASSUME SessionInv, NEW p \in Peer, Expires(p) PROVE SessionsGo
<1> DEFINE s == peer[p]
<1>1. PICK t \in {[s EXCEPT !.authDue = TRUE], [s EXCEPT !.leaseDue = TRUE]} : Becomes(p, t)
  BY DEF Expires
<1>2. s \in PeerState /\ SessionOK(s) BY SessionIs
<1>3. /\ t.queue = s.queue /\ t.phase = s.phase /\ t.leaveRequested = s.leaveRequested
      /\ t.open = s.open /\ t.lease = s.lease /\ t.session = s.session
      /\ t.authTimer = s.authTimer /\ t.authPromise = s.authPromise /\ t.authCall = s.authCall
      /\ t.leaseTimer = s.leaseTimer /\ t.leaseCall = s.leaseCall
  BY <1>2 DEF PeerState
<1>4. Goes(s, t) BY <1>2, <1>3, SessionSame DEF Goes
<1> QED BY <1>1, <1>4, GoesByOne

\* The timer gives way to the refresh it asks for, or to the one a job asked for.
LEMMA AuthTimerGoes == ASSUME SessionInv, NEW p \in Peer, AuthTimer(p) PROVE SessionsGo
<1> DEFINE s == peer[p]
           u == [s EXCEPT !.authTimer = FALSE]
           t == IF Current(u) /\ ~u.authPromise
                THEN [u EXCEPT !.authPromise = TRUE, !.authCall = TRUE] ELSE u
<1>1. s \in PeerState /\ SessionOK(s) BY SessionIs
<1>2. Becomes(p, t) BY DEF AuthTimer
<1>3. Current(u) <=> Current(s) BY <1>1 DEF PeerState, Current
<1>4. /\ t.queue = s.queue /\ t.phase = s.phase /\ t.leaveRequested = s.leaveRequested
      /\ t.open = s.open /\ t.lease = s.lease /\ t.session = s.session
      /\ t.leaseTimer = s.leaseTimer /\ t.leaseCall = s.leaseCall
      /\ Current(s) => t.authPromise
      /\ Current(s) /\ ~s.authPromise => t.authCall
      /\ ~Current(s) \/ s.authPromise => t.authPromise = s.authPromise /\ t.authCall = s.authCall
  BY <1>1, <1>3 DEF PeerState
<1> HIDE DEF t
<1>5. Kinds(t) = Kinds(s) /\ Pt(t) = Pt(s) /\ (Current(t) <=> Current(s))
  BY <1>4 DEF Kinds, Pt, Current
<1>6. ToldOK(t) /\ PromiseOK(t) BY <1>1, <1>4, <1>5 DEF SessionOK, ToldOK, PromiseOK, Current
<1>7. Pt(t) \in ResetPoints /\ t.phase = "authenticated" =>
        (t.leaveRequested \/ ~t.open) /\ (t.open => ~t.authPromise)
  BY <1>1, <1>4, <1>5 DEF SessionOK, Current
<1>8. SessionOK(t) BY <1>1, <1>4, <1>5, <1>6, <1>7 DEF SessionOK
<1>9. Goes(s, t) BY <1>4, <1>8 DEF Goes
<1> QED BY <1>2, <1>9, GoesByOne

LEMMA LeaseTimerGoes == ASSUME SessionInv, NEW p \in Peer, LeaseTimer(p) PROVE SessionsGo
<1> DEFINE s == peer[p]
           u == [s EXCEPT !.leaseTimer = FALSE]
           t == IF Current(u) /\ u.lease /\ ~u.leaseCall THEN [u EXCEPT !.leaseCall = TRUE] ELSE u
<1>1. s \in PeerState /\ SessionOK(s) BY SessionIs
<1>2. Becomes(p, t) BY DEF LeaseTimer
<1>3. Current(u) <=> Current(s) BY <1>1 DEF PeerState, Current
<1>4. /\ t.queue = s.queue /\ t.phase = s.phase /\ t.leaveRequested = s.leaveRequested
      /\ t.open = s.open /\ t.lease = s.lease /\ t.session = s.session
      /\ t.authTimer = s.authTimer /\ t.authPromise = s.authPromise /\ t.authCall = s.authCall
      /\ Current(s) /\ s.lease => t.leaseCall
  BY <1>1, <1>3 DEF PeerState
<1> HIDE DEF t
<1>5. Kinds(t) = Kinds(s) /\ Pt(t) = Pt(s) /\ (Current(t) <=> Current(s))
  BY <1>4 DEF Kinds, Pt, Current
<1>6. ToldOK(t) /\ PromiseOK(t) BY <1>1, <1>4, <1>5 DEF SessionOK, ToldOK, PromiseOK
<1>7. SessionOK(t) BY <1>1, <1>4, <1>5, <1>6 DEF SessionOK
<1>8. Goes(s, t) BY <1>4, <1>7 DEF Goes
<1> QED BY <1>2, <1>8, GoesByOne

-----------------------------------------------------------------------------
(* The jobs of setup.                                                      *)

\* A reset begins, of a peer that may have been told to go in the same step.
LEMMA ResetsGo ==
  ASSUME SessionInv, NEW p \in Peer, peer[p].queue # <<>>,
         NEW u, RunOK(u), u.queue = peer[p].queue, u.phase = peer[p].phase,
         peer[p].leaveRequested => u.leaveRequested,
         u.phase = "authenticated" => u.leaveRequested \/ ~u.open,
         NEW remove \in BOOLEAN, ~remove => peer[p].queue[1].kind = "auth",
         NEW lock, Resets(p, u, remove, lock)
  PROVE  SessionsGo
<1> DEFINE t == StartReset(u, remove)
<1>1. SessionOK(peer[p]) BY SessionIs
<1>2. ToldOK(u) BY <1>1 DEF SessionOK, ToldOK, Kinds
<1>3. Ends(u, t) BY <1>2, StartResetSession
<1>4. Becomes(p, t) BY DEF Resets
<1> HIDE DEF t
<1>5. Goes(peer[p], t) BY <1>3 DEF Ends, Goes
<1> QED BY <1>4, <1>5, GoesByOne

\* A setup that fails, or whose peer was told to go.
LEMMA FailSetupGoes ==
  ASSUME SessionInv, NEW p \in Peer, peer[p].queue # <<>>, Pt(peer[p]) \in SetupPoints, NEW lock,
         FailSetup(p, peer[p], lock) \/ Resets(p, peer[p], TRUE, lock)
         \/ Resets(p, ClosePeer(peer[p]), TRUE, lock)
  PROVE  SessionsGo
<1> DEFINE s == peer[p]
<1>1. PeerOK(s) /\ s \in PeerState /\ RunOK(s) BY SessionIs
<1>2. s.queue[1].kind \in Setup /\ s.phase = "authenticating" BY <1>1, SetupIs
<1>3. Running(s) = s.queue[1] BY <1>1, HeadIsJob
<1>4. ASSUME NEW u \in {s, ClosePeer(s), ClosePeer([s EXCEPT !.leaveRequested = TRUE])},
             NEW remove \in BOOLEAN, ~remove => s.queue[1].kind = "auth", Resets(p, u, remove, lock)
      PROVE  SessionsGo
  <2>1. /\ u \in PeerState /\ u.queue = s.queue /\ u.phase = s.phase /\ (u.open => s.open)
        /\ u.fanoutRetained = s.fanoutRetained /\ u.lease = s.lease
        /\ u.session = s.session /\ (s.leaveRequested => u.leaveRequested)
    BY <1>1, <1>4 DEF PeerState, ClosePeer
  <2>2. RunOK(u) BY <1>1, <2>1 DEF RunOK, PhaseOK, HeldOK
  <2> QED BY <1>2, <1>4, <2>1, <2>2, ResetsGo
<1>5. ASSUME FailSetup(p, s, lock) PROVE SessionsGo
  <2>1. CASE s.queue[1].kind = "resume"
    <3>1. Resets(p, ClosePeer([s EXCEPT !.leaveRequested = TRUE]), TRUE, lock)
      BY <1>3, <1>5, <2>1 DEF FailSetup
    <3> QED BY <1>4, <3>1
  <2>2. CASE s.queue[1].kind # "resume"
    <3>1. s.queue[1].kind = "auth" BY <1>2, <2>2 DEF Setup
    <3>2. Resets(p, s, Leaving(s), lock) BY <1>3, <1>5, <2>2 DEF FailSetup
    <3>3. Leaving(s) \in BOOLEAN BY DEF Leaving
    <3> QED BY <1>4, <3>1, <3>2, <3>3
  <2> QED BY <2>1, <2>2
<1> QED BY <1>4, <1>5

\* Setup goes on, with its lease where it needs one.
LEMMA SetupGoes ==
  ASSUME SessionInv, NEW p \in Peer, peer[p].queue # <<>>, peer[p].phase = "authenticating",
         NEW u \in PeerState, u.queue = peer[p].queue, u.phase = peer[p].phase,
         u.leaveRequested = peer[p].leaveRequested, u.authPromise = peer[p].authPromise,
         NEW point \in SetupPoints, point \in LeasePoints => u.lease,
         Becomes(p, Goto(u, point))
  PROVE  SessionsGo
<1> DEFINE t == Goto(u, point)
<1>1. SessionOK(peer[p]) BY SessionIs
<1>2. SameSelf(u, t) /\ Pt(t) = point BY SelfGoto DEF Points, SetupPoints
<1> HIDE DEF t
<1>3. Kinds(u) = Kinds(peer[p]) BY DEF Kinds
<1>4. ToldOK(t) /\ PromiseOK(t)
  BY <1>1, <1>2, <1>3 DEF SessionOK, SameSelf, ToldOK, PromiseOK
<1>5. t.phase = "authenticating" BY <1>2 DEF SameSelf
<1>6. Goes(peer[p], t)
  BY <1>2, <1>4, <1>5 DEF Goes, SessionOK, SameSelf, Current, SetupPoints, ResetPoints
<1> QED BY <1>6, GoesByOne DEF t

\* A session begins, with its lease and its timers.
LEMMA AuthenticatedGoes ==
  ASSUME SessionInv, NEW p \in Peer, peer[p].queue # <<>>, peer[p].phase = "authenticating",
         Pt(peer[p]) \in LeasePoints, ~Leaving(peer[p]),
         NEW s, RunOK(s), s.queue = peer[p].queue, s.phase = peer[p].phase, s.lease = peer[p].lease,
         s.leaveRequested = peer[p].leaveRequested, s.authPromise = peer[p].authPromise,
         Becomes(p, Authenticated(s))
  PROVE  SessionsGo
<1> DEFINE u == ArmLease(ArmAuth([s EXCEPT !.phase = "authenticated"]))
           t == Done(u)
<1>1. s \in PeerState /\ SessionOK(peer[p]) BY SessionIs DEF RunOK
<1>2. /\ u \in PeerState /\ u.queue = s.queue /\ u.phase = "authenticated"
      /\ u.leaveRequested = s.leaveRequested /\ u.lease = s.lease /\ u.authPromise = s.authPromise
      /\ u.authTimer = Background /\ u.leaseTimer = Background
  BY <1>1 DEF PeerState, Phases, ArmAuth, ArmLease, Background
<1> HIDE DEF u
<1>3. Authenticated(s) = t BY DEF Authenticated, u
<1>4. Pt(Authenticated(s)) \in CalmPoints BY AuthenticatedIs
<1>5. SameSelf(u, t) BY <1>2, SelfDone
<1> HIDE DEF t
<1>6. Kinds(t) \subseteq Kinds(peer[p])
  <2>1. Kinds(u) = Kinds(peer[p]) BY <1>2 DEF Kinds
  <2> QED BY <1>5, <2>1 DEF SameSelf
<1>7. ToldOK(t) BY <1>1, <1>2, <1>5, <1>6 DEF SessionOK, ToldOK, SameSelf
<1>8. ~t.authPromise BY <1>1, <1>2, <1>5 DEF SessionOK, PromiseOK, SameSelf
<1>9. t.lease /\ (Background => t.authTimer /\ t.leaseTimer)
  BY <1>1, <1>2, <1>5 DEF SessionOK, SameSelf
<1>10. Pt(t) \notin ResetPoints \cup LeasePoints
  BY <1>3, <1>4 DEF CalmPoints, ResetPoints, LeasePoints
<1>11. SessionOK(t) BY <1>7, <1>8, <1>9, <1>10 DEF SessionOK, PromiseOK
<1>12. Goes(peer[p], t) BY <1>11 DEF Goes
<1> QED BY <1>3, <1>12, GoesByOne

LEMMA AuthorizedGoes == ASSUME SessionInv, NEW p \in Peer, Authorized(p) PROVE SessionsGo
<1> DEFINE s == peer[p]
<1>1. PeerOK(s) /\ s \in PeerState /\ Pt(s) = "authorize" /\ s.queue # <<>>
  BY SessionIs, AtIs DEF Authorized, SessionInv
<1>2. s.phase = "authenticating" BY <1>1, SetupIs DEF SetupPoints
<1>3. CASE Becomes(p, Goto(s, "acquire"))
  BY <1>1, <1>2, <1>3, SetupGoes DEF SetupPoints, LeasePoints
<1>4. CASE FailSetup(p, s, fanoutQueue) \/ Resets(p, s, TRUE, fanoutQueue)
           \/ Resets(p, ClosePeer(s), TRUE, fanoutQueue)
  BY <1>1, <1>4, FailSetupGoes DEF SetupPoints
<1> QED BY <1>3, <1>4 DEF Authorized

LEMMA RecheckedGoes == ASSUME SessionInv, NEW p \in Peer, Rechecked(p) PROVE SessionsGo
<1> DEFINE s == peer[p]
<1>1. PeerOK(s) /\ s \in PeerState /\ Pt(s) = "recheck" /\ s.queue # <<>>
  BY SessionIs, AtIs DEF Rechecked, SessionInv
<1>2. s.phase = "authenticating" BY <1>1, SetupIs DEF SetupPoints
<1>3. ASSUME NEW role \in Sessions \ {"none"},
             Becomes(p, Goto([s EXCEPT !.session = role], "acquire"))
      PROVE  SessionsGo
  <2> DEFINE u == [s EXCEPT !.session = role]
  <2>1. /\ u \in PeerState /\ u.queue = s.queue /\ u.phase = s.phase
        /\ u.leaveRequested = s.leaveRequested /\ u.authPromise = s.authPromise
    BY <1>1 DEF PeerState
  <2>2. Becomes(p, Goto(u, "acquire")) BY <1>3
  <2> HIDE DEF u
  <2> QED BY <1>1, <1>2, <2>1, <2>2, SetupGoes DEF SetupPoints, LeasePoints
<1>4. CASE FailSetup(p, s, fanoutQueue) \/ Resets(p, s, TRUE, fanoutQueue)
  BY <1>1, <1>4, FailSetupGoes DEF SetupPoints
<1> QED BY <1>3, <1>4 DEF Rechecked

LEMMA AcquiredGoes == ASSUME SessionInv, NEW p \in Peer, Acquired(p) PROVE SessionsGo
<1> DEFINE s == peer[p]
           u == [s EXCEPT !.lease = TRUE]
<1>1. PeerOK(s) /\ s \in PeerState /\ Pt(s) = "acquire" /\ s.queue # <<>>
  BY SessionIs, AtIs DEF Acquired, SessionInv
<1>2. s.phase = "authenticating" /\ s.queue[1].kind \in Setup BY <1>1, SetupIs DEF SetupPoints
<1>3. /\ u \in PeerState /\ u.queue = s.queue /\ u.phase = s.phase /\ u.open = s.open
      /\ u.leaveRequested = s.leaveRequested /\ u.authPromise = s.authPromise /\ u.lease
  BY <1>1 DEF PeerState
<1>4. \/ Resets(p, u, TRUE, fanoutQueue)
      \/ Becomes(p, Goto(u, "fanout-lock"))
      \/ FailSetup(p, s, fanoutQueue) \/ Resets(p, ClosePeer(s), TRUE, fanoutQueue)
  BY DEF Acquired
<1> HIDE DEF u
<1>5. CASE Resets(p, u, TRUE, fanoutQueue)
  <2>1. RunOK(u) BY <1>1, <1>2, <1>3 DEF PeerOK, RunOK, PhaseOK, HeldOK
  <2> QED BY <1>1, <1>2, <1>3, <1>5, <2>1, ResetsGo
<1>6. CASE Becomes(p, Goto(u, "fanout-lock"))
  BY <1>1, <1>2, <1>3, <1>6, SetupGoes DEF SetupPoints
<1>7. CASE FailSetup(p, s, fanoutQueue) \/ Resets(p, ClosePeer(s), TRUE, fanoutQueue)
  BY <1>1, <1>7, FailSetupGoes DEF SetupPoints
<1> QED BY <1>4, <1>5, <1>6, <1>7

LEMMA RetainedGoes ==
  ASSUME SessionInv, NEW p \in Peer, peer[p].queue # <<>>,
         Pt(peer[p]) \in {"fanout-lock", "subscribe"}, Retained(p)
  PROVE  SessionsGo
<1> DEFINE s == peer[p]
           u == [s EXCEPT !.fanoutRetained = TRUE]
           lock == Tail(fanoutQueue)
<1>1. PeerOK(s) /\ s \in PeerState /\ SessionOK(s) BY SessionIs
<1>2. s.phase = "authenticating" /\ s.queue[1].kind \in Setup /\ s.lease
  BY <1>1, SetupIs DEF SetupPoints, SessionOK, LeasePoints
<1>3. /\ u \in PeerState /\ u.queue = s.queue /\ u.phase = s.phase /\ u.open = s.open
      /\ u.leaveRequested = s.leaveRequested /\ u.authPromise = s.authPromise /\ u.lease = s.lease
      /\ u.session = s.session
  BY <1>1 DEF PeerState
<1>4. \/ Resets(p, u, TRUE, lock)
      \/ ~Leaving(u) /\ Becomes(p, Authenticated(u))
      \/ \E role \in Sessions \ {"none"} : Becomes(p, Goto([u EXCEPT !.session = role], "ready"))
  BY DEF Retained
<1> HIDE DEF u
<1>5. RunOK(u) BY <1>1, <1>2, <1>3 DEF PeerOK, RunOK, PhaseOK, HeldOK
<1>6. CASE Resets(p, u, TRUE, lock)
  BY <1>2, <1>3, <1>5, <1>6, ResetsGo
<1>7. CASE ~Leaving(u) /\ Becomes(p, Authenticated(u))
  <2>1. ~Leaving(s) BY <1>3, <1>7 DEF Leaving
  <2> QED BY <1>2, <1>3, <1>5, <1>7, <2>1, AuthenticatedGoes DEF LeasePoints
<1>8. ASSUME NEW role \in Sessions \ {"none"}, Becomes(p, Goto([u EXCEPT !.session = role], "ready"))
      PROVE  SessionsGo
  <2> DEFINE v == [u EXCEPT !.session = role]
  <2>1. /\ v \in PeerState /\ v.queue = s.queue /\ v.phase = s.phase /\ v.lease = s.lease
        /\ v.leaveRequested = s.leaveRequested /\ v.authPromise = s.authPromise
    BY <1>3 DEF PeerState
  <2>2. Becomes(p, Goto(v, "ready")) BY <1>8
  <2> HIDE DEF v
  <2> QED BY <1>2, <2>1, <2>2, SetupGoes DEF SetupPoints
<1> QED BY <1>4, <1>6, <1>7, <1>8

LEMMA RetainFanoutGoes == ASSUME SessionInv, NEW p \in Peer, RetainFanout(p) PROVE SessionsGo
<1> DEFINE s == peer[p]
<1>1. PeerOK(s) /\ s \in PeerState /\ SessionOK(s) /\ Pt(s) = "fanout-lock" /\ s.queue # <<>>
  BY SessionIs, AtIs DEF RetainFanout, SessionInv
<1>2. s.phase = "authenticating" /\ s.lease
  BY <1>1, SetupIs DEF SetupPoints, SessionOK, LeasePoints
<1>3. Retained(p) \/ \E point \in {"subscribe", "drop-stale"} : Becomes(p, Goto(s, point))
  BY DEF RetainFanout
<1>4. ASSUME NEW point \in {"subscribe", "drop-stale"}, Becomes(p, Goto(s, point)) PROVE SessionsGo
  BY <1>1, <1>2, <1>4, SetupGoes DEF SetupPoints
<1> QED BY <1>1, <1>3, <1>4, RetainedGoes

LEMMA SubscriptionGoes ==
  ASSUME SessionInv, NEW p \in Peer, StaleDropped(p) \/ Subscribed(p)
  PROVE  SessionsGo
<1> DEFINE s == peer[p]
<1>1. At(p, "drop-stale") \/ At(p, "subscribe") BY DEF StaleDropped, Subscribed
<1>2. /\ PeerOK(s) /\ s \in PeerState /\ SessionOK(s) /\ s.queue # <<>>
      /\ Pt(s) \in {"drop-stale", "subscribe"}
  BY <1>1, SessionIs, AtIs DEF SessionInv
<1>3. s.phase = "authenticating" /\ s.lease
  BY <1>2, SetupIs DEF SetupPoints, SessionOK, LeasePoints
<1>4. \/ Becomes(p, Goto(s, "subscribe"))
      \/ At(p, "subscribe") /\ Retained(p)
      \/ FailSetup(p, s, Tail(fanoutQueue))
  BY DEF StaleDropped, Subscribed
<1>5. CASE Becomes(p, Goto(s, "subscribe"))
  BY <1>2, <1>3, <1>5, SetupGoes DEF SetupPoints
<1>6. CASE At(p, "subscribe") /\ Retained(p)
  <2>1. Pt(s) = "subscribe" BY <1>6, AtIs DEF SessionInv
  <2> QED BY <1>2, <1>6, <2>1, RetainedGoes
<1>7. CASE FailSetup(p, s, Tail(fanoutQueue))
  BY <1>2, <1>7, FailSetupGoes DEF SetupPoints
<1> QED BY <1>4, <1>5, <1>6, <1>7

LEMMA ReadySentGoes == ASSUME SessionInv, NEW p \in Peer, ReadySent(p) PROVE SessionsGo
<1> DEFINE s == peer[p]
<1>1. PeerOK(s) /\ s \in PeerState /\ RunOK(s) /\ Pt(s) = "ready" /\ s.queue # <<>>
  BY SessionIs, AtIs DEF ReadySent, SessionInv
<1>2. s.phase = "authenticating" BY <1>1, SetupIs DEF SetupPoints
<1>3. CASE ~Leaving(s) /\ Becomes(p, Authenticated(s))
  BY <1>1, <1>2, <1>3, AuthenticatedGoes DEF LeasePoints
<1>4. CASE FailSetup(p, s, fanoutQueue) \/ Resets(p, s, TRUE, fanoutQueue)
  BY <1>1, <1>4, FailSetupGoes DEF SetupPoints
<1> QED BY <1>3, <1>4 DEF ReadySent

-----------------------------------------------------------------------------
(* The jobs of a removal.                                                  *)

LEMMA RemovalGoes ==
  ASSUME SessionInv, NEW p \in Peer,
         ReleaseFanout(p) \/ Unsubscribed(p) \/ LeaseReleased(p) \/ SessionEnded(p)
  PROVE  SessionsGo
<1> DEFINE s == peer[p]
<1>1. PICK point \in ResetPoints : At(p, point)
  BY DEF ReleaseFanout, Unsubscribed, LeaseReleased, SessionEnded, ResetPoints
<1>2. PeerOK(s) /\ s \in PeerState /\ RunOK(s) /\ SessionOK(s) /\ s.queue # <<>> /\ Pt(s) \in ResetPoints
  BY <1>1, SessionIs, AtIs DEF SessionInv
<1>3. Going(s) /\ ~s.fanoutRetained BY <1>2, GoingAt DEF PeerOK, HoldsOK
<1>4. ASSUME NEW t, Ends(s, t), Becomes(p, t) PROVE SessionsGo
  <2>1. Goes(s, t) BY <1>4 DEF Ends, Goes
  <2> QED BY <1>4, <2>1, GoesByOne
<1>5. CASE ReleaseFanout(p) \/ Unsubscribed(p)
  <2>1. Becomes(p, Goto(s, "unsubscribe")) \/ Becomes(p, ReleaseLease(s))
    BY <1>5 DEF ReleaseFanout, Unsubscribed
  <2>2. Ends(s, Goto(s, "unsubscribe")) BY <1>2, <1>3, ResetAt DEF ResetPoints
  <2>3. Ends(s, ReleaseLease(s)) BY <1>2, <1>3, ReleaseLeaseSession
  <2> QED BY <1>4, <2>1, <2>2, <2>3
<1>6. CASE LeaseReleased(p)
  <2>1. Pt(s) = "lease-release" /\ Becomes(p, EndSession(s))
    BY <1>6, AtIs DEF LeaseReleased, SessionInv
  <2>2. ~s.lease BY <1>2, <2>1 DEF PeerOK, HoldsOK
  <2> QED BY <1>2, <1>3, <1>4, <2>1, <2>2, EndSessionSession
<1>7. CASE SessionEnded(p)
  <2>1. Pt(s) = "session-end" /\ Becomes(p, FinishReset(s))
    BY <1>7, AtIs DEF SessionEnded, SessionInv
  <2>2. ~s.lease /\ s.session = "none" BY <1>2, <2>1 DEF PeerOK, HoldsOK
  <2> QED BY <1>2, <1>3, <1>4, <2>1, <2>2, FinishResetSession
<1> QED BY <1>5, <1>6, <1>7

-----------------------------------------------------------------------------
(* The jobs of a session.                                                  *)

\* The job has another continuation or another answer.
LEMMA BusyRewritten ==
  ASSUME NEW s, Busy(s), NEW j, NEW t, Rewritten(s, j, t),
         j.kind = s.queue[1].kind, j.at = s.queue[1].at, j.remove = s.queue[1].remove
  PROVE  Busy(t) /\ SameSelf(s, t) /\ Pt(t) = Pt(s)
<1>1. s \in PeerState /\ s.queue # <<>> /\ JobOK(s.queue[1]) /\ QueueOK(s.queue)
  BY HeadIsJob DEF Busy, MayEnd, QueueOK
<1>2. JobOK(j) BY <1>1 DEF Busy, JobOK, Setup
<1>3. QueueOK(t.queue) /\ Pt(t) = j.at BY <1>1, <1>2, RewrittenQueue
<1>4. SameSelf(s, t) /\ t.queue # <<>> /\ t.queue[1] = j BY <1>1, SelfRewritten
<1>5. SameRest(s, t) /\ Len(t.queue) = Len(s.queue) /\ t \in PeerState BY DEF Rewritten
<1>6. Busy(t) BY <1>3, <1>4, <1>5 DEF Busy, MayEnd, HeldOK, SameRest
<1> QED BY <1>1, <1>3, <1>4, <1>6 DEF Pt

\* What a job of a session may come to.
LEMMA SteadyGoes ==
  ASSUME SessionInv, NEW p \in Peer, NEW s, Busy(s), Steady(s), s.phase = peer[p].phase,
         NEW active \in BOOLEAN,
         NEW t \in {Done(s), Continue(s, active), MaintainLease(s), MaintainPeer(s)},
         Becomes(p, t)
  PROVE  SessionsGo
<1>1. /\ SessionOK(Continue(s, active)) /\ Continue(s, active).phase = s.phase
      /\ SessionOK(MaintainLease(s)) /\ MaintainLease(s).phase = s.phase
      /\ SessionOK(MaintainPeer(s)) /\ MaintainPeer(s).phase = s.phase
  BY MaintainSession
<1>2. SessionOK(Done(s)) /\ Done(s).phase = s.phase
  <2>1. SameSelf(s, Done(s)) BY SelfDone DEF Busy, MayEnd
  <2>2. Pt(Done(s)) \in CalmPoints BY EndsCalm DEF Busy, Calm
  <2>3. Steady(Done(s)) BY <2>1, SteadySelf
  <2>4. SessionOK(Done(s)) BY <2>2, <2>3, SteadyStays DEF CalmPoints, ResetPoints, LeasePoints
  <2> QED BY <2>1, <2>4 DEF SameSelf
<1>3. SessionOK(t) /\ t.phase = s.phase BY <1>1, <1>2
<1>4. Goes(peer[p], t) BY <1>3 DEF Goes
<1> QED BY <1>4, GoesByOne

LEMMA StartJobGoes == ASSUME SessionInv, NEW p \in Peer, StartJob(p) PROVE SessionsGo
<1> DEFINE s == peer[p]
           kind == s.queue[1].kind
<1>1. At(p, "start") BY DEF StartJob
<1>2. /\ PeerOK(s) /\ s \in PeerState /\ RunOK(s) /\ SessionOK(s) /\ Pt(s) = "start" /\ s.queue # <<>>
      /\ Running(s) = s.queue[1] /\ s.queue[1] \in Job /\ JobOK(s.queue[1])
  BY <1>1, SessionIs, AtIs DEF SessionInv
<1>3. kind \in {"resume", "event", "repair", "maintain", "reset", "close"}
  BY <1>2 DEF Job, JobOK, Pt
<1>4. CASE kind \in {"reset", "close"}
  <2>1. Resets(p, s, TRUE, fanoutQueue) BY <1>2, <1>4 DEF StartJob
  <2>2. kind \in Kinds(s) BY <1>2, HeadIsJob DEF Kinds
  <2>3. s.phase = "authenticated" => s.leaveRequested
    BY <1>2, <1>4, <2>2 DEF SessionOK, ToldOK, Removals
  <2> QED BY <1>2, <2>1, <2>3, ResetsGo
<1>5. CASE kind = "resume"
  <2>1. PICK role \in Sessions \ {"none"} : Becomes(p, Goto([s EXCEPT !.session = role], "recheck"))
    BY <1>2, <1>5 DEF StartJob
  <2>2. s.phase = "authenticating" BY <1>2, <1>5, SetupIs
  <2> DEFINE u == [s EXCEPT !.session = role]
  <2>3. /\ u \in PeerState /\ u.queue = s.queue /\ u.phase = s.phase
        /\ u.leaveRequested = s.leaveRequested /\ u.authPromise = s.authPromise
    BY <1>2 DEF PeerState
  <2>4. Becomes(p, Goto(u, "recheck")) BY <2>1
  <2> HIDE DEF u
  <2> QED BY <1>2, <2>2, <2>3, <2>4, SetupGoes DEF SetupPoints, LeasePoints
<1>6. CASE kind \in {"event", "repair", "maintain"}
  <2>1. PICK active \in BOOLEAN : Becomes(p, MaintainPeer(s)) \/ Becomes(p, Continue(s, active))
    <3>1. (s.phase = "authenticated" /\ ~s.leaveRequested) \in BOOLEAN OBVIOUS
    <3> QED BY <1>2, <1>6, <3>1 DEF StartJob
  <2>2. Busy(s) BY <1>2, <1>6, BusyIs DEF CalmPoints
  <2>3. Steady(s) BY <1>2, SteadyIs DEF ResetPoints
  <2> QED BY <2>1, <2>2, <2>3, SteadyGoes
<1> QED BY <1>3, <1>4, <1>5, <1>6

LEMMA EventGoes ==
  ASSUME SessionInv, NEW p \in Peer, Appended(p) \/ Published(p) \/ HistoryRead(p)
  PROVE  SessionsGo
<1> DEFINE s == peer[p]
           u == Then(s, "publish")
           w == Then(s, "reply")
           v == [w EXCEPT !.queue[1].data = durable]
<1>1. PICK point \in {"append", "publish", "read"} : At(p, point)
  BY DEF Appended, Published, HistoryRead
<1>2. /\ PeerOK(s) /\ s \in PeerState /\ SessionOK(s) /\ Pt(s) = point /\ s.queue # <<>>
      /\ s.queue[1] \in Job
  BY <1>1, SessionIs, AtIs DEF SessionInv
<1>3. Busy(s) BY <1>2, BusyIs DEF CalmPoints
<1>4. Steady(s) BY <1>2, SteadyIs DEF ResetPoints
<1>5. Busy(u) /\ SameSelf(s, u)
  <2> DEFINE j == [s.queue[1] EXCEPT !.next = "publish"]
  <2>1. Rewritten(s, j, u) BY <1>2, ThenIs DEF Continuations
  <2>2. j.kind = s.queue[1].kind /\ j.at = s.queue[1].at /\ j.remove = s.queue[1].remove
    BY <1>2 DEF Job
  <2> HIDE DEF j, u
  <2> QED BY <1>3, <2>1, <2>2, BusyRewritten
<1>6. Busy(v) /\ SameSelf(s, v)
  <2> DEFINE i == [s.queue[1] EXCEPT !.next = "reply"]
             j == [i EXCEPT !.data = durable]
  <2>1. Rewritten(s, i, w) BY <1>2, ThenIs DEF Continuations
  <2>2. w \in PeerState /\ w.queue # <<>> /\ w.queue[1] = i /\ i \in Job /\ 1 \in DOMAIN w.queue
    BY <2>1, HeadIsJob DEF Rewritten
  <2> HIDE DEF w
  <2>3. v = [w EXCEPT !.queue = [w.queue EXCEPT ![1] = j]] BY <2>2
  <2>4. j \in Job BY <2>2 DEF Job, SessionInv, RoomInv, ShapeOK
  <2>5. j.kind = s.queue[1].kind /\ j.at = s.queue[1].at /\ j.remove = s.queue[1].remove
    BY <1>2 DEF Job
  <2> HIDE DEF i, j, v
  <2>6. Rewritten(w, j, v) BY <2>2, <2>3, <2>4, SetHead
  <2>7. Rewritten(s, j, v) BY <2>1, <2>6, RewrittenTwice
  <2> QED BY <1>3, <2>5, <2>7, BusyRewritten
<1>7. \/ Becomes(p, Done(s))
      \/ Becomes(p, MaintainPeer(u)) \/ Becomes(p, Continue(u, TRUE))
      \/ Becomes(p, MaintainPeer(v)) \/ Becomes(p, Continue(v, Current(v)))
  BY DEF Appended, Published, HistoryRead, AfterStore
<1> HIDE DEF u, v, w
<1>8. Steady(u) /\ Steady(v) /\ u.phase = s.phase /\ v.phase = s.phase
  BY <1>4, <1>5, <1>6, SteadySelf DEF SameSelf
<1>9. Current(v) \in BOOLEAN BY DEF Current
<1> QED BY <1>3, <1>4, <1>5, <1>6, <1>7, <1>8, <1>9, SteadyGoes

\* The answer of the refresh that the job asked for.
LEMMA RefreshedGoes == ASSUME SessionInv, NEW p \in Peer, Refreshed(p) PROVE SessionsGo
<1> DEFINE s == [peer[p] EXCEPT !.authPromise = FALSE]
<1>1. At(p, "refresh") BY DEF Refreshed
<1>2. /\ PeerOK(peer[p]) /\ peer[p] \in PeerState /\ SessionOK(peer[p])
      /\ Pt(peer[p]) = "refresh" /\ peer[p].queue # <<>>
  BY <1>1, SessionIs, AtIs DEF SessionInv
<1>3. SameCore(peer[p], s) BY <1>2 DEF SameCore, PeerState
<1>4. PeerOK(s) /\ Pt(s) = "refresh" BY <1>2, <1>3, SameCoreKept
<1>5. /\ ~s.authPromise /\ s.leaseTimer = peer[p].leaseTimer /\ s.leaseCall = peer[p].leaseCall
      /\ s.session = peer[p].session
  BY <1>2 DEF PeerState
<1>6. \/ \E role \in Sessions \ {"none"} :
            Current(s) /\ Becomes(p, MaintainLease(ArmAuth([s EXCEPT !.session = role])))
      \/ ~Current(s) /\ Becomes(p, Continue(s, FALSE))
      \/ Resets(p, ClosePeer(s), TRUE, fanoutQueue)
  BY DEF Refreshed
<1> HIDE DEF s
<1>7. /\ s \in PeerState /\ s.queue = peer[p].queue /\ s.phase = peer[p].phase
      /\ s.leaveRequested = peer[p].leaveRequested /\ s.lease = peer[p].lease
      /\ (Current(s) <=> Current(peer[p]))
  BY <1>3, <1>5 DEF SameCore, Current
<1>8. ToldOK(s) BY <1>2, <1>7 DEF SessionOK, ToldOK, Kinds
<1>9. Current(s) /\ Background => s.lease /\ (s.leaseTimer \/ s.leaseCall)
  BY <1>2, <1>5, <1>7 DEF SessionOK, ResetPoints
<1>10. ASSUME NEW role \in Sessions \ {"none"}, Current(s),
              Becomes(p, MaintainLease(ArmAuth([s EXCEPT !.session = role])))
       PROVE  SessionsGo
  <2> DEFINE t == ArmAuth([s EXCEPT !.session = role])
  <2>1. SameCore(s, t) BY <1>7, <1>10, SessionCore DEF Current
  <2>2. /\ t.authTimer = Background /\ ~t.authPromise
        /\ t.leaseTimer = s.leaseTimer /\ t.leaseCall = s.leaseCall
    BY <1>5, <1>7 DEF ArmAuth, Background, PeerState
  <2>3. Becomes(p, MaintainLease(t)) BY <1>10
  <2> HIDE DEF t
  <2>4. PeerOK(t) /\ Pt(t) = "refresh" BY <1>4, <2>1, SameCoreKept
  <2>5. Busy(t) BY <2>4, BusyIs DEF CalmPoints
  <2>6. ToldOK(t) BY <1>8, <2>1 DEF ToldOK, SameCore, Kinds
  <2>7. Steady(t) BY <1>9, <1>10, <2>1, <2>2, <2>6 DEF Steady, PromiseOK, Checked, SameCore
  <2>8. t.phase = peer[p].phase BY <1>7, <2>1 DEF SameCore
  <2> QED BY <2>3, <2>5, <2>7, <2>8, SteadyGoes
<1>11. CASE ~Current(s) /\ Becomes(p, Continue(s, FALSE))
  <2>1. Busy(s) BY <1>4, BusyIs DEF CalmPoints
  <2>2. Steady(s) BY <1>5, <1>8, <1>11 DEF Steady, PromiseOK
  <2> QED BY <1>7, <1>11, <2>1, <2>2, SteadyGoes
<1>12. CASE Resets(p, ClosePeer(s), TRUE, fanoutQueue)
  <2> DEFINE u == ClosePeer(s)
  <2>1. /\ u \in PeerState /\ u.queue = s.queue /\ u.phase = s.phase /\ u.open = FALSE
        /\ u.fanoutRetained = s.fanoutRetained /\ u.lease = s.lease
        /\ u.session = s.session /\ u.leaveRequested = s.leaveRequested
    BY <1>7 DEF PeerState, ClosePeer
  <2>2. Resets(p, u, TRUE, fanoutQueue) BY <1>12
  <2> HIDE DEF u
  <2>3. RunOK(u) BY <1>4, <2>1 DEF PeerOK, RunOK, PhaseOK, HeldOK
  <2> QED BY <1>2, <1>7, <2>1, <2>2, <2>3, ResetsGo
<1> QED BY <1>6, <1>10, <1>11, <1>12

LEMMA LeaseRefreshedGoes == ASSUME SessionInv, NEW p \in Peer, LeaseRefreshed(p) PROVE SessionsGo
<1> DEFINE s == peer[p]
           t == ArmLease(s)
           u == ClosePeer([s EXCEPT !.leaveRequested = TRUE])
<1>1. At(p, "lease-refresh") BY DEF LeaseRefreshed
<1>2. /\ PeerOK(s) /\ s \in PeerState /\ SessionOK(s) /\ Pt(s) = "lease-refresh" /\ s.queue # <<>>
  BY <1>1, SessionIs, AtIs DEF SessionInv
<1>3. Busy(s) /\ Steady(s) BY <1>2, BusyIs, SteadyIs DEF CalmPoints, ResetPoints
<1>4. \/ Becomes(p, Continue(t, TRUE)) \/ Becomes(p, Continue(s, FALSE))
      \/ Resets(p, u, TRUE, fanoutQueue)
  BY DEF LeaseRefreshed
<1>5. CASE Becomes(p, Continue(t, TRUE))
  <2>1. SameCore(s, t) BY <1>2, ArmLeaseCore
  <2>2. /\ t.leaseTimer = Background /\ t.authTimer = s.authTimer /\ t.authPromise = s.authPromise
        /\ t.authCall = s.authCall
    BY <1>2 DEF ArmLease, Background, PeerState
  <2> HIDE DEF t
  <2>3. PeerOK(t) /\ Pt(t) = "lease-refresh" BY <1>2, <2>1, SameCoreKept
  <2>4. Busy(t) BY <2>3, BusyIs DEF CalmPoints
  <2>5. ToldOK(t) /\ PromiseOK(t) BY <1>3, <2>1, <2>2 DEF Steady, ToldOK, PromiseOK, SameCore, Kinds
  <2>6. Steady(t) BY <1>3, <2>1, <2>2, <2>5 DEF Steady, Checked, SameCore, Current
  <2>7. t.phase = s.phase BY <2>1 DEF SameCore
  <2> QED BY <1>5, <2>4, <2>6, <2>7, SteadyGoes
<1>6. CASE Becomes(p, Continue(s, FALSE))
  BY <1>3, <1>6, SteadyGoes
<1>7. CASE Resets(p, u, TRUE, fanoutQueue)
  <2>1. /\ u \in PeerState /\ u.queue = s.queue /\ u.phase = s.phase /\ u.open = FALSE
        /\ u.fanoutRetained = s.fanoutRetained /\ u.lease = s.lease
        /\ u.session = s.session /\ u.leaveRequested = TRUE
    BY <1>2 DEF PeerState, ClosePeer
  <2>2. Resets(p, u, TRUE, fanoutQueue) BY <1>7
  <2> HIDE DEF u
  <2>3. RunOK(u) BY <1>2, <2>1 DEF PeerOK, RunOK, PhaseOK, HeldOK
  <2> QED BY <1>2, <2>1, <2>2, <2>3, ResetsGo
<1> QED BY <1>4, <1>5, <1>6, <1>7

-----------------------------------------------------------------------------
(* The answers of the refreshes that the timers asked for.                 *)

\* Such an answer stands for the timer that asked, wherever the job is.
LEMMA AnsweredSession ==
  ASSUME NEW s \in PeerState, SessionOK(s), NEW role \in Sessions \ {"none"}
  PROVE  LET u == [s EXCEPT !.authCall = FALSE, !.authPromise = FALSE]
             t == IF Current(u) THEN ArmAuth([u EXCEPT !.session = role]) ELSE u
         IN  SessionOK(t) /\ SameCore(s, t)
<1> DEFINE u == [s EXCEPT !.authCall = FALSE, !.authPromise = FALSE]
           t == IF Current(u) THEN ArmAuth([u EXCEPT !.session = role]) ELSE u
<1>1. Current(u) <=> Current(s) BY DEF PeerState, Current
<1>2. /\ t \in PeerState /\ t.queue = s.queue /\ t.phase = s.phase /\ t.open = s.open
      /\ t.leaveRequested = s.leaveRequested /\ t.fanoutRetained = s.fanoutRetained
      /\ t.lease = s.lease /\ ~t.authPromise
      /\ t.leaseTimer = s.leaseTimer /\ t.leaseCall = s.leaseCall
      /\ ~Current(s) => t.session = s.session
      /\ Current(s) => t.session # "none" /\ t.authTimer = Background
  BY <1>1 DEF PeerState, ArmAuth, Background
<1> HIDE DEF t
<1>3. t.session # "none" <=> s.session # "none" BY <1>2 DEF Current
<1>4. SameCore(s, t) BY <1>2, <1>3 DEF SameCore
<1>5. Kinds(t) = Kinds(s) /\ Pt(t) = Pt(s) /\ (Current(t) <=> Current(s))
  BY <1>2, <1>3 DEF Kinds, Pt, Current
<1>6. ToldOK(t) /\ PromiseOK(t) BY <1>2, <1>5 DEF SessionOK, ToldOK, PromiseOK
<1>7. SessionOK(t) BY <1>2, <1>5, <1>6 DEF SessionOK
<1> QED BY <1>4, <1>7 DEF t, u

LEMMA AuthCallAnsweredGoes == ASSUME SessionInv, NEW p \in Peer, AuthCallAnswered(p) PROVE SessionsGo
<1> DEFINE s == [peer[p] EXCEPT !.authCall = FALSE, !.authPromise = FALSE]
           waits == At(p, "shared-refresh")
<1>1. PeerOK(peer[p]) /\ peer[p] \in PeerState /\ SessionOK(peer[p]) BY SessionIs
<1>2. waits => Pt(peer[p]) = "shared-refresh" BY AtIs DEF SessionInv
\* Either way, the timer's own continuation leaves t, and the job goes on.
<1>3. ASSUME NEW t, SessionOK(t), PeerOK(t), t.phase = peer[p].phase,
             waits => Pt(t) = "shared-refresh",
             NEW v \in {t, MaintainLease(t), Continue(t, FALSE)}, v # t => waits, Becomes(p, v)
      PROVE  SessionsGo
  <2>1. CASE v = t
    <3>1. Goes(peer[p], t) BY <1>3 DEF Goes
    <3> QED BY <1>3, <2>1, <3>1, GoesByOne
  <2>2. CASE v # t
    <3>1. Busy(t) BY <1>3, <2>2, BusyIs DEF CalmPoints
    <3>2. Steady(t) BY <1>3, <2>2, SteadyIs DEF ResetPoints
    <3> QED BY <1>3, <2>2, <3>1, <3>2, SteadyGoes
  <2> QED BY <2>1, <2>2
<1>4. ASSUME NEW role \in Sessions \ {"none"},
             LET t == IF Current(s) THEN ArmAuth([s EXCEPT !.session = role]) ELSE s
             IN  Becomes(p, IF ~waits THEN t
                            ELSE IF Current(t) THEN MaintainLease(t) ELSE Continue(t, FALSE))
      PROVE  SessionsGo
  <2> DEFINE t == IF Current(s) THEN ArmAuth([s EXCEPT !.session = role]) ELSE s
             v == IF ~waits THEN t
                  ELSE IF Current(t) THEN MaintainLease(t) ELSE Continue(t, FALSE)
  <2>1. SessionOK(t) /\ SameCore(peer[p], t) BY <1>1, AnsweredSession
  <2>2. Becomes(p, v) BY <1>4
  <2> HIDE DEF s, t
  <2>3. PeerOK(t) /\ Pt(t) = Pt(peer[p]) BY <1>1, <2>1, SameCoreKept
  <2>4. t.phase = peer[p].phase BY <2>1 DEF SameCore
  <2>5. v \in {t, MaintainLease(t), Continue(t, FALSE)} /\ (v # t => waits) OBVIOUS
  <2> HIDE DEF v, waits
  <2> QED BY <1>2, <1>3, <2>1, <2>2, <2>3, <2>4, <2>5
<1>5. ASSUME LET t == Terminate(s) IN Becomes(p, IF waits THEN Continue(t, FALSE) ELSE t)
      PROVE  SessionsGo
  <2> DEFINE t == Terminate(s)
             v == IF waits THEN Continue(t, FALSE) ELSE t
  <2>1. Becomes(p, v) BY <1>5
  <2>2. SameCore(peer[p], s) BY <1>1 DEF SameCore, PeerState
  <2>3. ~s.authPromise /\ s.session = peer[p].session BY <1>1 DEF PeerState
  <2> HIDE DEF s
  <2>4. PeerOK(s) /\ Pt(s) = Pt(peer[p]) BY <1>1, <2>2, SameCoreKept
  <2>5. Kinds(s) = Kinds(peer[p]) BY <2>2 DEF SameCore, Kinds
  <2>6. ToldOK(s) /\ PromiseOK(s) /\ (Pt(s) \in LeasePoints => s.lease)
    BY <1>1, <2>2, <2>3, <2>4, <2>5 DEF SessionOK, ToldOK, PromiseOK, SameCore
  <2>7. ~Current(s) => SessionOK(s)
    BY <1>1, <2>2, <2>3, <2>4, <2>6 DEF SessionOK, SameCore
  <2>8. SessionOK(t) /\ t.phase = peer[p].phase
    BY <2>2, <2>6, <2>7, TerminateSession DEF SameCore
  <2>9. PeerOK(t) /\ (Pt(s) # "none" => Pt(t) = Pt(s)) BY <2>4, TerminateKept
  <2>10. v \in {t, MaintainLease(t), Continue(t, FALSE)} /\ (v # t => waits) OBVIOUS
  <2> HIDE DEF t, v, waits
  <2> QED BY <1>2, <1>3, <2>1, <2>4, <2>8, <2>9, <2>10
<1> QED BY <1>4, <1>5 DEF AuthCallAnswered

LEMMA LeaseCallAnsweredGoes == ASSUME SessionInv, NEW p \in Peer, LeaseCallAnswered(p) PROVE SessionsGo
<1> DEFINE s == [peer[p] EXCEPT !.leaseCall = FALSE]
           t == ArmLease(s)
<1>1. peer[p] \in PeerState /\ SessionOK(peer[p]) BY SessionIs
<1>2. \/ Current(s) /\ Becomes(p, t)
      \/ ~Current(s) /\ Becomes(p, s)
      \/ Becomes(p, Terminate(s))
  BY DEF LeaseCallAnswered
<1>3. /\ SameCore(peer[p], s) /\ s.authTimer = peer[p].authTimer
      /\ s.authPromise = peer[p].authPromise /\ s.authCall = peer[p].authCall
      /\ s.session = peer[p].session
  BY <1>1 DEF SameCore, PeerState
<1>4. /\ SameCore(peer[p], t) /\ t.authTimer = peer[p].authTimer
      /\ t.authPromise = peer[p].authPromise /\ t.authCall = peer[p].authCall
      /\ t.session = peer[p].session /\ t.leaseTimer = Background
  BY <1>1 DEF SameCore, PeerState, ArmLease, Background
<1> HIDE DEF s, t
\* Both are as before, but for the timer and the call of the lease.
<1>5. ASSUME NEW u, SameCore(peer[p], u), u.authTimer = peer[p].authTimer,
             u.authPromise = peer[p].authPromise, u.authCall = peer[p].authCall,
             u.session = peer[p].session, Current(u) /\ Background => u.leaseTimer
      PROVE  SessionOK(u)
  <2>1. Kinds(u) = Kinds(peer[p]) /\ Pt(u) = Pt(peer[p]) /\ (Current(u) <=> Current(peer[p]))
    BY <1>5 DEF SameCore, Kinds, Pt, Current
  <2>2. ToldOK(u) /\ PromiseOK(u)
    BY <1>1, <1>5, <2>1 DEF SessionOK, ToldOK, PromiseOK, SameCore
  <2> QED BY <1>1, <1>5, <2>1, <2>2 DEF SessionOK, SameCore
<1>6. SessionOK(t) /\ t.phase = peer[p].phase BY <1>4, <1>5 DEF SameCore
<1>7. ~Current(s) => SessionOK(s) BY <1>3, <1>5
<1>8. SessionOK(Terminate(s)) /\ Terminate(s).phase = peer[p].phase
  <2>1. s \in PeerState /\ s.phase = peer[p].phase BY <1>3 DEF SameCore
  <2>2. PromiseOK(s) /\ (Pt(s) \in LeasePoints => s.lease)
    BY <1>1, <1>3 DEF SessionOK, PromiseOK, SameCore, Pt
  <2> QED BY <1>7, <2>1, <2>2, TerminateSession
<1>9. s.phase = peer[p].phase BY <1>3 DEF SameCore
<1> QED BY <1>2, <1>6, <1>7, <1>8, <1>9, GoesByOne DEF Goes

-----------------------------------------------------------------------------
(* The theorems.                                                           *)

LEMMA JobStepGoes == ASSUME SessionInv, NEW p \in Peer, JobStep(p) PROVE SessionsGo
<1>1. CASE StartJob(p) BY <1>1, StartJobGoes
<1>2. CASE Authorized(p) BY <1>2, AuthorizedGoes
<1>3. CASE Rechecked(p) BY <1>3, RecheckedGoes
<1>4. CASE Acquired(p) BY <1>4, AcquiredGoes
<1>5. CASE RetainFanout(p) BY <1>5, RetainFanoutGoes
<1>6. CASE StaleDropped(p) \/ Subscribed(p) BY <1>6, SubscriptionGoes
<1>7. CASE ReadySent(p) BY <1>7, ReadySentGoes
<1>8. CASE Refreshed(p) BY <1>8, RefreshedGoes
<1>9. CASE LeaseRefreshed(p) BY <1>9, LeaseRefreshedGoes
<1>10. CASE Appended(p) \/ Published(p) \/ HistoryRead(p) BY <1>10, EventGoes
<1>11. CASE ReleaseFanout(p) \/ Unsubscribed(p) \/ LeaseReleased(p) \/ SessionEnded(p)
  BY <1>11, RemovalGoes
<1> QED BY <1>1, <1>2, <1>3, <1>4, <1>5, <1>6, <1>7, <1>8, <1>9, <1>10, <1>11 DEF JobStep

LEMMA SessionStep == ASSUME SessionInv, Next PROVE SessionsGo
<1>1. ASSUME NEW p \in Peer,
             Join(p) \/ ReceiveAuth(p) \/ Resume(p) \/ ReceiveMessage(p) \/ Leave(p) \/ JobStep(p)
      PROVE  SessionsGo
  BY <1>1, JoinGoes, SetupRequestGoes, ReceiveMessageGoes, LeaveGoes, JobStepGoes
<1>2. ASSUME NEW p \in Peer,
             Expires(p) \/ AuthTimer(p) \/ AuthCallAnswered(p) \/ LeaseTimer(p) \/ LeaseCallAnswered(p)
      PROVE  SessionsGo
  BY <1>2, ExpiresGoes, AuthTimerGoes, AuthCallAnsweredGoes, LeaseTimerGoes, LeaseCallAnsweredGoes
<1>3. ASSUME MaintenanceStep \/ Close \/ Deliver PROVE SessionsGo
  BY <1>3, MaintenanceGoes, CloseGoes, DeliverGoes
<1>4. ASSUME CloseStep \/ RemoteCommit \/ RemotePublish \/ Drop PROVE SessionsGo
  <2>1. UNCHANGED peer
    BY <1>4 DEF CloseStep, CloseDrained, CloseFanout, CloseUnsubscribed, RemoteCommit, RemotePublish, Drop
  <2> QED BY <2>1, QuietGoes
<1> QED BY <1>1, <1>2, <1>3, <1>4 DEF Next

\* What SessionOK says depends on the host, which no step changes.
LEMMA HostStays == ASSUME Inv, Next PROVE host' = host
<1> USE DEF bounds, Sends, Fails, Succeeds
<1>1. ASSUME NEW p \in Peer, JobStep(p) PROVE host' = host
  <2>1. CASE StartJob(p) \/ RetainFanout(p) \/ ReleaseFanout(p) \/ LeaseReleased(p) \/ SessionEnded(p)
    BY <2>1 DEF StartJob, RetainFanout, ReleaseFanout, LeaseReleased, SessionEnded
  <2>2. CASE Authorized(p) \/ Rechecked(p) \/ Acquired(p) \/ ReadySent(p)
    BY <2>2 DEF Authorized, Rechecked, Acquired, ReadySent
  <2>3. CASE StaleDropped(p) \/ Subscribed(p) \/ Unsubscribed(p)
    BY <2>3 DEF StaleDropped, Subscribed, Unsubscribed
  <2>4. CASE Refreshed(p) \/ LeaseRefreshed(p) \/ Appended(p) \/ Published(p) \/ HistoryRead(p)
    BY <2>4 DEF Refreshed, LeaseRefreshed, Appended, Published, HistoryRead
  <2> QED BY <1>1, <2>1, <2>2, <2>3, <2>4 DEF JobStep
<1>2. ASSUME NEW p \in Peer,
             Join(p) \/ Leave(p) \/ AuthTimer(p) \/ AuthCallAnswered(p) \/ LeaseTimer(p) \/ LeaseCallAnswered(p)
      PROVE  host' = host
  BY <1>2 DEF Join, Leave, AuthTimer, AuthCallAnswered, LeaseTimer, LeaseCallAnswered
<1>3. ASSUME NEW p \in Peer, ReceiveAuth(p) \/ Resume(p) \/ ReceiveMessage(p) \/ Expires(p)
      PROVE  host' = host
  BY <1>3 DEF ReceiveAuth, Resume, ReceiveMessage, Expires
<1>4. ASSUME MaintenanceStep \/ Close \/ CloseStep PROVE host' = host
  BY <1>4 DEF MaintenanceStep, StartMaintenance, EndMaintenance, Close, CloseStep,
              CloseDrained, CloseFanout, CloseUnsubscribed
<1>5. ASSUME RemoteCommit \/ RemotePublish \/ Deliver \/ Drop PROVE host' = host
  BY <1>5 DEF RemoteCommit, RemotePublish, Deliver, Drop
<1> QED BY <1>1, <1>2, <1>3, <1>4, <1>5 DEF Next

LEMMA SessionsInit == ASSUME Init PROVE SessionsOK
<1> SUFFICES ASSUME NEW p \in Peer PROVE SessionOK(peer[p]) BY DEF SessionsOK
<1>1. peer[p] = NeverJoined BY DEF Init
<1> QED BY <1>1 DEF NeverJoined, SessionOK, ToldOK, PromiseOK, Current, Pt, ResetPoints, LeasePoints

LEMMA SessionsNext == ASSUME Inv, SessionsOK, Next PROVE SessionsOK'
<1>1. SessionsGo BY SessionStep DEF Inv, SessionInv
<1>2. Background' <=> Background BY HostStays DEF Background, RefreshMode
<1>3. ASSUME NEW p \in Peer PROVE SessionOK(peer[p])'
  <2>1. SessionOK(peer'[p]) BY <1>1 DEF SessionsGo, Goes
  <2> QED BY <1>2, <2>1 DEF SessionOK, ToldOK, PromiseOK
<1> QED BY <1>3 DEF SessionsOK

LEMMA SessionsStutter == ASSUME SessionsOK, UNCHANGED vars PROVE SessionsOK'
BY DEF SessionsOK, SessionOK, ToldOK, PromiseOK, Background, RefreshMode, vars, bounds

\* The sessions of the room are in order in each of its states.
LEMMA SessionsAlways == Spec => []SessionsOK
<1>1. Init => SessionsOK BY SessionsInit
<1>2. Inv /\ SessionsOK /\ [Next]_vars => SessionsOK' BY SessionsNext, SessionsStutter
<1> QED BY <1>1, <1>2, RoomAlways, PTL DEF Spec

\* The checks of an authenticated session never silently stop: its timer is
\* set, or the refresh is under way, or the session is being ended
\* (document-room-implementation.ts:1024-1171).
THEOREM RoomRevalidationContinues == Spec => []RevalidationContinues
<1>1. ASSUME Inv, SessionsOK PROVE RevalidationContinues
  <2> SUFFICES ASSUME NEW p \in Peer, Current(peer[p]), ~InReset(p), RefreshMode = "background"
               PROVE  /\ peer[p].authTimer \/ peer[p].authCall \/ At(p, "refresh")
                      /\ peer[p].leaseTimer \/ peer[p].leaseCall
    BY DEF RevalidationContinues
  <2>1. peer[p] \in PeerState /\ SessionOK(peer[p]) BY <1>1, PeerIs DEF Inv, SessionsOK
  <2>2. \A point \in Points : At(p, point) <=> Pt(peer[p]) = point
    BY <2>1, HeadIsJob DEF At, Pt, Points
  <2>3. Pt(peer[p]) \notin ResetPoints BY <2>2 DEF InReset, ResetPoints, Points
  <2> QED BY <2>1, <2>2, <2>3 DEF SessionOK, Background, Points
<1> QED BY <1>1, RoomAlways, SessionsAlways, PTL

\* A peer that has been told to go, or any peer of a room that is closing,
\* never becomes an authenticated session afterwards, whatever answers are
\* still on their way (document-room-implementation.ts:444-566).
THEOREM RoomNoLateSession == Spec => NoLateSession
<1> DEFINE OnTime == \A p \in Peer :
             peer[p].phase # "authenticated" /\ peer'[p].phase = "authenticated" => ~Leaving(peer[p])
<1>1. Inv /\ SessionsOK /\ [Next]_vars => [OnTime]_vars
  <2> SUFFICES ASSUME Inv, SessionsOK, Next PROVE OnTime OBVIOUS
  <2>1. SessionsGo BY SessionStep DEF Inv, SessionInv
  <2> QED BY <2>1 DEF SessionsGo, Goes
<1> QED BY <1>1, RoomAlways, SessionsAlways, PTL DEF Spec, NoLateSession

-----------------------------------------------------------------------------
(* What a session has been sent.                                           *)

\* A session that hears the subscription.
Hears(s) == Current(s) /\ s.open

\* The running job has stored a batch that is to be published, or has read the
\* history that it is to send.
Publishing(s) == s.queue # <<>> /\ s.queue[1].next = "publish"
Replying(s) == s.queue # <<>> /\ s.queue[1].next = "reply"

\* A job that waits has done neither.
Untouched(j) == j.at = "start" /\ j.next \in {"end", "dispatch"}

\* Neither has the running one while it appends or reads; only an event appends.
Turn(j) ==
  /\ j.at = "start" => j.next \in {"end", "dispatch"}
  /\ j.at \in {"append", "read"} => j.next = "end"
  /\ j.at = "append" => j.kind = "event"

\* A session that hears is counted, and nobody begins as one that was repaired.
Standing(s) ==
  /\ s \in PeerState
  /\ \A i \in DOMAIN s.queue : /\ i > 1 => Untouched(s.queue[i])
                               /\ s.queue[i].next = "publish" => s.queue[i].kind = "event"
  /\ Hears(s) => s.fanoutRetained
  /\ s.phase \in {"absent", "joined", "authenticating"} => ~s.repaired

HeadOK(s) ==
  /\ s.queue # <<>> => Turn(s.queue[1])
  /\ Pt(s) = "ready" => s.fanoutRetained

HearsOK(s) == Standing(s) /\ HeadOK(s)

\* In s the peer o still has to publish what it had to, and whoever hears and was
\* sent the history, or is about to be, has lost nothing of it.
Carries(o, s) ==
  /\ Standing(s)
  /\ Publishing(o) => Publishing(s) /\ s.queue[1].data = o.queue[1].data
  /\ Hears(s) /\ s.repaired =>
       /\ Hears(o) /\ o.received \subseteq s.received
       /\ o.repaired \/ (Replying(o) /\ o.queue[1].data \subseteq s.received)
  /\ Hears(s) /\ Replying(s) =>
       /\ Hears(o) /\ o.received \subseteq s.received
       /\ Replying(o) /\ o.queue[1].data \subseteq s.queue[1].data

Follows(o, s) == Carries(o, s) /\ HeadOK(s)

LEMMA CarriesSelf == ASSUME NEW s, Standing(s) PROVE Carries(s, s)
BY DEF Carries

LEMMA FollowsSelf == ASSUME NEW s, HearsOK(s) PROVE Follows(s, s)
BY CarriesSelf DEF HearsOK, Follows

\* A change that is neither of the queue nor of what the client has been sent.
LEMMA CarriesSame ==
  ASSUME NEW o, NEW s, Carries(o, s), NEW t \in PeerState, t.queue = s.queue,
         t.received = s.received, t.repaired = s.repaired,
         Hears(t) => Hears(s) /\ t.fanoutRetained,
         t.phase \in {"absent", "joined", "authenticating"} =>
           s.phase \in {"absent", "joined", "authenticating"} \/ ~s.repaired
  PROVE  /\ Carries(o, t)
         /\ HeadOK(s) /\ (Pt(t) = "ready" => t.fanoutRetained) => Follows(o, t)
<1>1. Standing(t) BY DEF Carries, Standing
<1>2. (Publishing(t) <=> Publishing(s)) /\ (Replying(t) <=> Replying(s)) BY DEF Publishing, Replying
<1>3. Carries(o, t) BY <1>1, <1>2 DEF Carries
<1> QED BY <1>3 DEF Follows, HeadOK

\* The running job moves on, with what it has stored or read.
LEMMA CarriesRewritten ==
  ASSUME NEW o, NEW s, Carries(o, s), s.queue # <<>>, NEW j, NEW t, Rewritten(s, j, t),
         j.kind = s.queue[1].kind, j.data = s.queue[1].data,
         \/ j.next = s.queue[1].next
         \/ s.queue[1].next # "publish" /\ j.next \notin {"publish", "reply"}
  PROVE  /\ Carries(o, t) /\ t.queue # <<>> /\ t.queue[1] = j
         /\ Turn(j) /\ (j.at = "ready" => s.fanoutRetained) => Follows(o, t)
<1>1. /\ s \in PeerState /\ 1 \in DOMAIN s.queue /\ s.queue \in Seq(Job)
  BY HeadIsJob DEF Carries, Standing
<1>2. /\ t \in PeerState /\ SameRest(s, t) /\ t.queue # <<>> /\ t.queue[1] = j
      /\ DOMAIN t.queue = DOMAIN s.queue
      /\ \A i \in DOMAIN t.queue : i > 1 => t.queue[i] = s.queue[i]
  BY DEF Rewritten
<1>3. \A i \in DOMAIN t.queue : i = 1 \/ i > 1 BY <1>1, <1>2
<1>4. (Hears(t) <=> Hears(s)) /\ t.repaired = s.repaired /\ t.received = s.received
      /\ t.fanoutRetained = s.fanoutRetained /\ t.phase = s.phase
  BY <1>2 DEF SameRest, Hears, Current
<1>5. Standing(t) BY <1>1, <1>2, <1>3, <1>4 DEF Carries, Standing
<1>6. /\ Publishing(s) => Publishing(t) /\ t.queue[1].data = s.queue[1].data
      /\ Replying(t) => Replying(s) /\ t.queue[1].data = s.queue[1].data
  BY <1>2 DEF Publishing, Replying
<1>7. Carries(o, t) BY <1>4, <1>5, <1>6 DEF Carries
<1>8. Pt(t) = j.at BY <1>2 DEF Pt
<1> QED BY <1>2, <1>4, <1>7, <1>8 DEF Follows, HeadOK

LEMMA FollowsGoto ==
  ASSUME NEW o, NEW s, Carries(o, s), s.queue # <<>>, NEW point \in Points,
         point # "start",
         point \in {"append", "read"} => s.queue[1].next = "end",
         point = "append" => s.queue[1].kind = "event",
         point = "ready" => s.fanoutRetained
  PROVE  Follows(o, Goto(s, point))
<1> DEFINE j == [s.queue[1] EXCEPT !.at = point]
<1>1. s \in PeerState /\ s.queue[1] \in Job BY HeadIsJob DEF Carries, Standing
<1>2. Rewritten(s, j, Goto(s, point)) BY <1>1, GotoIs
<1>3. /\ j.kind = s.queue[1].kind /\ j.next = s.queue[1].next /\ j.data = s.queue[1].data
      /\ j.at = point
  BY <1>1 DEF Job
<1> HIDE DEF j
<1>4. Turn(j) BY <1>3 DEF Turn
<1> QED BY <1>2, <1>3, <1>4, CarriesRewritten

\* A job that has ended is forgotten, and the next one has done nothing yet.
LEMMA DoneStands ==
  ASSUME NEW s, Standing(s), s.queue # <<>>
  PROVE  LET t == Done(s) IN
         /\ HearsOK(t) /\ ~Replying(t) /\ ~Publishing(t)
         /\ (Hears(t) <=> Hears(s)) /\ t.repaired = s.repaired /\ t.received = s.received
<1> DEFINE r == Tail(s.queue)
           t == [s EXCEPT !.queue = r]
<1>1. s \in PeerState /\ s.queue \in Seq(Job) BY DEF Standing, PeerState
<1>2. /\ r \in Seq(Job) /\ (r # <<>> => 1 \in DOMAIN r)
      /\ \A i \in DOMAIN r : r[i] = s.queue[i + 1] /\ i + 1 \in DOMAIN s.queue /\ i + 1 > 1
  BY <1>1
<1>3. Done(s) = t BY DEF Done
<1> HIDE DEF r
<1>4. t \in PeerState /\ t.queue = r BY <1>1, <1>2 DEF PeerState
<1>5. SameRest(s, t) BY <1>1 DEF SameRest, PeerState
<1> HIDE DEF t
<1>6. \A i \in DOMAIN r : Untouched(r[i]) BY <1>2 DEF Standing
<1>7. (Hears(t) <=> Hears(s)) /\ t.repaired = s.repaired /\ t.received = s.received
      /\ t.fanoutRetained = s.fanoutRetained /\ t.phase = s.phase
  BY <1>5 DEF SameRest, Hears, Current
<1>8. Standing(t) BY <1>4, <1>6, <1>7 DEF Standing, Untouched
<1>9. ~Publishing(t) /\ ~Replying(t) BY <1>2, <1>4, <1>6 DEF Publishing, Replying, Untouched
<1>10. HeadOK(t) BY <1>2, <1>4, <1>6 DEF HeadOK, Pt, Turn, Untouched
<1> QED BY <1>3, <1>7, <1>8, <1>9, <1>10 DEF HearsOK

LEMMA FollowsDone ==
  ASSUME NEW o, NEW s, Carries(o, s), s.queue # <<>>, s.queue[1].next # "publish"
  PROVE  Follows(o, Done(s)) /\ ~Replying(Done(s)) /\ ~Publishing(Done(s))
<1> DEFINE t == Done(s)
<1>1. Standing(s) /\ ~Publishing(s) BY DEF Carries, Publishing
<1>2. /\ HearsOK(t) /\ ~Replying(t) /\ ~Publishing(t)
      /\ (Hears(t) <=> Hears(s)) /\ t.repaired = s.repaired /\ t.received = s.received
  BY <1>1, DoneStands
<1> HIDE DEF t
<1> QED BY <1>1, <1>2 DEF Follows, Carries, HearsOK, t

LEMMA FollowsDispatch ==
  ASSUME NEW o, NEW s, Carries(o, s), s.queue # <<>>, s.queue[1].next = "dispatch"
  PROVE  Follows(o, Dispatch(s))
<1> DEFINE u == Then(s, "end")
           j == [s.queue[1] EXCEPT !.next = "end"]
<1>1. s \in PeerState /\ s.queue[1] \in Job /\ Running(s) = s.queue[1]
  BY HeadIsJob DEF Carries, Standing
<1>2. Rewritten(s, j, u) BY <1>1, ThenIs DEF Continuations
<1>3. j.kind = s.queue[1].kind /\ j.next = "end" /\ j.data = s.queue[1].data BY <1>1 DEF Job
<1> HIDE DEF j, u
<1>4. Carries(o, u) /\ u.queue # <<>> /\ u.queue[1] = j BY <1>2, <1>3, CarriesRewritten
<1>5. Follows(o, Goto(u, "read")) BY <1>3, <1>4, FollowsGoto DEF Points
<1>6. s.queue[1].kind = "event" => Follows(o, Goto(u, "append"))
  BY <1>3, <1>4, FollowsGoto DEF Points
<1>7. Follows(o, Done(s)) BY FollowsDone
<1> QED BY <1>1, <1>5, <1>6, <1>7 DEF Dispatch, u

\* The client is sent what the running job has read, or the batch stays to be
\* published.
LEMMA FollowsContinue ==
  ASSUME NEW o, NEW s, Carries(o, s), s.queue # <<>>, NEW active \in BOOLEAN,
         active /\ s.queue[1].next = "reply" => Current(s)
  PROVE  Follows(o, Continue(s, active))
<1> DEFINE data == s.queue[1].data
           a == [s EXCEPT !.acked = @ \cup data]
           b == [s EXCEPT !.received = @ \cup data, !.repaired = TRUE]
<1>1. s \in PeerState /\ s.queue[1] \in Job /\ 1 \in DOMAIN s.queue /\ Running(s) = s.queue[1]
  BY HeadIsJob DEF Carries, Standing
<1>2. data \subseteq Batch /\ s.queue[1].next \in Continuations BY <1>1 DEF Job
<1>3. Carries(o, a) /\ a.queue = s.queue
  <2>1. /\ a \in PeerState /\ a.queue = s.queue /\ a.received = s.received
        /\ a.repaired = s.repaired /\ a.phase = s.phase /\ a.fanoutRetained = s.fanoutRetained
        /\ Hears(a) <=> Hears(s)
    BY <1>1, <1>2 DEF PeerState, Hears, Current
  <2> HIDE DEF a
  <2>2. Hears(s) => s.fanoutRetained BY DEF Carries, Standing
  <2> QED BY <2>1, <2>2, CarriesSame
<1>4. CASE s.queue[1].next = "end" BY <1>1, <1>4, FollowsDone DEF Continue
<1>5. CASE s.queue[1].next = "dispatch" BY <1>1, <1>5, FollowsDone, FollowsDispatch DEF Continue
<1>6. CASE s.queue[1].next = "publish"
  <2>1. Follows(o, Goto(a, "publish")) /\ Follows(o, Goto(s, "publish"))
    BY <1>3, <1>6, FollowsGoto DEF Points
  <2> QED BY <1>1, <1>6, <2>1 DEF Continue
<1>7. CASE s.queue[1].next = "reply" /\ active /\ s.open
  <2>1. Continue(s, active) = Done(b) BY <1>1, <1>7 DEF Continue
  <2>2. Replying(s) /\ Hears(s) BY <1>7 DEF Replying, Hears
  <2>3. /\ b \in PeerState /\ b.queue = s.queue /\ b.received = s.received \cup data
        /\ b.phase = s.phase /\ b.fanoutRetained = s.fanoutRetained /\ Hears(b)
    BY <1>1, <1>2, <2>2 DEF PeerState, Hears, Current
  <2> HIDE DEF b
  <2>4. Standing(b) BY <2>2, <2>3 DEF Carries, Standing, Hears, Current
  <2>5. ~Publishing(s) /\ ~Publishing(b) BY <1>7, <2>3 DEF Publishing
  <2>6. Carries(o, b) BY <2>2, <2>3, <2>4, <2>5 DEF Carries, Replying
  <2> QED BY <1>7, <2>1, <2>3, <2>6, FollowsDone
<1>8. CASE s.queue[1].next = "reply" /\ ~(active /\ s.open)
  BY <1>1, <1>8, FollowsDone DEF Continue
<1> QED BY <1>2, <1>4, <1>5, <1>6, <1>7, <1>8 DEF Continuations

LEMMA FollowsMaintain ==
  ASSUME NEW o, NEW s, Carries(o, s), s.queue # <<>>
  PROVE  /\ Current(s) => Follows(o, MaintainLease(s))
         /\ Follows(o, MaintainPeer(s))
<1> DEFINE u == [s EXCEPT !.authPromise = TRUE]
<1>1. s \in PeerState /\ (Hears(s) => s.fanoutRetained) BY DEF Carries, Standing
<1>2. /\ u \in PeerState /\ u.queue = s.queue /\ u.received = s.received
      /\ u.repaired = s.repaired /\ u.phase = s.phase /\ u.fanoutRetained = s.fanoutRetained
      /\ Hears(u) <=> Hears(s)
  BY <1>1 DEF PeerState, Hears, Current
<1> HIDE DEF u
<1>3. Carries(o, u) /\ u.queue # <<>> BY <1>1, <1>2, CarriesSame
<1>4. Follows(o, Goto(u, "refresh")) BY <1>3, FollowsGoto DEF Points
<1>5. Follows(o, Goto(s, "shared-refresh")) /\ Follows(o, Goto(s, "lease-refresh"))
  BY FollowsGoto DEF Points
<1>6. Follows(o, Continue(s, FALSE)) /\ (Current(s) => Follows(o, Continue(s, TRUE)))
  BY FollowsContinue
<1>7. Current(s) => Follows(o, MaintainLease(s)) BY <1>5, <1>6 DEF MaintainLease
<1> QED BY <1>4, <1>5, <1>6, <1>7 DEF MaintainPeer, u

\* A reset ends what the peer hears; a batch that is to be published stays so.
LEMMA FollowsFinishReset ==
  ASSUME NEW o, NEW s, Carries(o, s), s.queue # <<>>, s.queue[1].remove \/ ~s.repaired
  PROVE  Follows(o, FinishReset(s))
<1> DEFINE u == [s EXCEPT !.phase = "left"]
           v == [s EXCEPT !.phase = "joined", !.leaveRequested = FALSE]
<1>1. s \in PeerState /\ Running(s) = s.queue[1] BY HeadIsJob DEF Carries, Standing
<1>2. /\ u \in PeerState /\ u.queue = s.queue /\ u.received = s.received
      /\ u.repaired = s.repaired /\ u.phase = "left" /\ ~Hears(u)
      /\ v \in PeerState /\ v.queue = s.queue /\ v.received = s.received
      /\ v.repaired = s.repaired /\ v.phase = "joined" /\ ~Hears(v)
  BY <1>1 DEF PeerState, Phases, Hears, Current
<1> HIDE DEF u, v
<1>3. Carries(o, u) /\ u.queue # <<>> /\ ~Hears(u) BY <1>2, CarriesSame
<1>4. ~s.repaired => Carries(o, v) /\ v.queue # <<>> BY <1>2, CarriesSame
<1>5. Follows(o, Continue(u, FALSE)) BY <1>3, FollowsContinue
<1>6. ~s.repaired => Follows(o, Continue(v, FALSE)) BY <1>4, FollowsContinue
<1> QED BY <1>1, <1>5, <1>6 DEF FinishReset, u, v

LEMMA FollowsReset ==
  ASSUME NEW o, NEW s, Carries(o, s), s.queue # <<>>, s.queue[1].remove \/ ~s.repaired, ~Hears(s)
  PROVE  Follows(o, EndSession(s)) /\ Follows(o, ReleaseLease(s))
<1> DEFINE u == [s EXCEPT !.session = "none", !.authDue = FALSE, !.leaseDue = FALSE]
           v == [s EXCEPT !.lease = FALSE]
<1>1. s \in PeerState BY DEF Carries, Standing
<1>2. /\ u \in PeerState /\ u.queue = s.queue /\ u.received = s.received
      /\ u.repaired = s.repaired /\ u.phase = s.phase /\ ~Hears(u)
      /\ v \in PeerState /\ v.queue = s.queue /\ v.received = s.received
      /\ v.repaired = s.repaired /\ v.phase = s.phase /\ ~Hears(v)
  BY <1>1 DEF PeerState, Sessions, Hears, Current
<1> HIDE DEF u, v
<1>3. Carries(o, u) /\ Carries(o, v) /\ u.queue # <<>> /\ v.queue # <<>> BY <1>2, CarriesSame
<1>4. Follows(o, Goto(u, "session-end")) /\ Follows(o, Goto(v, "lease-release"))
  BY <1>3, FollowsGoto DEF Points
<1>5. Follows(o, EndSession(s)) BY <1>4, FollowsFinishReset DEF EndSession, u
<1> QED BY <1>4, <1>5 DEF ReleaseLease, v

LEMMA FollowsStartReset ==
  ASSUME NEW o, NEW s, Carries(o, s), s.queue # <<>>, ~Hears(s),
         NEW remove \in BOOLEAN, remove \/ ~s.repaired
  PROVE  Follows(o, StartReset(s, remove))
<1> DEFINE j == [s.queue[1] EXCEPT !.remove = remove]
           r == [s.queue EXCEPT ![1] = j]
           w == [s EXCEPT !.queue = r]
           quiet == [s EXCEPT !.authTimer = FALSE, !.leaseTimer = FALSE,
                              !.authPromise = FALSE, !.queue = r]
           u == [quiet EXCEPT !.fanoutRetained = FALSE]
<1>1. s \in PeerState /\ s.queue[1] \in Job /\ 1 \in DOMAIN s.queue
  BY HeadIsJob DEF Carries, Standing
<1>2. /\ j \in Job /\ j.kind = s.queue[1].kind /\ j.next = s.queue[1].next
      /\ j.data = s.queue[1].data /\ j.remove = remove
  BY <1>1 DEF Job
<1>3. StartReset(s, remove) = IF s.fanoutRetained THEN Goto(u, "release-lock") ELSE ReleaseLease(quiet)
  BY <1>1 DEF StartReset
<1> HIDE DEF j
<1>4. Rewritten(s, j, w) BY <1>1, <1>2, SetHead
<1>5. /\ w \in PeerState /\ w.queue = r /\ w.received = s.received /\ w.repaired = s.repaired
      /\ w.phase = s.phase /\ ~Hears(w)
  BY <1>1, <1>4 DEF PeerState, Rewritten, Hears, Current, SameRest
<1> HIDE DEF r, w
<1>6. Carries(o, w) /\ r # <<>> /\ r[1] = j BY <1>2, <1>4, <1>5, CarriesRewritten
<1>7. r \in Seq(Job) BY <1>5 DEF PeerState
<1>8. /\ quiet \in PeerState /\ quiet.queue = r /\ quiet.received = s.received
      /\ quiet.repaired = s.repaired /\ quiet.phase = s.phase /\ ~Hears(quiet)
  BY <1>1, <1>7 DEF PeerState, Hears, Current
<1> HIDE DEF quiet
<1>9. /\ u \in PeerState /\ u.queue = r /\ u.received = s.received
      /\ u.repaired = s.repaired /\ u.phase = s.phase /\ ~Hears(u)
  BY <1>8 DEF PeerState, Hears, Current
<1> HIDE DEF u
<1>10. Carries(o, quiet) /\ Carries(o, u) BY <1>5, <1>6, <1>8, <1>9, CarriesSame
<1>11. Follows(o, Goto(u, "release-lock")) BY <1>6, <1>9, <1>10, FollowsGoto DEF Points
<1>12. Follows(o, ReleaseLease(quiet)) BY <1>2, <1>6, <1>8, <1>10, FollowsReset
<1> QED BY <1>3, <1>11, <1>12

\* A job that joins the queue has read and stored nothing.
LEMMA FollowsEnqueue ==
  ASSUME NEW o, NEW s, Follows(o, s),
         NEW kind \in {"auth", "resume", "event", "repair", "maintain", "reset", "close"},
         NEW at \in {"start", "authorize"}, at = "start" \/ s.queue = <<>>,
         NEW next \in {"end", "dispatch"}, NEW data \in SUBSET Batch
  PROVE  Follows(o, Enqueue(s, kind, at, next, data))
<1> DEFINE j == [kind |-> kind, at |-> at, next |-> next, remove |-> TRUE, data |-> data]
           r == Append(s.queue, j)
           t == [s EXCEPT !.queue = r]
<1>1. s \in PeerState /\ s.queue \in Seq(Job) BY DEF Follows, Carries, Standing, PeerState
<1>2. j \in Job /\ j.at = at /\ j.next = next BY DEF Job, Points, Continuations
<1>3. Enqueue(s, kind, at, next, data) = t BY DEF Enqueue
<1> HIDE DEF j
<1>4. /\ r \in Seq(Job) /\ r # <<>> /\ 1 \in DOMAIN r
      /\ \A i \in DOMAIN r : (i \in DOMAIN s.queue /\ r[i] = s.queue[i]) \/ r[i] = j
      /\ s.queue # <<>> => r[1] = s.queue[1]
      /\ s.queue = <<>> => r[1] = j
      /\ \A i \in DOMAIN r : i > 1 /\ s.queue = <<>> => FALSE
  <2>1. r \in Seq(Job) /\ Len(r) = Len(s.queue) + 1 /\ DOMAIN r = 1 .. Len(s.queue) + 1
    BY <1>1, <1>2
  <2>2. \A i \in 1 .. Len(s.queue) : r[i] = s.queue[i] BY <1>1, <1>2
  <2>3. r[Len(s.queue) + 1] = j BY <1>1, <1>2
  <2>4. Len(s.queue) \in Nat /\ DOMAIN s.queue = 1 .. Len(s.queue) BY <1>1
  <2>5. s.queue = <<>> <=> Len(s.queue) = 0 BY <1>1
  <2> HIDE DEF r
  <2> QED BY <2>1, <2>2, <2>3, <2>4, <2>5
<1> HIDE DEF r
<1>5. t \in PeerState /\ t.queue = r BY <1>1, <1>4 DEF PeerState
<1>6. SameRest(s, t) BY <1>1 DEF SameRest, PeerState
<1> HIDE DEF t
<1>7. (Hears(t) <=> Hears(s)) /\ t.repaired = s.repaired /\ t.received = s.received
      /\ t.fanoutRetained = s.fanoutRetained /\ t.phase = s.phase
  BY <1>6 DEF SameRest, Hears, Current
<1>8. Turn(j) /\ j.next # "publish" /\ j.next # "reply" BY <1>2 DEF Turn
<1>9. Standing(t)
  <2>1. \A i \in DOMAIN r : i > 1 => Untouched(r[i])
    <3>1. ASSUME NEW i \in DOMAIN r, i > 1, r[i] = j PROVE Untouched(r[i])
      <4>1. s.queue # <<>> BY <1>4, <3>1
      <4> QED BY <1>2, <3>1, <4>1 DEF Untouched
    <3> QED BY <1>4, <3>1 DEF Follows, Carries, Standing
  <2>2. \A i \in DOMAIN r : r[i].next = "publish" => r[i].kind = "event"
    BY <1>4, <1>8 DEF Follows, Carries, Standing
  <2> QED BY <1>5, <1>7, <2>1, <2>2 DEF Follows, Carries, Standing
<1>10. /\ Publishing(s) => Publishing(t) /\ t.queue[1].data = s.queue[1].data
       /\ Replying(t) => Replying(s) /\ t.queue[1].data = s.queue[1].data
  BY <1>4, <1>5, <1>8 DEF Publishing, Replying
<1>11. Carries(o, t) BY <1>7, <1>9, <1>10 DEF Follows, Carries
<1>12. HeadOK(t)
  <2>1. CASE s.queue = <<>> BY <1>2, <1>4, <1>5, <1>8, <2>1 DEF HeadOK, Pt
  <2>2. CASE s.queue # <<>> BY <1>4, <1>5, <1>7, <2>2 DEF Follows, HeadOK, Pt
  <2> QED BY <2>1, <2>2
<1> QED BY <1>3, <1>11, <1>12 DEF Follows

\* Steps that change neither the queue nor what was sent.
LEMMA FollowsArms ==
  ASSUME NEW o, NEW s, Follows(o, s)
  PROVE  /\ Follows(o, ArmAuth(s)) /\ ArmAuth(s).queue = s.queue
         /\ Current(ArmAuth(s)) <=> Current(s)
         /\ Follows(o, ArmLease(s)) /\ ArmLease(s).queue = s.queue
         /\ Current(ArmLease(s)) <=> Current(s)
         /\ Follows(o, ClosePeer(s)) /\ ClosePeer(s).queue = s.queue /\ ~Hears(ClosePeer(s))
         /\ ClosePeer(s).repaired = s.repaired
         /\ Follows(o, [s EXCEPT !.leaveRequested = TRUE])
         /\ [s EXCEPT !.leaveRequested = TRUE].queue = s.queue
         /\ [s EXCEPT !.leaveRequested = TRUE].repaired = s.repaired
<1>1. s \in PeerState /\ HeadOK(s) /\ (Hears(s) => s.fanoutRetained) /\ Carries(o, s)
  BY DEF Follows, Carries, Standing
<1>2. ASSUME NEW t \in PeerState, t.queue = s.queue, t.received = s.received,
             t.repaired = s.repaired, t.phase = s.phase, t.fanoutRetained = s.fanoutRetained,
             Hears(t) => Hears(s)
      PROVE  Follows(o, t)
  <2>1. Pt(t) = "ready" => t.fanoutRetained BY <1>1, <1>2 DEF HeadOK, Pt
  <2> QED BY <1>1, <1>2, <2>1, CarriesSame
<1>3. Follows(o, ArmAuth(s)) /\ ArmAuth(s).queue = s.queue /\ (Current(ArmAuth(s)) <=> Current(s))
  <2> DEFINE t == ArmAuth(s)
  <2>1. /\ t \in PeerState /\ t.queue = s.queue /\ t.received = s.received
        /\ t.repaired = s.repaired /\ t.phase = s.phase /\ t.fanoutRetained = s.fanoutRetained
        /\ Hears(t) <=> Hears(s)
        /\ Current(t) <=> Current(s)
    BY <1>1 DEF ArmAuth, PeerState, Hears, Current
  <2> HIDE DEF t
  <2>2. Follows(o, t) BY <1>2, <2>1
  <2> QED BY <2>1, <2>2 DEF t
<1>4. Follows(o, ArmLease(s)) /\ ArmLease(s).queue = s.queue /\ (Current(ArmLease(s)) <=> Current(s))
  <2> DEFINE t == ArmLease(s)
  <2>1. /\ t \in PeerState /\ t.queue = s.queue /\ t.received = s.received
        /\ t.repaired = s.repaired /\ t.phase = s.phase /\ t.fanoutRetained = s.fanoutRetained
        /\ Hears(t) <=> Hears(s)
        /\ Current(t) <=> Current(s)
    BY <1>1 DEF ArmLease, PeerState, Hears, Current
  <2> HIDE DEF t
  <2>2. Follows(o, t) BY <1>2, <2>1
  <2> QED BY <2>1, <2>2 DEF t
<1>5. /\ Follows(o, ClosePeer(s)) /\ ClosePeer(s).queue = s.queue /\ ~Hears(ClosePeer(s))
      /\ ClosePeer(s).repaired = s.repaired
  <2> DEFINE t == ClosePeer(s)
  <2>1. /\ t \in PeerState /\ t.queue = s.queue /\ t.received = s.received
        /\ t.repaired = s.repaired /\ t.phase = s.phase /\ t.fanoutRetained = s.fanoutRetained
        /\ ~Hears(t)
    BY <1>1 DEF ClosePeer, PeerState, Hears
  <2> HIDE DEF t
  <2>2. Follows(o, t) BY <1>2, <2>1
  <2> QED BY <2>1, <2>2 DEF t
<1>6. /\ Follows(o, [s EXCEPT !.leaveRequested = TRUE])
      /\ [s EXCEPT !.leaveRequested = TRUE].queue = s.queue
      /\ [s EXCEPT !.leaveRequested = TRUE].repaired = s.repaired
  <2> DEFINE t == [s EXCEPT !.leaveRequested = TRUE]
  <2>1. /\ t \in PeerState /\ t.queue = s.queue /\ t.received = s.received
        /\ t.repaired = s.repaired /\ t.phase = s.phase /\ t.fanoutRetained = s.fanoutRetained
        /\ ~Hears(t)
    BY <1>1 DEF PeerState, Hears, Current
  <2> HIDE DEF t
  <2>2. Follows(o, t) BY <1>2, <2>1
  <2> QED BY <2>1, <2>2 DEF t
<1> QED BY <1>3, <1>4, <1>5, <1>6

LEMMA FollowsExpel ==
  ASSUME NEW o, NEW s, Follows(o, s)
  PROVE  Follows(o, Expel(s)) /\ Follows(o, Terminate(s)) /\ ~Hears(Expel(s))
<1> DEFINE u(q) == ClosePeer([q EXCEPT !.leaveRequested = TRUE])
           v == [s EXCEPT !.authTimer = FALSE, !.leaseTimer = FALSE]
<1>1. ASSUME NEW q, Follows(o, q) PROVE Follows(o, Expel(q)) /\ (q = s => ~Hears(Expel(q)))
  <2>1. Follows(o, u(q)) /\ ~Hears(u(q)) BY <1>1, FollowsArms
  <2>2. u(q) \in PeerState BY <2>1 DEF Follows, Carries, Standing
  <2> DEFINE w == u(q)
  <2>3. Expel(q) = Enqueue(w, "reset", "start", "end", {}) BY DEF Expel, EnqueueReset
  <2> HIDE DEF w, u
  <2>4. Follows(o, Enqueue(w, "reset", "start", "end", {})) BY <2>1, FollowsEnqueue DEF w
  <2>5. SameRest(w, Enqueue(w, "reset", "start", "end", {}))
    BY <2>2, EnqueueSelf DEF w, Points, Continuations
  <2> QED BY <2>1, <2>3, <2>4, <2>5 DEF SameRest, Hears, Current, w
<1>2. s \in PeerState /\ HeadOK(s) /\ (Hears(s) => s.fanoutRetained) /\ Carries(o, s)
  BY DEF Follows, Carries, Standing
<1>3. /\ v \in PeerState /\ v.queue = s.queue /\ v.received = s.received
      /\ v.repaired = s.repaired /\ v.phase = s.phase /\ v.fanoutRetained = s.fanoutRetained
      /\ Hears(v) <=> Hears(s)
  BY <1>2 DEF PeerState, Hears, Current
<1> HIDE DEF v
<1>4. Pt(v) = "ready" => v.fanoutRetained BY <1>2, <1>3 DEF HeadOK, Pt
<1>5. Follows(o, v) BY <1>2, <1>3, <1>4, CarriesSame
<1>6. Follows(o, Expel(v)) /\ Follows(o, Expel(s)) /\ ~Hears(Expel(s)) BY <1>1, <1>5
<1> QED BY <1>6 DEF Terminate, v

\* Setup is over: the session hears from now on, and has been sent nothing.
LEMMA FollowsAuthenticated ==
  ASSUME NEW o, NEW s, Carries(o, s), s.queue # <<>>, s.queue[1].next # "publish",
         s.fanoutRetained, ~s.repaired
  PROVE  Follows(o, Authenticated(s))
<1> DEFINE u == [s EXCEPT !.phase = "authenticated"]
           v == ArmAuth(u)
           w == ArmLease(v)
           t == Done(w)
<1>1. s \in PeerState BY DEF Carries, Standing
<1>2. /\ u \in PeerState /\ u.queue = s.queue /\ ~u.repaired /\ u.fanoutRetained
  BY <1>1 DEF PeerState, Phases
<1> HIDE DEF u
<1>3. v \in PeerState /\ v.queue = s.queue /\ ~v.repaired /\ v.fanoutRetained
  BY <1>2 DEF ArmAuth, PeerState
<1> HIDE DEF v
<1>4. w \in PeerState /\ w.queue = s.queue /\ ~w.repaired /\ w.fanoutRetained
  BY <1>3 DEF ArmLease, PeerState
<1> HIDE DEF w
<1>5. Standing(w) BY <1>4 DEF Carries, Standing
<1>6. w.queue # <<>> /\ w.queue[1].next # "publish" BY <1>4
<1>7. Follows(w, t) /\ ~Replying(t) /\ ~Publishing(t) BY <1>5, <1>6, CarriesSelf, FollowsDone
<1>8. ~t.repaired
  <2>1. w.queue \in Seq(Job) BY <1>4 DEF PeerState
  <2>2. Tail(w.queue) \in Seq(Job) BY <2>1, <1>6
  <2> QED BY <1>4, <2>2 DEF Done, PeerState
<1> HIDE DEF t
<1>9. ~Publishing(o) BY DEF Carries, Publishing
<1>10. Follows(o, t) BY <1>7, <1>8, <1>9 DEF Follows, Carries
<1> QED BY <1>10 DEF Authenticated, u, v, w, t

\* The session's role may change while it is one; setup gives it its first.
LEMMA FollowsRole ==
  ASSUME NEW o, NEW s, Follows(o, s), NEW role \in Sessions,
         Current(s) \/ s.phase # "authenticated"
  PROVE  LET t == [s EXCEPT !.session = role] IN
         Follows(o, t) /\ t.queue = s.queue /\ t.fanoutRetained = s.fanoutRetained
<1> DEFINE t == [s EXCEPT !.session = role]
<1>1. s \in PeerState /\ HeadOK(s) /\ (Hears(s) => s.fanoutRetained) /\ Carries(o, s)
  BY DEF Follows, Carries, Standing
<1>2. /\ t \in PeerState /\ t.queue = s.queue /\ t.received = s.received
      /\ t.repaired = s.repaired /\ t.phase = s.phase /\ t.fanoutRetained = s.fanoutRetained
      /\ Hears(t) => Hears(s)
  BY <1>1 DEF PeerState, Hears, Current
<1> HIDE DEF t
<1>3. Pt(t) = "ready" => t.fanoutRetained BY <1>1, <1>2 DEF HeadOK, Pt
<1>4. Follows(o, t) BY <1>1, <1>2, <1>3, CarriesSame
<1> QED BY <1>2, <1>4 DEF t

-----------------------------------------------------------------------------
(* The history and the sessions.                                           *)

\* What a peer is yet to publish.
Held(s) == IF Publishing(s) THEN s.queue[1].data ELSE {}

\* What needs not have reached a session that was repaired: it was lost, or it is
\* on its way to the room's subscription, or it is yet to be published.
Coming ==
  {b \in durable :
     \/ b \in lost \cup committed
     \/ [to |-> subscription, batch |-> b] \in inflight
     \/ \E p \in Peer : b \in Held(peer[p])}

\* A session that was sent the history, or is about to be, misses nothing of d
\* but what is in w.
GapOK(s, d, w) ==
  Hears(s) =>
    /\ s.repaired => d \subseteq s.received \cup w
    /\ Replying(s) => d \subseteq s.received \cup s.queue[1].data \cup w

GapInv == \A p \in Peer : HearsOK(peer[p]) /\ GapOK(peer[p], durable, Coming)

LEMMA GapFollows ==
  ASSUME NEW o, NEW s, NEW d, NEW w, GapOK(o, d, w), Follows(o, s), NEW e, NEW v,
         w \subseteq v, e \subseteq d \cup v
  PROVE  HearsOK(s) /\ GapOK(s, e, v)
<1>1. HearsOK(s) BY DEF Follows, Carries, HearsOK
<1>2. ASSUME Hears(s), s.repaired PROVE e \subseteq s.received \cup v
  <2>1. /\ Hears(o) /\ o.received \subseteq s.received
        /\ o.repaired \/ (Replying(o) /\ o.queue[1].data \subseteq s.received)
    BY <1>2 DEF Follows, Carries
  <2>2. d \subseteq s.received \cup w BY <2>1 DEF GapOK
  <2> QED BY <2>2
<1>3. ASSUME Hears(s), Replying(s) PROVE e \subseteq s.received \cup s.queue[1].data \cup v
  <2>1. /\ Hears(o) /\ o.received \subseteq s.received
        /\ Replying(o) /\ o.queue[1].data \subseteq s.queue[1].data
    BY <1>3 DEF Follows, Carries
  <2>2. d \subseteq s.received \cup s.queue[1].data \cup w BY <2>1 DEF GapOK
  <2> QED BY <2>2
<1> QED BY <1>1, <1>2, <1>3 DEF GapOK

-----------------------------------------------------------------------------
(* Steps that store, publish and deliver nothing.                          *)

AllFollow == \A q \in Peer : Follows(peer[q], peer'[q])

\* The step of p.
FollowsOne(p) == \E t : Becomes(p, t) /\ Follows(peer[p], t)

SentInv == SessionInv /\ GapInv

LEMMA SentIs ==
  ASSUME SentInv, NEW p \in Peer
  PROVE  /\ peer[p] \in PeerState /\ PeerOK(peer[p]) /\ RunOK(peer[p]) /\ SessionOK(peer[p])
         /\ HearsOK(peer[p]) /\ Follows(peer[p], peer[p])
BY SessionIs, FollowsSelf DEF SentInv, GapInv

LEMMA FollowByOne ==
  ASSUME SentInv, NEW p \in Peer, FollowsOne(p)
  PROVE  AllFollow
<1>1. PICK t : Becomes(p, t) /\ Follows(peer[p], t) BY DEF FollowsOne
<1>2. peer \in [Peer -> PeerState] BY DEF SentInv, SessionInv, RoomInv, ShapeOK
<1>3. peer'[p] = t /\ \A q \in Peer \ {p} : peer'[q] = peer[q] BY <1>1, <1>2 DEF Becomes
<1> QED BY <1>1, <1>3, SentIs DEF AllFollow

LEMMA QuietFollows == ASSUME SentInv, UNCHANGED peer PROVE AllFollow
BY SentIs DEF AllFollow

LEMMA HeldFollows == ASSUME NEW o, NEW s, Follows(o, s) PROVE Held(o) \subseteq Held(s)
BY DEF Follows, Carries, Held

LEMMA ComingStays ==
  ASSUME AllFollow, subscription' = subscription, durable \subseteq durable',
         committed \subseteq committed', inflight \subseteq inflight', lost \subseteq lost'
  PROVE  Coming \subseteq Coming'
<1>1. \A q \in Peer : Held(peer[q]) \subseteq Held(peer'[q]) BY HeldFollows DEF AllFollow
<1> QED BY <1>1 DEF Coming

LEMMA GapStep ==
  ASSUME SentInv, AllFollow, Coming \subseteq Coming', durable' \subseteq durable \cup Coming'
  PROVE  GapInv'
<1> SUFFICES ASSUME NEW q \in Peer PROVE HearsOK(peer'[q]) /\ GapOK(peer'[q], durable', Coming')
  BY DEF GapInv
<1>1. Follows(peer[q], peer'[q]) /\ GapOK(peer[q], durable, Coming) BY DEF AllFollow, SentInv, GapInv
<1> DEFINE w == Coming
           v == Coming'
           e == durable'
<1>2. w \subseteq v /\ e \subseteq durable \cup v OBVIOUS
<1>3. GapOK(peer[q], durable, w) BY <1>1
<1> HIDE DEF w, v, e
<1>4. HearsOK(peer'[q]) /\ GapOK(peer'[q], e, v) BY <1>1, <1>2, <1>3, GapFollows
<1> QED BY <1>4 DEF e, v

LEMMA StillGap ==
  ASSUME SentInv, AllFollow, UNCHANGED <<subscription, logVars>>
  PROVE  GapInv'
BY ComingStays, GapStep DEF logVars

\* The subscription changes while nobody hears it.
LEMMA SilentGap ==
  ASSUME SentInv, RoomInv', AllFollow, subscription = None \/ subscription' = None
  PROVE  GapInv'
<1> SUFFICES ASSUME NEW q \in Peer PROVE HearsOK(peer'[q]) /\ GapOK(peer'[q], durable', Coming')
  BY DEF GapInv
<1>1. Follows(peer[q], peer'[q]) /\ HearsOK(peer[q]) /\ HearsOK(peer'[q])
  BY SentIs DEF AllFollow, Follows, Carries, HearsOK
<1>2. subscription = None => ~Hears(peer[q])
  BY <1>1 DEF SentInv, SessionInv, RoomInv, CountOK, Counts, HearsOK, Standing
<1>3. subscription' = None => ~Hears(peer'[q])
  <2>1. Counts(peer'[q]) => subscription' # None BY DEF RoomInv, CountOK
  <2> QED BY <1>1, <2>1 DEF Counts, HearsOK, Standing
<1>4. ~(Hears(peer'[q]) /\ (peer'[q].repaired \/ Replying(peer'[q])))
  BY <1>1, <1>2, <1>3 DEF Follows, Carries
<1> QED BY <1>1, <1>4 DEF GapOK

-----------------------------------------------------------------------------
(* Setup and removal.                                                      *)

LEMMA ResetsFollow ==
  ASSUME NEW p \in Peer, NEW s, Carries(peer[p], s), s.queue # <<>>, ~Hears(s),
         NEW remove \in BOOLEAN, remove \/ ~s.repaired, NEW lock, Resets(p, s, remove, lock)
  PROVE  FollowsOne(p)
BY FollowsStartReset DEF Resets, FollowsOne

LEMMA FailSetupFollows ==
  ASSUME NEW p \in Peer, NEW s, Follows(peer[p], s), s.queue # <<>>, ~Hears(s), ~s.repaired,
         NEW lock, FailSetup(p, s, lock)
  PROVE  FollowsOne(p)
<1> DEFINE v == [s EXCEPT !.leaveRequested = TRUE]
           u == ClosePeer(v)
<1>1. Follows(peer[p], v) /\ v.queue = s.queue /\ ~v.repaired BY FollowsArms
<1> HIDE DEF v
<1>2. Follows(peer[p], u) /\ u.queue # <<>> /\ ~Hears(u) BY <1>1, FollowsArms
<1>3. s \in PeerState BY DEF Follows, Carries, Standing
<1>4. Leaving(s) \in BOOLEAN BY <1>3 DEF Leaving, PeerState
<1> HIDE DEF u
<1>5. ASSUME Resets(p, u, TRUE, lock) PROVE FollowsOne(p)
  BY <1>2, <1>5, ResetsFollow DEF Follows
<1>6. ASSUME Resets(p, s, Leaving(s), lock) PROVE FollowsOne(p)
  BY <1>4, <1>6, ResetsFollow DEF Follows
<1> QED BY <1>5, <1>6 DEF FailSetup, u, v

\* A peer in setup hears nothing and has been sent nothing.
LEMMA InSetup ==
  ASSUME SentInv, NEW p \in Peer, Pt(peer[p]) \in SetupPoints
  PROVE  /\ peer[p].queue # <<>> /\ peer[p].queue[1].next = "end"
         /\ peer[p].queue[1].kind \in Setup /\ peer[p].phase = "authenticating"
         /\ ~peer[p].repaired /\ ~Hears(peer[p])
         /\ Carries(peer[p], peer[p]) /\ Follows(peer[p], peer[p])
<1> DEFINE s == peer[p]
<1>1. s \in PeerState /\ RunOK(s) /\ HearsOK(s) /\ Follows(s, s) BY SentIs
<1>2. s.queue # <<>> BY DEF Pt, SetupPoints
<1>3. s.queue[1].at \in SetupPoints /\ JobOK(s.queue[1])
  BY <1>1, <1>2, HeadIsJob DEF Pt, RunOK, QueueOK
<1>4. s.queue[1].kind \in Setup /\ s.queue[1].next = "end" BY <1>3 DEF JobOK
<1>5. s.phase = "authenticating" BY <1>1, <1>2, <1>4 DEF RunOK, PhaseOK
<1> QED BY <1>1, <1>2, <1>4, <1>5 DEF HearsOK, Standing, Hears, Current, Follows

LEMMA RetainedFollows ==
  ASSUME SentInv, NEW p \in Peer, Pt(peer[p]) \in SetupPoints, Retained(p)
  PROVE  FollowsOne(p)
<1> DEFINE s == peer[p]
           u == [s EXCEPT !.fanoutRetained = TRUE]
<1>1. /\ s \in PeerState /\ s.queue # <<>> /\ s.queue[1].next = "end" /\ s.phase = "authenticating"
      /\ ~s.repaired /\ ~Hears(s) /\ Follows(s, s)
  BY SentIs, InSetup
<1>2. /\ u \in PeerState /\ u.queue = s.queue /\ u.received = s.received
      /\ u.repaired = s.repaired /\ u.phase = s.phase /\ u.fanoutRetained /\ ~Hears(u)
  BY <1>1 DEF PeerState, Hears, Current
<1>3. \/ Resets(p, u, TRUE, Tail(fanoutQueue))
      \/ Becomes(p, Authenticated(u))
      \/ \E role \in Sessions \ {"none"} : Becomes(p, Goto([u EXCEPT !.session = role], "ready"))
  BY DEF Retained
<1> HIDE DEF u
<1>4. Follows(s, u) BY <1>1, <1>2, CarriesSame DEF Follows
<1>5. CASE Resets(p, u, TRUE, Tail(fanoutQueue))
  BY <1>1, <1>2, <1>4, <1>5, ResetsFollow DEF Follows
<1>6. CASE Becomes(p, Authenticated(u))
  <2>1. Follows(s, Authenticated(u)) BY <1>1, <1>2, <1>4, FollowsAuthenticated DEF Follows
  <2> QED BY <1>6, <2>1 DEF FollowsOne
<1>7. ASSUME NEW role \in Sessions \ {"none"}, Becomes(p, Goto([u EXCEPT !.session = role], "ready"))
      PROVE  FollowsOne(p)
  <2> DEFINE v == [u EXCEPT !.session = role]
  <2>1. Follows(s, v) /\ v.queue = u.queue /\ v.fanoutRetained = u.fanoutRetained
    BY <1>1, <1>2, <1>4, FollowsRole
  <2>2. Becomes(p, Goto(v, "ready")) BY <1>7
  <2> HIDE DEF v
  <2>3. Follows(s, Goto(v, "ready")) BY <1>1, <1>2, <2>1, FollowsGoto DEF Follows, Points
  <2> QED BY <2>2, <2>3 DEF FollowsOne
<1> QED BY <1>3, <1>5, <1>6, <1>7

\* The steps of setup, once it has begun.
LEMMA SetupFollow ==
  ASSUME SentInv, NEW p \in Peer,
         \/ Authorized(p) \/ Rechecked(p) \/ Acquired(p) \/ RetainFanout(p)
         \/ StaleDropped(p) \/ Subscribed(p) \/ ReadySent(p)
  PROVE  AllFollow
<1> DEFINE s == peer[p]
           c == ClosePeer(s)
           l == [s EXCEPT !.lease = TRUE]
<1>1. PICK point \in SetupPoints : At(p, point)
  BY DEF Authorized, Rechecked, Acquired, RetainFanout, StaleDropped, Subscribed, ReadySent, SetupPoints
<1>2. Pt(s) = point BY <1>1, AtIs DEF SentInv, SessionInv
<1>3. /\ s.queue # <<>> /\ s.queue[1].next = "end" /\ s.queue[1].kind \in Setup
      /\ s.phase = "authenticating" /\ ~s.repaired /\ ~Hears(s)
      /\ Carries(s, s) /\ Follows(s, s) /\ s \in PeerState
  BY <1>2, SentIs, InSetup
<1>4. Follows(s, c) /\ c.queue = s.queue /\ ~Hears(c) BY <1>3, FollowsArms
<1>5. Follows(s, l) /\ l.queue = s.queue /\ ~Hears(l)
  <2>1. /\ l \in PeerState /\ l.queue = s.queue /\ l.received = s.received
        /\ l.repaired = s.repaired /\ l.phase = s.phase /\ l.fanoutRetained = s.fanoutRetained
        /\ ~Hears(l)
    BY <1>3 DEF PeerState, Hears, Current
  <2> HIDE DEF l
  <2>2. Pt(l) = "ready" => l.fanoutRetained BY <1>3, <2>1 DEF Follows, HeadOK, Pt
  <2> QED BY <1>3, <2>1, <2>2, CarriesSame DEF Follows
<1> HIDE DEF c, l
<1>6. ASSUME NEW lock, FailSetup(p, s, lock) PROVE FollowsOne(p) BY <1>3, <1>6, FailSetupFollows
<1>7. ASSUME NEW lock, NEW t \in {s, c, l}, Resets(p, t, TRUE, lock) PROVE FollowsOne(p)
  BY <1>3, <1>4, <1>5, <1>7, ResetsFollow DEF Follows
<1>8. ASSUME NEW t \in {s, l}, NEW to \in SetupPoints \ {"ready"}, Becomes(p, Goto(t, to))
      PROVE  FollowsOne(p)
  <2>1. Carries(s, t) /\ t.queue # <<>> BY <1>3, <1>5 DEF Follows
  <2>2. Follows(s, Goto(t, to)) BY <1>8, <2>1, FollowsGoto DEF Points, SetupPoints
  <2> QED BY <1>8, <2>2 DEF FollowsOne
<1>9. CASE Authorized(p)
  <2>1. \/ FailSetup(p, s, fanoutQueue) \/ Resets(p, s, TRUE, fanoutQueue)
        \/ Resets(p, c, TRUE, fanoutQueue) \/ Becomes(p, Goto(s, "acquire"))
    BY <1>9 DEF Authorized, c
  <2> QED BY <1>6, <1>7, <1>8, <2>1, FollowByOne DEF SetupPoints
<1>10. CASE Rechecked(p)
  <2>1. ASSUME NEW role \in Sessions \ {"none"}, Becomes(p, Goto([s EXCEPT !.session = role], "acquire"))
        PROVE  FollowsOne(p)
    <3> DEFINE v == [s EXCEPT !.session = role]
    <3>1. Follows(s, v) /\ v.queue = s.queue BY <1>3, FollowsRole
    <3>2. Becomes(p, Goto(v, "acquire")) BY <2>1
    <3> HIDE DEF v
    <3>3. Follows(s, Goto(v, "acquire")) BY <1>3, <3>1, FollowsGoto DEF Follows, Points
    <3> QED BY <3>2, <3>3 DEF FollowsOne
  <2>2. \/ FailSetup(p, s, fanoutQueue) \/ Resets(p, s, TRUE, fanoutQueue)
        \/ \E role \in Sessions \ {"none"} : Becomes(p, Goto([s EXCEPT !.session = role], "acquire"))
    BY <1>10 DEF Rechecked
  <2>3. FollowsOne(p) BY <1>6, <1>7, <2>1, <2>2
  <2> QED BY <2>3, FollowByOne
<1>11. CASE Acquired(p)
  <2>1. \/ FailSetup(p, s, fanoutQueue) \/ Resets(p, l, TRUE, fanoutQueue)
        \/ Resets(p, c, TRUE, fanoutQueue) \/ Becomes(p, Goto(l, "fanout-lock"))
    BY <1>11 DEF Acquired, c, l
  <2> QED BY <1>6, <1>7, <1>8, <2>1, FollowByOne DEF SetupPoints
<1>12. CASE RetainFanout(p)
  <2>1. Retained(p) \/ \E to \in {"subscribe", "drop-stale"} : Becomes(p, Goto(s, to))
    BY <1>12 DEF RetainFanout
  <2> QED BY <1>2, <1>8, <2>1, RetainedFollows, FollowByOne DEF SetupPoints
<1>13. CASE StaleDropped(p) \/ Subscribed(p)
  <2>1. Retained(p) \/ FailSetup(p, s, Tail(fanoutQueue)) \/ Becomes(p, Goto(s, "subscribe"))
    BY <1>13 DEF StaleDropped, Subscribed
  <2> QED BY <1>2, <1>6, <1>8, <2>1, RetainedFollows, FollowByOne DEF SetupPoints
<1>14. CASE ReadySent(p)
  <2>1. \/ FailSetup(p, s, fanoutQueue) \/ Resets(p, s, TRUE, fanoutQueue)
        \/ Becomes(p, Authenticated(s))
    BY <1>14 DEF ReadySent
  <2>2. s.fanoutRetained
    <3>1. Pt(s) = "ready" BY <1>14, AtIs DEF ReadySent, SentInv, SessionInv
    <3> QED BY <1>3, <3>1 DEF Follows, HeadOK
  <2>3. Follows(s, Authenticated(s)) BY <1>3, <2>2, FollowsAuthenticated
  <2>4. FollowsOne(p) BY <1>6, <1>7, <2>1, <2>3 DEF FollowsOne
  <2> QED BY <2>4, FollowByOne
<1> QED BY <1>9, <1>10, <1>11, <1>12, <1>13, <1>14

\* A peer that is being removed hears nothing any more.
LEMMA InRemoval ==
  ASSUME SentInv, NEW p \in Peer, Pt(peer[p]) \in ResetPoints
  PROVE  /\ peer[p].queue # <<>> /\ ~Hears(peer[p])
         /\ peer[p].queue[1].remove \/ ~peer[p].repaired
         /\ Carries(peer[p], peer[p])
<1> DEFINE s == peer[p]
<1>1. s \in PeerState /\ RunOK(s) /\ SessionOK(s) /\ HearsOK(s) /\ Follows(s, s) BY SentIs
<1>2. s.queue # <<>> BY DEF Pt, ResetPoints
<1>3. JobOK(s.queue[1]) /\ s.queue[1] \in Job BY <1>1, <1>2, HeadIsJob DEF RunOK, QueueOK
<1>4. s.queue[1].remove \/ ~s.repaired
  <2> SUFFICES ASSUME ~s.queue[1].remove PROVE ~s.repaired OBVIOUS
  <2>1. s.queue[1].kind \in Setup BY <1>3 DEF JobOK, Setup
  <2>2. s.phase = "authenticating" BY <1>1, <1>2, <2>1 DEF RunOK, PhaseOK
  <2> QED BY <1>1, <2>2 DEF HearsOK, Standing
<1>5. ~Hears(s) BY <1>1 DEF SessionOK, Hears, Current
<1> QED BY <1>1, <1>2, <1>4, <1>5 DEF Follows

LEMMA RemovalFollows ==
  ASSUME SentInv, NEW p \in Peer,
         ReleaseFanout(p) \/ Unsubscribed(p) \/ LeaseReleased(p) \/ SessionEnded(p)
  PROVE  AllFollow
<1> DEFINE s == peer[p]
<1>1. PICK point \in ResetPoints : At(p, point)
  BY DEF ReleaseFanout, Unsubscribed, LeaseReleased, SessionEnded, ResetPoints
<1>2. Pt(s) \in ResetPoints BY <1>1, AtIs DEF SentInv, SessionInv
<1>3. s.queue # <<>> /\ ~Hears(s) /\ (s.queue[1].remove \/ ~s.repaired) /\ Carries(s, s)
  BY <1>2, InRemoval
<1>4. /\ Follows(s, Goto(s, "unsubscribe")) /\ Follows(s, ReleaseLease(s))
      /\ Follows(s, EndSession(s)) /\ Follows(s, FinishReset(s))
  BY <1>3, FollowsGoto, FollowsReset, FollowsFinishReset DEF Points
<1>5. FollowsOne(p)
  BY <1>4 DEF FollowsOne, ReleaseFanout, Unsubscribed, LeaseReleased, SessionEnded
<1> QED BY <1>5, FollowByOne

-----------------------------------------------------------------------------
(* Calls of the host, timers and answers.                                  *)

\* A change of a peer that it hears nothing of.
LEMMA FollowsSame ==
  ASSUME NEW o, NEW s, Follows(o, s), NEW t \in PeerState, t.queue = s.queue,
         t.received = s.received, t.repaired = s.repaired, t.phase = s.phase,
         t.fanoutRetained = s.fanoutRetained, Hears(t) => Hears(s)
  PROVE  Follows(o, t)
<1>1. HeadOK(s) /\ (Hears(s) => s.fanoutRetained) /\ Carries(o, s)
  BY DEF Follows, Carries, Standing
<1>2. Pt(t) = "ready" => t.fanoutRetained BY <1>1 DEF HeadOK, Pt
<1> QED BY <1>1, <1>2, CarriesSame

LEMMA HostCallsFollow ==
  ASSUME SentInv, NEW p \in Peer,
         Join(p) \/ ReceiveAuth(p) \/ Resume(p) \/ Leave(p) \/ Expires(p) \/ AuthTimer(p) \/ LeaseTimer(p)
  PROVE  AllFollow
<1> DEFINE s == peer[p]
<1>1. s \in PeerState /\ Follows(s, s) /\ RunOK(s) BY SentIs
<1>2. ASSUME NEW t, Follows(s, t), Becomes(p, t) PROVE AllFollow
  BY <1>2, FollowByOne DEF FollowsOne
<1>3. CASE Join(p)
  <2> DEFINE n == NewPeer(s)
  <2>1. s.queue = <<>> BY <1>3 DEF Join
  <2>2. n \in PeerState /\ n.queue = <<>> /\ ~n.repaired /\ n.phase = "joined"
    BY <1>1, <2>1 DEF NewPeer, PeerState, Phases
  <2>3. Becomes(p, n) \/ Becomes(p, ClosePeer(s)) BY <1>3 DEF Join
  <2> HIDE DEF n
  <2>4. ~Hears(n) /\ ~Publishing(n) /\ ~Replying(n) /\ ~Publishing(s) /\ Pt(n) = "none"
    BY <2>1, <2>2 DEF Hears, Current, Publishing, Replying, Pt
  <2>5. DOMAIN n.queue = {} BY <2>2
  <2>6. Standing(n) BY <2>2, <2>4, <2>5 DEF Standing
  <2>7. Follows(s, n) BY <2>2, <2>4, <2>6 DEF Follows, Carries, HeadOK
  <2>8. Follows(s, ClosePeer(s)) BY <1>1, FollowsArms
  <2> QED BY <1>2, <2>3, <2>7, <2>8
<1>4. CASE ReceiveAuth(p) \/ Resume(p)
  <2> DEFINE u == [s EXCEPT !.phase = "authenticating"]
  <2>1. \/ s.phase = "joined" /\ Becomes(p, Enqueue(u, "auth", "authorize", "end", {}))
        \/ s.phase = "joined" /\ Becomes(p, Enqueue(u, "resume", "start", "end", {}))
        \/ Becomes(p, Expel(s))
    BY <1>4 DEF ReceiveAuth, Resume
  <2>2. s.open /\ ~s.leaveRequested BY <1>4 DEF ReceiveAuth, Resume, Receivable
  <2>3. ASSUME s.phase = "joined" PROVE Follows(s, u) /\ u.queue = <<>>
    <3>1. s.queue = <<>> BY <1>1, <2>2, <2>3 DEF RunOK, PhaseOK
    <3>2. /\ u \in PeerState /\ u.queue = s.queue /\ u.received = s.received
          /\ u.repaired = s.repaired /\ u.phase = "authenticating" /\ ~Hears(u)
      BY <1>1 DEF PeerState, Phases, Hears, Current
    <3> HIDE DEF u
    <3>3. Pt(u) # "ready" BY <3>1, <3>2 DEF Pt
    <3> QED BY <1>1, <2>3, <3>1, <3>2, <3>3, CarriesSame DEF Follows
  <2> HIDE DEF u
  <2>4. s.phase = "joined" => /\ Follows(s, Enqueue(u, "auth", "authorize", "end", {}))
                              /\ Follows(s, Enqueue(u, "resume", "start", "end", {}))
    BY <2>3, FollowsEnqueue
  <2>5. Follows(s, Expel(s)) BY <1>1, FollowsExpel
  <2> QED BY <1>2, <2>1, <2>4, <2>5
<1>5. CASE Leave(p)
  <2>1. PICK open \in BOOLEAN :
          Becomes(p, EnqueueReset([s EXCEPT !.leaveRequested = TRUE, !.released = TRUE, !.open = open]))
    BY <1>5 DEF Leave
  <2> DEFINE u == [s EXCEPT !.leaveRequested = TRUE, !.released = TRUE, !.open = open]
  <2>2. /\ u \in PeerState /\ u.queue = s.queue /\ u.received = s.received
        /\ u.repaired = s.repaired /\ u.phase = s.phase /\ u.fanoutRetained = s.fanoutRetained
        /\ ~Hears(u)
    BY <1>1 DEF PeerState, Hears, Current
  <2>3. Becomes(p, EnqueueReset(u)) BY <2>1
  <2> HIDE DEF u
  <2>4. Follows(s, u) BY <1>1, <2>2, FollowsSame
  <2>5. Follows(s, EnqueueReset(u)) BY <2>4, FollowsEnqueue DEF EnqueueReset
  <2> QED BY <1>2, <2>3, <2>5
<1>6. ASSUME NEW t \in PeerState, t.queue = s.queue, t.received = s.received,
             t.repaired = s.repaired, t.phase = s.phase, t.fanoutRetained = s.fanoutRetained,
             Hears(t) => Hears(s), Becomes(p, t)
      PROVE  AllFollow
  <2>1. Follows(s, t) BY <1>1, <1>6, FollowsSame
  <2> QED BY <1>2, <1>6, <2>1
<1>7. CASE Expires(p)
  <2>1. PICK t \in {[s EXCEPT !.authDue = TRUE], [s EXCEPT !.leaseDue = TRUE]} : Becomes(p, t)
    BY <1>7 DEF Expires
  <2>2. /\ t \in PeerState /\ t.queue = s.queue /\ t.received = s.received
        /\ t.repaired = s.repaired /\ t.phase = s.phase /\ t.fanoutRetained = s.fanoutRetained
        /\ t.open = s.open /\ t.leaveRequested = s.leaveRequested /\ t.session = s.session
    BY <1>1, <2>1 DEF PeerState
  <2>3. Hears(t) => Hears(s) BY <2>2 DEF Hears, Current
  <2> QED BY <1>6, <2>1, <2>2, <2>3
<1>8. CASE AuthTimer(p)
  <2> DEFINE u == [s EXCEPT !.authTimer = FALSE]
             t == IF Current(u) /\ ~u.authPromise
                  THEN [u EXCEPT !.authPromise = TRUE, !.authCall = TRUE] ELSE u
  <2>1. /\ t \in PeerState /\ t.queue = s.queue /\ t.received = s.received
        /\ t.repaired = s.repaired /\ t.phase = s.phase /\ t.fanoutRetained = s.fanoutRetained
        /\ t.open = s.open /\ t.leaveRequested = s.leaveRequested /\ t.session = s.session
    BY <1>1 DEF PeerState
  <2>2. Becomes(p, t) BY <1>8 DEF AuthTimer
  <2> HIDE DEF t
  <2>3. Hears(t) => Hears(s) BY <2>1 DEF Hears, Current
  <2> QED BY <1>6, <2>1, <2>2, <2>3
<1>9. CASE LeaseTimer(p)
  <2> DEFINE u == [s EXCEPT !.leaseTimer = FALSE]
             t == IF Current(u) /\ u.lease /\ ~u.leaseCall THEN [u EXCEPT !.leaseCall = TRUE] ELSE u
  <2>1. /\ t \in PeerState /\ t.queue = s.queue /\ t.received = s.received
        /\ t.repaired = s.repaired /\ t.phase = s.phase /\ t.fanoutRetained = s.fanoutRetained
        /\ t.open = s.open /\ t.leaveRequested = s.leaveRequested /\ t.session = s.session
    BY <1>1 DEF PeerState
  <2>2. Becomes(p, t) BY <1>9 DEF LeaseTimer
  <2> HIDE DEF t
  <2>3. Hears(t) => Hears(s) BY <2>1 DEF Hears, Current
  <2> QED BY <1>6, <2>1, <2>2, <2>3
<1> QED BY <1>3, <1>4, <1>5, <1>7, <1>8, <1>9

LEMMA MessagesFollow ==
  ASSUME SentInv, (\E p \in Peer : ReceiveMessage(p)) \/ StartMaintenance \/ EndMaintenance
  PROVE  AllFollow
<1>1. ASSUME NEW p \in Peer, NEW request \in Requests
      PROVE  Follows(peer[p], Enqueue(peer[p], request.kind, "start", "dispatch", request.data))
  <2>1. request.kind \in {"repair", "event"} /\ request.data \in SUBSET Batch
    BY HostIs DEF SentInv, SessionInv
  <2> QED BY <2>1, SentIs, FollowsEnqueue
<1>2. CASE \E p \in Peer : ReceiveMessage(p)
  <2>1. PICK p \in Peer : ReceiveMessage(p) BY <1>2
  <2>2. PICK request \in Requests :
          \/ Becomes(p, Enqueue(peer[p], request.kind, "start", "dispatch", request.data))
          \/ UNCHANGED peer
    BY <2>1 DEF ReceiveMessage
  <2> QED BY <1>1, <2>2, FollowByOne, QuietFollows DEF FollowsOne
<1>3. CASE StartMaintenance
  <2> DEFINE due(s) == /\ s.phase = "authenticated" /\ ~s.leaveRequested
                       /\ s.queue = <<>> /\ (s.authDue \/ s.leaseDue)
  <2>1. peer' = [p \in Peer |->
                   IF due(peer[p]) THEN Enqueue(peer[p], "maintain", "start", "end", {})
                                   ELSE peer[p]]
    BY <1>3 DEF StartMaintenance
  <2>2. \A p \in Peer : /\ Follows(peer[p], peer[p])
                        /\ Follows(peer[p], Enqueue(peer[p], "maintain", "start", "end", {}))
    BY SentIs, FollowsEnqueue
  <2> HIDE DEF due
  <2> QED BY <2>1, <2>2 DEF AllFollow
<1>4. CASE EndMaintenance
  <2> DEFINE m == maintenance[1]
  <2>1. /\ maintenance # <<>> /\ Head(maintenance) = m
        /\ Becomes(m.from, Enqueue(peer[m.from], m.request.kind, "start", "dispatch", m.request.data))
    BY <1>4 DEF EndMaintenance
  <2>2. 1 \in DOMAIN maintenance BY <2>1 DEF SentInv, SessionInv, RoomInv, ShapeOK
  <2>3. m.from \in Peer /\ m.request \in Requests BY <2>2, WaitingIs DEF SentInv, SessionInv
  <2> HIDE DEF m
  <2> QED BY <1>1, <2>1, <2>3, FollowByOne DEF FollowsOne
<1> QED BY <1>2, <1>3, <1>4

LEMMA CloseFollows == ASSUME SentInv, Close PROVE AllFollow
<1> DEFINE u(s) == ClosePeer([s EXCEPT !.leaveRequested = TRUE])
           t(s) == Enqueue(u(s), "close", "start", "end", {})
<1>1. peer' = [p \in Peer |-> IF InMap(peer[p]) THEN t(peer[p]) ELSE peer[p]] BY DEF Close
<1>2. ASSUME NEW p \in Peer PROVE Follows(peer[p], t(peer[p])) /\ Follows(peer[p], peer[p])
  <2> DEFINE v == [peer[p] EXCEPT !.leaveRequested = TRUE]
  <2>1. Follows(peer[p], peer[p]) BY SentIs
  <2>2. Follows(peer[p], v) BY <2>1, FollowsArms
  <2> HIDE DEF v
  <2>3. Follows(peer[p], ClosePeer(v)) BY <2>2, FollowsArms
  <2>4. Follows(peer[p], Enqueue(ClosePeer(v), "close", "start", "end", {}))
    BY <2>3, FollowsEnqueue
  <2> QED BY <2>1, <2>4 DEF v
<1> HIDE DEF t
<1> QED BY <1>1, <1>2 DEF AllFollow

LEMMA AnswersFollow ==
  ASSUME SentInv, NEW p \in Peer, AuthCallAnswered(p) \/ LeaseCallAnswered(p)
  PROVE  AllFollow
<1>1. peer[p] \in PeerState /\ Follows(peer[p], peer[p]) /\ PeerOK(peer[p]) BY SentIs
<1>2. ASSUME NEW t, Follows(peer[p], t), Becomes(p, t) PROVE AllFollow
  BY <1>2, FollowByOne DEF FollowsOne
<1>3. CASE AuthCallAnswered(p)
  <2> DEFINE s == [peer[p] EXCEPT !.authCall = FALSE, !.authPromise = FALSE]
             waits == At(p, "shared-refresh")
  <2>1. /\ s \in PeerState /\ s.queue = peer[p].queue /\ s.received = peer[p].received
        /\ s.repaired = peer[p].repaired /\ s.phase = peer[p].phase
        /\ s.fanoutRetained = peer[p].fanoutRetained /\ (Hears(s) => Hears(peer[p]))
    BY <1>1 DEF PeerState, Hears, Current
  <2>2. waits => s.queue # <<>> BY <2>1 DEF At
  <2>3. \/ \E role \in Sessions \ {"none"} :
              LET t == IF Current(s) THEN ArmAuth([s EXCEPT !.session = role]) ELSE s
              IN  Becomes(p, IF ~waits THEN t
                             ELSE IF Current(t) THEN MaintainLease(t) ELSE Continue(t, FALSE))
        \/ LET t == Terminate(s)
           IN  Becomes(p, IF waits THEN Continue(t, FALSE) ELSE t)
    BY <1>3 DEF AuthCallAnswered
  <2>4. SameCore(peer[p], s) BY <1>1 DEF SameCore, PeerState
  <2> HIDE DEF s
  <2>5. Follows(peer[p], s) BY <1>1, <2>1, FollowsSame
  <2>6. ASSUME NEW t, Follows(peer[p], t), t.queue # <<>>
        PROVE  /\ Current(t) => Follows(peer[p], MaintainLease(t))
               /\ Follows(peer[p], Continue(t, FALSE))
    BY <2>6, FollowsMaintain, FollowsContinue DEF Follows
  <2>7. waits => Pt(peer[p]) = "shared-refresh" BY AtIs DEF SentInv, SessionInv
  <2> HIDE DEF waits
  <2>8. ASSUME NEW role \in Sessions \ {"none"},
               LET t == IF Current(s) THEN ArmAuth([s EXCEPT !.session = role]) ELSE s
               IN  Becomes(p, IF ~waits THEN t
                              ELSE IF Current(t) THEN MaintainLease(t) ELSE Continue(t, FALSE))
        PROVE  AllFollow
    <3> DEFINE u == [s EXCEPT !.session = role]
               t == IF Current(s) THEN ArmAuth(u) ELSE s
    <3>1. Current(s) => Follows(peer[p], u) /\ u.queue = s.queue BY <2>5, FollowsRole
    <3>2. Becomes(p, IF ~waits THEN t
                     ELSE IF Current(t) THEN MaintainLease(t) ELSE Continue(t, FALSE))
      BY <2>8
    <3> HIDE DEF u
    <3>3. Follows(peer[p], t) /\ t.queue = s.queue BY <2>5, <3>1, FollowsArms
    <3> HIDE DEF t
    <3>4. waits => /\ Current(t) => Follows(peer[p], MaintainLease(t))
                   /\ Follows(peer[p], Continue(t, FALSE))
      BY <2>2, <2>6, <3>3
    <3> QED BY <1>2, <3>2, <3>3, <3>4
  <2>9. ASSUME LET t == Terminate(s) IN Becomes(p, IF waits THEN Continue(t, FALSE) ELSE t)
        PROVE  AllFollow
    <3> DEFINE t == Terminate(s)
    <3>1. Follows(peer[p], t) BY <2>5, FollowsExpel
    <3>2. PeerOK(s) /\ Pt(s) = Pt(peer[p]) BY <1>1, <2>4, SameCoreKept
    <3>3. Pt(s) # "none" => Pt(t) = Pt(s) BY <3>2, TerminateKept
    <3> HIDE DEF t
    <3>4. waits => t.queue # <<>> BY <2>7, <3>2, <3>3 DEF Pt
    <3>5. waits => Follows(peer[p], Continue(t, FALSE)) BY <2>6, <3>1, <3>4
    <3> QED BY <1>2, <2>9, <3>1, <3>5 DEF t
  <2> QED BY <2>3, <2>8, <2>9
<1>4. CASE LeaseCallAnswered(p)
  <2> DEFINE s == [peer[p] EXCEPT !.leaseCall = FALSE]
  <2>1. /\ s \in PeerState /\ s.queue = peer[p].queue /\ s.received = peer[p].received
        /\ s.repaired = peer[p].repaired /\ s.phase = peer[p].phase
        /\ s.fanoutRetained = peer[p].fanoutRetained /\ (Hears(s) => Hears(peer[p]))
    BY <1>1 DEF PeerState, Hears, Current
  <2>2. \/ Becomes(p, IF Current(s) THEN ArmLease(s) ELSE s)
        \/ Becomes(p, Terminate(s))
    BY <1>4 DEF LeaseCallAnswered
  <2> HIDE DEF s
  <2>3. Follows(peer[p], s) BY <1>1, <2>1, FollowsSame
  <2>4. Follows(peer[p], ArmLease(s)) /\ Follows(peer[p], Terminate(s))
    BY <2>3, FollowsArms, FollowsExpel
  <2> QED BY <1>2, <2>2, <2>3, <2>4
<1> QED BY <1>3, <1>4

LEMMA StartJobFollows == ASSUME SentInv, NEW p \in Peer, StartJob(p) PROVE AllFollow
<1> DEFINE s == peer[p]
           kind == s.queue[1].kind
<1>1. At(p, "start") BY DEF StartJob
<1>2. /\ Pt(s) = "start" /\ s.queue # <<>> /\ Running(s) = s.queue[1] /\ s.queue[1] \in Job
      /\ s.queue[1].at = "start" /\ 1 \in DOMAIN s.queue
  BY <1>1, AtIs, SentIs, HeadIsJob DEF SentInv, SessionInv, Pt
<1>3. /\ s \in PeerState /\ RunOK(s) /\ SessionOK(s) /\ HearsOK(s)
      /\ Follows(s, s) /\ Carries(s, s)
  BY SentIs DEF Follows
<1>4. s.queue[1].next \in {"end", "dispatch"} BY <1>2, <1>3 DEF HearsOK, HeadOK, Turn
<1>5. CASE kind \in {"reset", "close"} /\ Resets(p, s, TRUE, fanoutQueue)
  <2>1. kind \in Kinds(s) BY <1>2 DEF Kinds
  <2>2. ~Hears(s) BY <1>3, <1>5, <2>1 DEF SessionOK, ToldOK, Removals, Hears, Current
  <2> QED BY <1>2, <1>3, <1>5, <2>2, ResetsFollow, FollowByOne
<1>6. ASSUME kind = "resume", NEW role \in Sessions,
             Becomes(p, Goto([s EXCEPT !.session = role], "recheck"))
      PROVE  AllFollow
  <2> DEFINE u == [s EXCEPT !.session = role]
  <2>1. s.phase = "authenticating" BY <1>2, <1>3, <1>6 DEF RunOK, PhaseOK, Setup
  <2>2. Follows(s, u) /\ u.queue # <<>> BY <1>2, <1>3, <2>1, FollowsRole
  <2>3. Becomes(p, Goto(u, "recheck")) BY <1>6
  <2> HIDE DEF u
  <2>4. Follows(s, Goto(u, "recheck")) BY <2>2, FollowsGoto DEF Follows, Points
  <2> QED BY <2>3, <2>4, FollowByOne DEF FollowsOne
<1>7. CASE Becomes(p, MaintainPeer(s))
  <2>1. Follows(s, MaintainPeer(s)) BY <1>2, <1>3, FollowsMaintain
  <2> QED BY <1>7, <2>1, FollowByOne DEF FollowsOne
<1>8. CASE Becomes(p, Continue(s, s.phase = "authenticated" /\ ~s.leaveRequested))
  <2> DEFINE a == s.phase = "authenticated" /\ ~s.leaveRequested
  <2>1. a \in BOOLEAN OBVIOUS
  <2>2. Becomes(p, Continue(s, a)) BY <1>8
  <2> HIDE DEF a
  <2>3. Follows(s, Continue(s, a)) BY <1>2, <1>3, <1>4, <2>1, FollowsContinue
  <2> QED BY <2>2, <2>3, FollowByOne DEF FollowsOne
<1>9. \/ kind \in {"reset", "close"} /\ Resets(p, s, TRUE, fanoutQueue)
      \/ kind = "resume" /\ \E role \in Sessions \ {"none"} :
                              Becomes(p, Goto([s EXCEPT !.session = role], "recheck"))
      \/ Becomes(p, MaintainPeer(s))
      \/ Becomes(p, Continue(s, s.phase = "authenticated" /\ ~s.leaveRequested))
  BY <1>2 DEF StartJob
<1> QED BY <1>5, <1>6, <1>7, <1>8, <1>9

LEMMA RefreshesFollow ==
  ASSUME SentInv, NEW p \in Peer, Refreshed(p) \/ LeaseRefreshed(p)
  PROVE  AllFollow
<1>1. /\ peer[p] \in PeerState /\ Follows(peer[p], peer[p]) /\ Carries(peer[p], peer[p])
      /\ peer[p].queue # <<>>
  BY SentIs, AtIs DEF Refreshed, LeaseRefreshed, Follows, SentInv, SessionInv
<1>2. ASSUME NEW t, Follows(peer[p], t), Becomes(p, t) PROVE AllFollow
  BY <1>2, FollowByOne DEF FollowsOne
<1>3. ASSUME NEW t, Follows(peer[p], t), t.queue # <<>>
      PROVE  /\ Current(t) => Follows(peer[p], MaintainLease(t)) /\ Follows(peer[p], Continue(t, TRUE))
             /\ Follows(peer[p], Continue(t, FALSE))
  BY <1>3, FollowsMaintain, FollowsContinue DEF Follows
<1>4. ASSUME NEW t, Follows(peer[p], t), t.queue # <<>>, Resets(p, ClosePeer(t), TRUE, fanoutQueue)
      PROVE  AllFollow
  <2>1. Follows(peer[p], ClosePeer(t)) /\ ClosePeer(t).queue # <<>> /\ ~Hears(ClosePeer(t))
    BY <1>4, FollowsArms
  <2> QED BY <1>4, <2>1, ResetsFollow, FollowByOne DEF Follows
<1>5. CASE Refreshed(p)
  <2> DEFINE s == [peer[p] EXCEPT !.authPromise = FALSE]
  <2>1. /\ s \in PeerState /\ s.queue = peer[p].queue /\ s.received = peer[p].received
        /\ s.repaired = peer[p].repaired /\ s.phase = peer[p].phase
        /\ s.fanoutRetained = peer[p].fanoutRetained /\ (Hears(s) => Hears(peer[p]))
    BY <1>1 DEF PeerState, Hears, Current
  <2>2. \/ /\ Current(s)
           /\ \E role \in Sessions \ {"none"} :
                Becomes(p, MaintainLease(ArmAuth([s EXCEPT !.session = role])))
        \/ Becomes(p, Continue(s, FALSE))
        \/ Resets(p, ClosePeer(s), TRUE, fanoutQueue)
    BY <1>5 DEF Refreshed
  <2> HIDE DEF s
  <2>3. Follows(peer[p], s) /\ s.queue # <<>> BY <1>1, <2>1, FollowsSame
  <2>4. ASSUME Current(s), NEW role \in Sessions \ {"none"},
               Becomes(p, MaintainLease(ArmAuth([s EXCEPT !.session = role])))
        PROVE  AllFollow
    <3> DEFINE u == [s EXCEPT !.session = role]
    <3>1. Follows(peer[p], u) /\ u.queue = s.queue BY <2>3, <2>4, FollowsRole
    <3>2. Becomes(p, MaintainLease(ArmAuth(u))) BY <2>4
    <3>3. Current(u) BY <2>1, <2>4 DEF Current, PeerState
    <3> HIDE DEF u
    <3>4. Follows(peer[p], ArmAuth(u)) /\ ArmAuth(u).queue # <<>> /\ Current(ArmAuth(u))
      BY <2>3, <3>1, <3>3, FollowsArms
    <3> QED BY <1>2, <1>3, <3>2, <3>4
  <2> QED BY <1>2, <1>3, <1>4, <2>2, <2>3, <2>4
<1>6. CASE LeaseRefreshed(p)
  <2> DEFINE s == peer[p]
             v == [s EXCEPT !.leaveRequested = TRUE]
  <2>1. \/ Current(s) /\ Becomes(p, Continue(ArmLease(s), TRUE))
        \/ Becomes(p, Continue(s, FALSE))
        \/ Resets(p, ClosePeer(v), TRUE, fanoutQueue)
    BY <1>6 DEF LeaseRefreshed
  <2>2. /\ Follows(s, ArmLease(s)) /\ ArmLease(s).queue # <<>> /\ (Current(ArmLease(s)) <=> Current(s))
        /\ Follows(s, v) /\ v.queue # <<>>
    BY <1>1, FollowsArms
  <2> HIDE DEF v
  <2> QED BY <1>1, <1>2, <1>3, <1>4, <2>1, <2>2
<1> QED BY <1>5, <1>6

-----------------------------------------------------------------------------
(* One step of each action.                                                *)

LEMMA QuietGap ==
  ASSUME SentInv, NEW p \in Peer,
         \/ Join(p) \/ ReceiveAuth(p) \/ Resume(p) \/ Leave(p) \/ Expires(p)
         \/ AuthTimer(p) \/ LeaseTimer(p) \/ ReceiveMessage(p)
         \/ AuthCallAnswered(p) \/ LeaseCallAnswered(p)
  PROVE  GapInv'
<1>1. UNCHANGED <<subscription, logVars>>
  BY DEF Join, ReceiveAuth, Resume, Leave, Expires, AuthTimer, LeaseTimer, ReceiveMessage,
         AuthCallAnswered, LeaseCallAnswered, roomVars
<1>2. AllFollow BY HostCallsFollow, MessagesFollow, AnswersFollow
<1> QED BY <1>1, <1>2, StillGap

LEMMA QuietJobGap ==
  ASSUME SentInv, NEW p \in Peer,
         \/ StartJob(p) \/ Authorized(p) \/ Rechecked(p) \/ Acquired(p) \/ RetainFanout(p)
         \/ ReadySent(p) \/ Refreshed(p) \/ LeaseRefreshed(p)
         \/ ReleaseFanout(p) \/ LeaseReleased(p) \/ SessionEnded(p)
  PROVE  GapInv'
<1>1. UNCHANGED <<subscription, logVars>>
  BY DEF StartJob, Authorized, Rechecked, Acquired, RetainFanout, ReadySent, Refreshed,
         LeaseRefreshed, ReleaseFanout, LeaseReleased, SessionEnded, roomVars
<1>2. AllFollow BY StartJobFollows, SetupFollow, RefreshesFollow, RemovalFollows
<1> QED BY <1>1, <1>2, StillGap

LEMMA QuietRoomGap ==
  ASSUME SentInv, MaintenanceStep \/ Close \/ CloseDrained \/ CloseFanout
  PROVE  GapInv'
<1>1. UNCHANGED <<subscription, logVars>>
  BY DEF MaintenanceStep, StartMaintenance, EndMaintenance, Close, CloseDrained, CloseFanout
<1>2. CloseDrained \/ CloseFanout => AllFollow BY QuietFollows DEF CloseDrained, CloseFanout
<1>3. AllFollow BY <1>2, MessagesFollow, CloseFollows DEF MaintenanceStep
<1> QED BY <1>1, <1>3, StillGap

\* The subscription comes and goes while nobody hears it.
LEMMA SubscriptionGap ==
  ASSUME SentInv, RoomInv',
         \/ \E p \in Peer : StaleDropped(p) \/ Subscribed(p) \/ Unsubscribed(p)
         \/ CloseUnsubscribed
  PROVE  GapInv'
<1>1. AllFollow BY SetupFollow, RemovalFollows, QuietFollows DEF CloseUnsubscribed
<1>2. \/ UNCHANGED <<subscription, logVars>>
      \/ subscription' = None
      \/ \E p \in Peer : At(p, "subscribe")
  BY DEF StaleDropped, Subscribed, Unsubscribed, CloseUnsubscribed, Dropped
<1>3. ASSUME NEW p \in Peer, At(p, "subscribe") PROVE subscription = None
  <2>1. Pt(peer[p]) = "subscribe" BY <1>3, AtIs DEF SentInv, SessionInv
  <2> QED BY <2>1 DEF SentInv, SessionInv, RoomInv, LockOK, HoldPoints
<1> QED BY <1>1, <1>2, <1>3, StillGap, SilentGap

\* The step of p may end what it had to publish.
LEMMA GapByOne ==
  ASSUME SentInv, NEW p \in Peer, NEW t, Becomes(p, t),
         HearsOK(t), GapOK(t, durable', Coming'),
         Coming \subseteq Coming', durable' \subseteq durable \cup Coming'
  PROVE  GapInv'
<1>1. peer \in [Peer -> PeerState] BY DEF SentInv, SessionInv, RoomInv, ShapeOK
<1>2. peer'[p] = t /\ \A q \in Peer \ {p} : peer'[q] = peer[q] BY <1>1 DEF Becomes
<1> DEFINE w == Coming
           v == Coming'
           e == durable'
<1>3. w \subseteq v /\ e \subseteq durable \cup v /\ GapOK(t, e, v) OBVIOUS
<1>4. \A q \in Peer : Follows(peer[q], peer[q]) /\ GapOK(peer[q], durable, w)
  BY SentIs DEF SentInv, GapInv
<1> SUFFICES ASSUME NEW q \in Peer PROVE HearsOK(peer'[q]) /\ GapOK(peer'[q], e, v)
  BY DEF GapInv
<1> HIDE DEF w, v, e
<1>5. CASE q = p BY <1>2, <1>3, <1>5
<1>6. CASE q # p
  <2>1. HearsOK(peer[q]) /\ GapOK(peer[q], e, v) BY <1>3, <1>4, GapFollows
  <2> QED BY <1>2, <1>6, <2>1
<1> QED BY <1>5, <1>6

LEMMA ComingByOne ==
  ASSUME SentInv, NEW p \in Peer, NEW t, Becomes(p, t),
         subscription' = subscription, durable \subseteq durable', committed \subseteq committed',
         inflight \subseteq inflight', lost \subseteq lost',
         Held(peer[p]) \cap durable \subseteq Coming'
  PROVE  Coming \subseteq Coming' /\ Held(t) \cap durable' \subseteq Coming'
<1>1. peer \in [Peer -> PeerState] BY DEF SentInv, SessionInv, RoomInv, ShapeOK
<1>2. peer'[p] = t /\ \A q \in Peer \ {p} : peer'[q] = peer[q] BY <1>1 DEF Becomes
<1>3. Held(t) \cap durable' \subseteq Coming' BY <1>2 DEF Coming
<1>4. ASSUME NEW b \in Coming PROVE b \in Coming'
  <2>1. CASE b \in Held(peer[p]) BY <1>4, <2>1 DEF Coming
  <2>2. CASE \E q \in Peer \ {p} : b \in Held(peer[q]) BY <1>2, <1>4, <2>2 DEF Coming
  <2>3. CASE b \in lost \cup committed \/ [to |-> subscription, batch |-> b] \in inflight
    BY <1>4, <2>3 DEF Coming
  <2> QED BY <1>4, <2>1, <2>2, <2>3 DEF Coming
<1> QED BY <1>3, <1>4

\* A batch that was stored is held until it is published.
LEMMA AppendedGap == ASSUME SentInv, NEW p \in Peer, Appended(p) PROVE GapInv'
<1> DEFINE s == peer[p]
           data == s.queue[1].data
           j == [s.queue[1] EXCEPT !.next = "publish"]
           u == Then(s, "publish")
<1>1. At(p, "append") BY DEF Appended
<1>2. /\ s.queue # <<>> /\ Running(s) = s.queue[1] /\ s.queue[1] \in Job
      /\ s.queue[1].at = "append" /\ 1 \in DOMAIN s.queue
  BY <1>1, AtIs, SentIs, HeadIsJob DEF SentInv, SessionInv, Pt
<1>3. /\ s \in PeerState /\ Follows(s, s) /\ Standing(s) /\ GapOK(s, durable, Coming)
      /\ s.queue[1].next = "end" /\ s.queue[1].kind = "event" /\ Carries(s, s)
  BY <1>2, SentIs DEF HearsOK, HeadOK, Turn, Follows, SentInv, GapInv
<1>4. UNCHANGED <<subscription, committed, inflight>> BY DEF Appended, roomVars
<1>5. CASE /\ durable' = durable \cup data /\ UNCHANGED lost
           /\ Becomes(p, AfterStore(u))
  <2>1. Rewritten(s, j, u) BY <1>2, <1>3, ThenIs DEF Continuations
  <2>2. j.next = "publish" /\ j.kind = "event" /\ j.data = data BY <1>2, <1>3 DEF Job
  <2> HIDE DEF j, u
  <2>3. /\ u \in PeerState /\ SameRest(s, u) /\ u.queue # <<>> /\ u.queue[1] = j
        /\ DOMAIN u.queue = DOMAIN s.queue
        /\ \A i \in DOMAIN u.queue : i = 1 \/ (i > 1 /\ u.queue[i] = s.queue[i])
    <3>1. s.queue \in Seq(Job) BY <1>2, <1>3, HeadIsJob
    <3> QED BY <2>1, <3>1 DEF Rewritten
  <2>4. /\ Hears(u) <=> Hears(s)
        /\ u.repaired = s.repaired /\ u.received = s.received
        /\ u.fanoutRetained = s.fanoutRetained /\ u.phase = s.phase
    BY <2>3 DEF SameRest, Hears, Current
  <2>5. Standing(u) BY <1>3, <2>2, <2>3, <2>4 DEF Standing
  <2>6. Carries(u, u) BY <2>5, CarriesSelf
  <2> DEFINE t == AfterStore(u)
  <2>7. Follows(u, t)
    <3>1. Follows(u, MaintainPeer(u)) BY <2>3, <2>6, FollowsMaintain
    <3>2. Follows(u, Continue(u, TRUE)) BY <2>2, <2>3, <2>6, FollowsContinue
    <3> QED BY <3>1, <3>2 DEF AfterStore
  <2>8. Becomes(p, t) BY <1>5
  <2> HIDE DEF t
  <2>9. Held(s) = {} /\ Held(u) = data
    BY <1>3, <2>2, <2>3 DEF Held, Publishing
  <2>10. data \subseteq Held(t) BY <2>7, <2>9, HeldFollows
  <2>11. Coming \subseteq Coming' /\ Held(t) \cap durable' \subseteq Coming'
    BY <1>4, <1>5, <2>8, <2>9, ComingByOne
  <2>12. durable' \subseteq durable \cup Coming' BY <1>5, <2>10, <2>11
  <2>13. ~Replying(u) BY <2>2, <2>3 DEF Replying
  <2>14. GapOK(u, durable, Coming) BY <1>3, <2>4, <2>13 DEF GapOK
  <2>15. HearsOK(t) /\ GapOK(t, durable', Coming')
    <3> DEFINE w == Coming
               v == Coming'
               e == durable'
    <3>1. w \subseteq v /\ e \subseteq durable \cup v /\ GapOK(u, durable, w) BY <2>11, <2>12, <2>14
    <3> HIDE DEF w, v, e
    <3>2. HearsOK(t) /\ GapOK(t, e, v) BY <2>7, <3>1, GapFollows
    <3> QED BY <3>2 DEF e, v
  <2> QED BY <2>8, <2>11, <2>12, <2>15, GapByOne
<1>6. CASE Becomes(p, Done(s)) /\ durable \subseteq durable' /\ lost \subseteq lost'
           /\ durable' \ durable \subseteq lost'
  <2>1. Follows(s, Done(s)) BY <1>2, <1>3, FollowsDone
  <2>2. AllFollow BY <1>6, <2>1, FollowByOne DEF FollowsOne
  <2>3. Coming \subseteq Coming' BY <1>4, <1>6, <2>2, ComingStays
  <2>4. durable' \subseteq durable \cup Coming' BY <1>6 DEF Coming
  <2> QED BY <2>2, <2>3, <2>4, GapStep
<1>7. \/ /\ durable' = durable \cup data /\ UNCHANGED lost
         /\ Becomes(p, AfterStore(u))
      \/ Becomes(p, Done(s)) /\ UNCHANGED <<durable, lost>>
      \/ /\ Becomes(p, Done(s)) /\ durable' = durable \cup data
         /\ lost' = lost \cup (data \ durable)
  BY <1>2 DEF Appended
<1> QED BY <1>5, <1>6, <1>7

\* Nobody hears a subscription that does not exist.
LEMMA NobodyHears ==
  ASSUME RoomInv, subscription = None, NEW p \in Peer, Standing(peer[p])
  PROVE  ~Hears(peer[p])
BY DEF RoomInv, CountOK, Counts, Standing

\* What p published is on its way to the subscription, if anyone hears it.
LEMMA PublishedGap == ASSUME SentInv, RoomInv', NEW p \in Peer, Published(p) PROVE GapInv'
<1> DEFINE s == peer[p]
           data == s.queue[1].data
           t == Done(s)
<1>1. At(p, "publish") BY DEF Published
<1>2. s.queue # <<>> /\ Running(s) = s.queue[1]
  BY <1>1, AtIs DEF SentInv, SessionInv
<1>3. Standing(s) /\ GapOK(s, durable, Coming) BY SentIs DEF HearsOK, SentInv, GapInv
<1>4. UNCHANGED <<subscription, live, durable, committed>> /\ Becomes(p, t)
  BY DEF Published, roomVars, serviceVars
<1>5. \/ Publish(data) /\ UNCHANGED lost
      \/ lost' = lost \cup data /\ UNCHANGED inflight
  BY <1>2 DEF Published
<1>6. /\ HearsOK(t) /\ ~Replying(t)
      /\ (Hears(t) <=> Hears(s)) /\ t.repaired = s.repaired /\ t.received = s.received
  BY <1>2, <1>3, DoneStands
<1>7. Held(s) \subseteq data BY DEF Held
<1> HIDE DEF t
<1>8. inflight \subseteq inflight' /\ lost \subseteq lost' BY <1>5 DEF Publish
<1>9. CASE Held(s) \cap durable \subseteq Coming'
  <2>1. Coming \subseteq Coming' BY <1>4, <1>8, <1>9, ComingByOne
  <2>2. GapOK(t, durable', Coming') BY <1>3, <1>4, <1>6, <2>1 DEF GapOK
  <2> QED BY <1>4, <1>6, <2>1, <2>2, GapByOne
<1>10. CASE subscription # None
  <2>1. subscription \in live BY <1>10 DEF SentInv, SessionInv, RoomInv, CountOK
  <2>2. \A b \in data : b \in lost' \/ [to |-> subscription', batch |-> b] \in inflight'
    BY <1>4, <1>5, <2>1 DEF Publish
  <2>3. Held(s) \cap durable \subseteq Coming' BY <1>4, <1>7, <2>2 DEF Coming
  <2> QED BY <1>9, <2>3
<1>11. CASE subscription = None
  <2>1. peer \in [Peer -> PeerState] BY DEF SentInv, SessionInv, RoomInv, ShapeOK
  <2>2. peer'[p] = t /\ \A q \in Peer \ {p} : peer'[q] = peer[q] BY <1>4, <2>1 DEF Becomes
  <2>3. ASSUME NEW q \in Peer PROVE HearsOK(peer'[q]) /\ ~Hears(peer'[q])
    <3>1. HearsOK(peer[q]) /\ ~Hears(peer[q])
      BY <1>11, SentIs, NobodyHears DEF HearsOK, SentInv, SessionInv
    <3> QED BY <1>6, <2>2, <3>1
  <2> QED BY <2>3 DEF GapInv, GapOK
<1> QED BY <1>10, <1>11

\* The history as it is now is what the session lacks.
LEMMA HistoryReadGap == ASSUME SentInv, NEW p \in Peer, HistoryRead(p) PROVE GapInv'
<1> DEFINE s == peer[p]
           i == [s.queue[1] EXCEPT !.next = "reply"]
           u == Then(s, "reply")
           j == [i EXCEPT !.data = durable]
           v == [u EXCEPT !.queue[1].data = durable]
<1>1. At(p, "read") BY DEF HistoryRead
<1>2. /\ s.queue # <<>> /\ s.queue[1] \in Job /\ s.queue[1].at = "read"
  BY <1>1, AtIs DEF SentInv, SessionInv, Pt
<1>3. /\ s \in PeerState /\ Standing(s) /\ GapOK(s, durable, Coming)
      /\ s.queue[1].next = "end" /\ Carries(s, s)
  BY <1>2, SentIs DEF HearsOK, HeadOK, Turn, Follows, SentInv, GapInv
<1>4. UNCHANGED <<subscription, logVars>> BY DEF HistoryRead, roomVars
<1>5. \/ Becomes(p, MaintainPeer(v)) \/ Becomes(p, Continue(v, Current(v)))
      \/ Becomes(p, Done(s))
  BY DEF HistoryRead
<1>6. Rewritten(s, i, u) BY <1>2, <1>3, ThenIs DEF Continuations
<1>7. i \in Job /\ i.next = "reply" BY <1>2 DEF Job, Continuations
<1>8. durable \subseteq Batch BY DEF SentInv, SessionInv, RoomInv, ShapeOK
<1> HIDE DEF u, i
<1>9. j \in Job /\ j.next = "reply" /\ j.data = durable BY <1>7, <1>8 DEF Job
<1>10. u \in PeerState /\ u.queue # <<>> /\ u.queue[1] = i /\ 1 \in DOMAIN u.queue
  BY <1>6, HeadIsJob DEF Rewritten
<1>11. v = [u EXCEPT !.queue = [u.queue EXCEPT ![1] = j]] BY <1>10
<1> HIDE DEF v, j
<1>12. Rewritten(u, j, v) BY <1>9, <1>10, <1>11, SetHead
<1>13. /\ v \in PeerState /\ SameRest(s, v) /\ v.queue # <<>> /\ v.queue[1] = j
       /\ DOMAIN v.queue = DOMAIN s.queue
       /\ \A n \in DOMAIN v.queue : n = 1 \/ (n > 1 /\ v.queue[n] = s.queue[n])
  <2>1. s.queue \in Seq(Job) BY <1>2, <1>3, HeadIsJob
  <2>2. SameRest(s, u) /\ SameRest(u, v) BY <1>6, <1>12 DEF Rewritten
  <2>3. SameRest(s, v) BY <2>2 DEF SameRest
  <2>4. /\ DOMAIN v.queue = DOMAIN u.queue /\ DOMAIN u.queue = DOMAIN s.queue
        /\ \A n \in DOMAIN v.queue : n > 1 => v.queue[n] = u.queue[n]
        /\ \A n \in DOMAIN u.queue : n > 1 => u.queue[n] = s.queue[n]
        /\ v \in PeerState /\ v.queue # <<>> /\ v.queue[1] = j
    BY <1>6, <1>12 DEF Rewritten
  <2> QED BY <2>1, <2>3, <2>4
<1>14. /\ Hears(v) <=> Hears(s)
       /\ v.repaired = s.repaired /\ v.received = s.received
       /\ v.fanoutRetained = s.fanoutRetained /\ v.phase = s.phase
  BY <1>13 DEF SameRest, Hears, Current
<1>15. Standing(v) BY <1>3, <1>9, <1>13, <1>14 DEF Standing
<1>16. GapOK(v, durable, Coming) BY <1>3, <1>9, <1>13, <1>14 DEF GapOK
<1>17. Carries(v, v) BY <1>15, CarriesSelf
<1>18. Follows(v, MaintainPeer(v)) BY <1>13, <1>17, FollowsMaintain
<1>19. Follows(v, Continue(v, Current(v)))
  <2> DEFINE a == Current(v)
  <2>1. a \in BOOLEAN BY <1>13 DEF Current, PeerState
  <2>2. a => Current(v) OBVIOUS
  <2> HIDE DEF a
  <2>3. Follows(v, Continue(v, a)) BY <1>13, <1>17, <2>1, <2>2, FollowsContinue
  <2> QED BY <2>3 DEF a
<1>20. ASSUME NEW t, Follows(v, t), Becomes(p, t) PROVE GapInv'
  <2>1. Held(s) = {} BY <1>3 DEF Held, Publishing
  <2>2. Coming \subseteq Coming' BY <1>4, <1>20, <2>1, ComingByOne DEF logVars
  <2>3. HearsOK(t) /\ GapOK(t, durable', Coming')
    <3> DEFINE w == Coming
               x == Coming'
               e == durable'
    <3>1. w \subseteq x /\ e \subseteq durable \cup x /\ GapOK(v, durable, w)
      BY <1>4, <1>16, <2>2 DEF logVars
    <3> HIDE DEF w, x, e
    <3>2. HearsOK(t) /\ GapOK(t, e, x) BY <1>20, <3>1, GapFollows
    <3> QED BY <3>2 DEF e, x
  <2> QED BY <1>4, <1>20, <2>2, <2>3, GapByOne DEF logVars
<1>21. CASE Becomes(p, Done(s))
  <2>1. Follows(s, Done(s)) BY <1>2, <1>3, FollowsDone
  <2>2. AllFollow BY <1>21, <2>1, FollowByOne DEF FollowsOne
  <2> QED BY <1>4, <2>2, StillGap
<1> QED BY <1>5, <1>18, <1>19, <1>20, <1>21

\* What other hosts store is yet to be published; what they publish, and what the
\* bus loses, is accounted for.
LEMMA RemoteGap == ASSUME SentInv, RoomInv', RemoteCommit \/ RemotePublish \/ Drop PROVE GapInv'
<1>1. AllFollow /\ UNCHANGED <<peer, subscription, live>>
  BY QuietFollows DEF RemoteCommit, RemotePublish, Drop, roomVars, serviceVars
<1>2. CASE RemoteCommit
  <2>1. PICK b : durable' = durable \cup {b} /\ committed' = committed \cup {b}
    BY <1>2 DEF RemoteCommit
  <2>2. UNCHANGED <<inflight, lost>> BY <1>2 DEF RemoteCommit
  <2>3. Coming \subseteq Coming' BY <1>1, <2>1, <2>2, ComingStays
  <2>4. b \in Coming' BY <2>1 DEF Coming
  <2> QED BY <1>1, <2>1, <2>3, <2>4, GapStep
<1>3. CASE RemotePublish
  <2>1. PICK b : Publish({b}) /\ committed' = committed \ {b} BY <1>3 DEF RemotePublish
  <2>2. UNCHANGED <<durable, lost>> BY <1>3 DEF RemotePublish
  <2>3. CASE subscription = None BY <1>1, <2>3, SilentGap
  <2>4. CASE subscription # None
    <3>1. subscription \in live BY <2>4 DEF SentInv, SessionInv, RoomInv, CountOK
    <3>2. inflight \subseteq inflight' /\ [to |-> subscription, batch |-> b] \in inflight'
      BY <2>1, <3>1 DEF Publish
    <3>3. Coming \subseteq Coming' BY <1>1, <2>1, <2>2, <3>2 DEF Coming
    <3> QED BY <1>1, <2>2, <3>3, GapStep
  <2> QED BY <2>3, <2>4
<1>4. CASE Drop
  <2>1. PICK m \in inflight : inflight' = inflight \ {m} /\ lost' = lost \cup {m.batch}
    BY <1>4 DEF Drop
  <2>2. UNCHANGED <<durable, committed>> BY <1>4 DEF Drop
  <2>3. ASSUME NEW b \in Coming PROVE b \in Coming'
    <3>1. CASE [to |-> subscription, batch |-> b] = m
      <4>1. b = m.batch BY <3>1
      <4> QED BY <2>1, <2>2, <2>3, <4>1 DEF Coming
    <3>2. CASE [to |-> subscription, batch |-> b] # m
      BY <1>1, <2>1, <2>2, <2>3, <3>2 DEF Coming
    <3> QED BY <3>1, <3>2
  <2> QED BY <1>1, <2>2, <2>3, GapStep
<1> QED BY <1>2, <1>3, <1>4

\* What is delivered reaches everyone who hears the subscription and goes on to.
LEMMA DeliverGap == ASSUME SentInv, LogOK, Deliver PROVE GapInv'
<1> DEFINE t(s, b) ==
             CASE ~Current(s) -> s
               [] Current(s) /\ RefreshMode = "on-message" /\ (s.authDue \/ s.leaseDue) -> Expel(s)
               [] OTHER -> IF s.open THEN [s EXCEPT !.received = @ \cup {b}] ELSE s
<1>1. PICK m \in inflight : /\ inflight' = inflight \ {m}
                            /\ peer' = [p \in Peer |-> t(peer[p], m.batch)]
  BY DEF Deliver
<1>2. UNCHANGED <<subscription, durable, committed, lost>> BY DEF Deliver, roomVars
<1>3. m.batch \in Batch BY DEF LogOK, SentInv, SessionInv, RoomInv, ShapeOK
<1>4. ASSUME NEW p \in Peer
      PROVE  /\ Follows(peer[p], peer'[p])
             /\ Hears(peer'[p]) => m.batch \in peer'[p].received
  <2> DEFINE s == peer[p]
             u == [s EXCEPT !.received = @ \cup {m.batch}]
  <2>1. s \in PeerState /\ Follows(s, s) /\ Standing(s) /\ HeadOK(s) BY SentIs DEF HearsOK
  <2>2. peer'[p] = t(s, m.batch) BY <1>1
  <2>3. \/ t(s, m.batch) = s /\ ~Hears(s)
        \/ t(s, m.batch) = Expel(s)
        \/ t(s, m.batch) = u
    BY DEF Hears
  <2>4. /\ u \in PeerState /\ u.queue = s.queue /\ u.received = s.received \cup {m.batch}
        /\ u.repaired = s.repaired /\ u.phase = s.phase /\ u.fanoutRetained = s.fanoutRetained
        /\ Hears(u) <=> Hears(s)
    BY <1>3, <2>1 DEF PeerState, Hears, Current
  <2> HIDE DEF u, t
  <2>5. Follows(s, Expel(s)) /\ ~Hears(Expel(s)) BY <2>1, FollowsExpel
  <2>6. Follows(s, u)
    <3>1. /\ Publishing(u) <=> Publishing(s)
          /\ Replying(u) <=> Replying(s)
          /\ Pt(u) = Pt(s)
      BY <2>4 DEF Publishing, Replying, Pt
    <3>2. Standing(u) BY <2>1, <2>4 DEF Standing
    <3>3. HeadOK(u) BY <2>1, <2>4, <3>1 DEF HeadOK
    <3> QED BY <2>1, <2>4, <3>1, <3>2, <3>3 DEF Follows, Carries
  <2>7. m.batch \in u.received BY <2>4
  <2> QED BY <2>1, <2>2, <2>3, <2>5, <2>6, <2>7
<1>5. AllFollow BY <1>4 DEF AllFollow
<1> DEFINE w == Coming
           v == Coming' \cup {m.batch}
<1>6. w \subseteq v
  <2> SUFFICES ASSUME NEW b \in Coming, b # m.batch PROVE b \in Coming' OBVIOUS
  <2>1. [to |-> subscription, batch |-> b] # m OBVIOUS
  <2>2. \A q \in Peer : Held(peer[q]) \subseteq Held(peer'[q]) BY <1>5, HeldFollows DEF AllFollow
  <2> QED BY <1>1, <1>2, <2>1, <2>2 DEF Coming
<1>7. ASSUME NEW p \in Peer PROVE HearsOK(peer'[p]) /\ GapOK(peer'[p], durable, v)
  <2>1. Follows(peer[p], peer'[p]) /\ GapOK(peer[p], durable, w)
    BY <1>4 DEF SentInv, GapInv
  <2> HIDE DEF w, v
  <2> QED BY <1>6, <2>1, GapFollows
<1>8. ASSUME NEW p \in Peer PROVE GapOK(peer'[p], durable', Coming')
  <2>1. GapOK(peer'[p], durable, v) BY <1>7
  <2> QED BY <1>2, <1>4, <2>1 DEF GapOK
<1> QED BY <1>7, <1>8 DEF GapInv

LEMMA GapInit == ASSUME Init PROVE GapInv
<1> SUFFICES ASSUME NEW p \in Peer PROVE HearsOK(peer[p]) /\ ~Hears(peer[p])
  BY DEF GapInv, GapOK
<1>1. peer[p] = NeverJoined BY DEF Init
<1>2. /\ NeverJoined \in PeerState /\ NeverJoined.phase = "absent" /\ NeverJoined.queue = <<>>
      /\ ~NeverJoined.repaired
  BY DEF NeverJoined, PeerState, Phases, Sessions
<1> HIDE DEF NeverJoined
<1>3. ~Hears(NeverJoined) /\ Pt(NeverJoined) # "ready" /\ DOMAIN NeverJoined.queue = {}
  BY <1>2 DEF Hears, Current, Pt
<1>4. Standing(NeverJoined) BY <1>2, <1>3 DEF Standing
<1>5. HeadOK(NeverJoined) BY <1>2, <1>3 DEF HeadOK
<1> QED BY <1>1, <1>3, <1>4, <1>5 DEF HearsOK

LEMMA GapNext == ASSUME Inv, SessionsOK, GapInv, Next PROVE GapInv'
<1>1. SentInv /\ RoomInv' /\ LogOK BY RoomNext DEF SentInv, SessionInv, Inv
<1>2. ASSUME NEW p \in Peer, JobStep(p) PROVE GapInv'
  <2>1. CASE StaleDropped(p) \/ Subscribed(p) \/ Unsubscribed(p)
    BY <1>1, <2>1, SubscriptionGap
  <2>2. CASE Appended(p) BY <1>1, <2>2, AppendedGap
  <2>3. CASE Published(p) BY <1>1, <2>3, PublishedGap
  <2>4. CASE HistoryRead(p) BY <1>1, <2>4, HistoryReadGap
  <2> QED BY <1>1, <1>2, <2>1, <2>2, <2>3, <2>4, QuietJobGap DEF JobStep
<1>3. ASSUME NEW p \in Peer,
             \/ Join(p) \/ ReceiveAuth(p) \/ Resume(p) \/ Leave(p) \/ Expires(p)
             \/ AuthTimer(p) \/ LeaseTimer(p) \/ ReceiveMessage(p)
             \/ AuthCallAnswered(p) \/ LeaseCallAnswered(p)
      PROVE  GapInv'
  BY <1>1, <1>3, QuietGap
<1>4. ASSUME MaintenanceStep \/ Close \/ CloseStep PROVE GapInv'
  BY <1>1, <1>4, QuietRoomGap, SubscriptionGap DEF CloseStep
<1>5. ASSUME RemoteCommit \/ RemotePublish \/ Deliver \/ Drop PROVE GapInv'
  BY <1>1, <1>5, RemoteGap, DeliverGap
<1> QED BY <1>2, <1>3, <1>4, <1>5 DEF Next

LEMMA GapStutter == ASSUME GapInv, UNCHANGED vars PROVE GapInv'
BY DEF GapInv, Coming, vars, roomVars, logVars

LEMMA GapAlways == Spec => []GapInv
<1>1. Init => GapInv BY GapInit
<1>2. Inv /\ SessionsOK /\ GapInv /\ [Next]_vars => GapInv' BY GapNext, GapStutter
<1> QED BY <1>1, <1>2, RoomAlways, SessionsAlways, PTL DEF Spec

\* A session that has been sent the history once misses no batch after that: each
\* durable batch has reached it, is on its way to the room's subscription, or is
\* yet to be published, unless the bus lost it; repair may interleave with live
\* events in any way (document-room.ts:131-133).
THEOREM RoomNoGap == Spec => []NoGap
<1>1. ASSUME Inv, GapInv PROVE NoGap
  <2> SUFFICES ASSUME NEW p \in Peer, Hears(peer[p]), peer[p].repaired, NEW b \in durable,
                      b \notin peer[p].received
               PROVE  \/ b \in lost
                      \/ [to |-> subscription, batch |-> b] \in inflight
                      \/ Unpublished(b)
    BY DEF NoGap, Hears
  <2>1. b \in Coming BY <1>1 DEF GapInv, GapOK
  <2>2. ASSUME NEW q \in Peer, b \in Held(peer[q]) PROVE Unpublished(b)
    <3>1. HearsOK(peer[q]) /\ peer[q] \in PeerState /\ peer[q].queue # <<>>
          /\ peer[q].queue[1].next = "publish" /\ b \in peer[q].queue[1].data
      BY <1>1, <2>2 DEF GapInv, HearsOK, Standing, Held, Publishing
    <3>2. Running(peer[q]) = peer[q].queue[1] /\ 1 \in DOMAIN peer[q].queue
      BY <3>1, HeadIsJob
    <3>3. peer[q].queue[1].kind = "event" BY <3>1, <3>2 DEF HearsOK, Standing
    <3> QED BY <3>1, <3>2, <3>3 DEF Unpublished
  <2> QED BY <2>1, <2>2 DEF Coming, Unpublished
<1> QED BY <1>1, RoomAlways, GapAlways, PTL

=============================================================================
