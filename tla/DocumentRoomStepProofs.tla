----------------------- MODULE DocumentRoomStepProofs -----------------------
(***************************************************************************)
(* The invariant of the room, and that the actions of DocumentRoom keep    *)
(* it, for any peers, hosts, batches and bounds.                           *)
(*                                                                         *)
(* The operators of DocumentRoom are functions of the state of a peer:     *)
(* the first part shows for each one that it keeps the part of the         *)
(* invariant that is about a peer alone, and leaves the peer with what it  *)
(* held, or on its way to give it back.                                    *)
(*                                                                         *)
(* The invariant relates what the peers hold, and where their jobs are,    *)
(* to the room's count, its lock, its close and the services. Most steps   *)
(* change one peer and leave alone what it holds (Kept); the others are    *)
(* of the holder of the lock, or give a lease or a session back.           *)
(***************************************************************************)
EXTENDS DocumentRoom, TLAPS, FiniteSetTheorems

-----------------------------------------------------------------------------
(* One peer.                                                               *)

\* Points at which the job owns the fan-out lock, and points of the removal and
\* of the setup of a peer, in the order of resetState and authenticate.
HoldPoints == {"drop-stale", "subscribe", "unsubscribe"}
ResetPoints == {"release-lock", "unsubscribe", "lease-release", "session-end"}
SetupPoints == {"authorize", "recheck", "acquire", "fanout-lock", "drop-stale", "subscribe", "ready"}

\* Points at which a job changes nothing that the peer holds.
CalmPoints == {"none", "start", "refresh", "shared-refresh", "lease-refresh", "append", "read", "publish"}

Setup == {"auth", "resume"}

\* Where the running job is.
Pt(s) == IF s.queue = <<>> THEN "none" ELSE s.queue[1].at

\* What a peer has at the services and in the room's count, or is giving back.
Counts(s) == s.fanoutRetained \/ Pt(s) = "release-lock"
HasLease(s) == s.lease \/ Pt(s) = "lease-release"
HasSession(s) == s.session # "none" \/ Pt(s) = "session-end"
HasClose(s) == \E i \in DOMAIN s.queue : s.queue[i].kind = "close"

\* Jobs that have not begun.
Waits(j) == j.at = "start" /\ j.kind \notin Setup

\* What a job may be doing.
JobOK(j) ==
  /\ j.kind \in Setup \cup {"reset", "close"} => j.next = "end"
  /\ j.kind \in Setup => j.at \in SetupPoints \cup ResetPoints \cup {"start"}
  /\ j.kind \in {"reset", "close"} => j.at \in ResetPoints \cup {"start"}
  /\ j.at \in SetupPoints => j.kind \in Setup
  /\ j.kind = "auth" => j.at # "start"
  /\ ~j.remove => j.kind = "auth"

QueueOK(q) ==
  /\ \A i \in DOMAIN q : JobOK(q[i])
  /\ \A i \in DOMAIN q : i > 1 => Waits(q[i])

\* A peer that is outside, or is yet to authenticate, holds nothing.
HeldOK(s) ==
  s.phase \in {"absent", "left", "joined"} => ~s.fanoutRetained /\ ~s.lease /\ s.session = "none"

\* The phase of a peer and its jobs belong together.
PhaseOK(s) ==
  /\ HeldOK(s)
  /\ s.phase = "authenticating" <=> s.queue # <<>> /\ s.queue[1].kind \in Setup
  /\ s.phase = "joined" /\ s.queue # <<>> => s.leaveRequested \/ ~s.open
  /\ s.phase = "authenticating" /\ Len(s.queue) > 1 => ~s.open

\* So do what it holds and where its running job is.
HoldsOK(s) ==
  /\ s.fanoutRetained => s.phase = "authenticated" \/ Pt(s) = "ready"
  /\ Pt(s) \in ResetPoints => ~s.fanoutRetained /\ s.phase \in {"authenticating", "authenticated"}
  /\ Pt(s) \in {"lease-release", "session-end"} => ~s.lease
  /\ Pt(s) = "session-end" => s.session = "none"
  /\ Pt(s) = "recheck" => s.session # "none"

RunOK(s) == s \in PeerState /\ QueueOK(s.queue) /\ PhaseOK(s)
PeerOK(s) == RunOK(s) /\ HoldsOK(s)

-----------------------------------------------------------------------------
(* The queue.                                                              *)

\* The parts of a peer other than its queue.
SameRest(s, t) ==
  /\ t.phase = s.phase /\ t.leaveRequested = s.leaveRequested
  /\ t.fanoutRetained = s.fanoutRetained /\ t.lease = s.lease /\ t.session = s.session
  /\ t.authDue = s.authDue /\ t.authTimer = s.authTimer
  /\ t.authPromise = s.authPromise /\ t.authCall = s.authCall
  /\ t.leaseDue = s.leaseDue /\ t.leaseTimer = s.leaseTimer /\ t.leaseCall = s.leaseCall
  /\ t.open = s.open /\ t.released = s.released /\ t.repaired = s.repaired
  /\ t.acked = s.acked /\ t.received = s.received

\* The running job of s has become j.
Rewritten(s, j, t) ==
  /\ t \in PeerState /\ SameRest(s, t)
  /\ t.queue # <<>> /\ Len(t.queue) = Len(s.queue) /\ DOMAIN t.queue = DOMAIN s.queue
  /\ t.queue[1] = j
  /\ \A i \in DOMAIN t.queue : i > 1 => t.queue[i] = s.queue[i]

LEMMA SetHead ==
  ASSUME NEW s \in PeerState, s.queue # <<>>, NEW j \in Job
  PROVE  Rewritten(s, j, [s EXCEPT !.queue = [s.queue EXCEPT ![1] = j]])
<1> DEFINE q == s.queue
           r == [q EXCEPT ![1] = j]
<1>1. q \in Seq(Job) /\ q # <<>> BY DEF PeerState
<1>2. 1 \in DOMAIN q BY <1>1
<1>3. /\ r \in Seq(Job) /\ r # <<>> /\ Len(r) = Len(q) /\ r[1] = j /\ DOMAIN r = DOMAIN q
      /\ \A i \in DOMAIN r : i > 1 => r[i] = q[i]
  BY <1>1, <1>2
<1> HIDE DEF r
<1>4. [s EXCEPT !.queue = r] \in PeerState /\ [s EXCEPT !.queue = r].queue = r BY <1>3 DEF PeerState
<1>5. SameRest(s, [s EXCEPT !.queue = r]) BY DEF SameRest, PeerState
<1> QED BY <1>3, <1>4, <1>5 DEF r, Rewritten

LEMMA HeadIsJob ==
  ASSUME NEW s \in PeerState, s.queue # <<>>
  PROVE  /\ s.queue[1] \in Job /\ Running(s) = s.queue[1]
         /\ 1 \in DOMAIN s.queue /\ s.queue \in Seq(Job)
BY DEF PeerState, Running

LEMMA GotoIs ==
  ASSUME NEW s \in PeerState, s.queue # <<>>, NEW point \in Points
  PROVE  Rewritten(s, [s.queue[1] EXCEPT !.at = point], Goto(s, point))
<1> DEFINE j == [s.queue[1] EXCEPT !.at = point]
<1>1. s.queue[1] \in Job /\ 1 \in DOMAIN s.queue BY HeadIsJob
<1>2. j \in Job BY <1>1 DEF Job
<1>3. Goto(s, point) = [s EXCEPT !.queue = [s.queue EXCEPT ![1] = j]] BY <1>1 DEF Goto
<1> QED BY <1>2, <1>3, SetHead

LEMMA ThenIs ==
  ASSUME NEW s \in PeerState, s.queue # <<>>, NEW next \in Continuations
  PROVE  Rewritten(s, [s.queue[1] EXCEPT !.next = next], Then(s, next))
<1> DEFINE j == [s.queue[1] EXCEPT !.next = next]
<1>1. s.queue[1] \in Job /\ 1 \in DOMAIN s.queue BY HeadIsJob
<1>2. j \in Job BY <1>1 DEF Job
<1>3. Then(s, next) = [s EXCEPT !.queue = [s.queue EXCEPT ![1] = j]] BY <1>1 DEF Then
<1> QED BY <1>2, <1>3, SetHead

\* Rewriting the running job keeps the order of the queue.
LEMMA RewrittenQueue ==
  ASSUME NEW s, NEW t, NEW j, s \in PeerState, s.queue # <<>>, Rewritten(s, j, t), QueueOK(s.queue), JobOK(j)
  PROVE  /\ QueueOK(t.queue) /\ Pt(t) = j.at
         /\ j.kind = s.queue[1].kind => (HasClose(s) <=> HasClose(t))
BY HeadIsJob DEF Rewritten, QueueOK, Pt, HasClose

LEMMA DoneIs ==
  ASSUME NEW s \in PeerState, s.queue # <<>>, QueueOK(s.queue)
  PROVE  LET t == Done(s) IN
         /\ t \in PeerState /\ SameRest(s, t) /\ Len(t.queue) = Len(s.queue) - 1
         /\ QueueOK(t.queue) /\ Pt(t) \in {"none", "start"}
         /\ \A i \in DOMAIN t.queue : t.queue[i].kind \notin Setup
         /\ HasClose(s) /\ s.queue[1].kind # "close" => HasClose(t)
<1> DEFINE r == Tail(s.queue)
<1>1. s.queue \in Seq(Job) BY DEF PeerState
<1>2. /\ r \in Seq(Job) /\ Len(r) = Len(s.queue) - 1
      /\ \A i \in DOMAIN r : r[i] = s.queue[i + 1] /\ i + 1 \in DOMAIN s.queue /\ i + 1 > 1
      /\ \A i \in DOMAIN s.queue : i # 1 => i - 1 \in DOMAIN r /\ r[i - 1] = s.queue[i]
  BY <1>1
<1>3. Done(s) = [s EXCEPT !.queue = r] BY DEF Done
<1> HIDE DEF r
<1>4. [s EXCEPT !.queue = r] \in PeerState /\ [s EXCEPT !.queue = r].queue = r BY <1>2 DEF PeerState
<1>5. SameRest(s, [s EXCEPT !.queue = r]) BY DEF SameRest, PeerState
<1>6. \A i \in DOMAIN r : JobOK(r[i]) /\ Waits(r[i]) BY <1>2 DEF QueueOK
<1>7. QueueOK(r) BY <1>6 DEF QueueOK
<1>8. r # <<>> => r[1].at = "start" BY <1>2, <1>6 DEF Waits
<1>9. HasClose(s) /\ s.queue[1].kind # "close" => \E i \in DOMAIN r : r[i].kind = "close"
  BY <1>2 DEF HasClose
<1> QED BY <1>2, <1>3, <1>4, <1>5, <1>6, <1>7, <1>8, <1>9 DEF Pt, Waits, HasClose

\* A new job waits at the end of the queue.
LEMMA EnqueueIs ==
  ASSUME NEW s \in PeerState, QueueOK(s.queue),
         NEW kind \in {"event", "repair", "maintain", "reset", "close"},
         NEW next \in Continuations, kind \in {"reset", "close"} => next = "end",
         NEW data \in SUBSET Batch
  PROVE  LET t == Enqueue(s, kind, "start", next, data) IN
         /\ t \in PeerState /\ SameRest(s, t) /\ QueueOK(t.queue)
         /\ t.queue # <<>> /\ Len(t.queue) = Len(s.queue) + 1
         /\ s.queue # <<>> => t.queue[1] = s.queue[1] /\ Pt(t) = Pt(s)
         /\ s.queue = <<>> => t.queue[1].kind = kind /\ Pt(s) = "none" /\ Pt(t) = "start"
         /\ HasClose(s) \/ kind = "close" => HasClose(t)
<1> DEFINE j == [kind |-> kind, at |-> "start", next |-> next, remove |-> TRUE, data |-> data]
           r == Append(s.queue, j)
<1>1. s.queue \in Seq(Job) BY DEF PeerState
<1>2. j \in Job /\ JobOK(j) /\ Waits(j) BY DEF Job, Points, JobOK, Waits, Setup, SetupPoints, ResetPoints
<1>3. j.kind = kind /\ j.at = "start" OBVIOUS
<1> HIDE DEF j
<1>4. /\ r \in Seq(Job) /\ Len(r) = Len(s.queue) + 1 /\ r # <<>>
      /\ \A i \in DOMAIN s.queue : i \in DOMAIN r /\ r[i] = s.queue[i]
      /\ r[Len(r)] = j /\ Len(r) \in DOMAIN r
      /\ \A i \in DOMAIN r : i \in DOMAIN s.queue \/ i = Len(r)
      /\ s.queue # <<>> => 1 \in DOMAIN s.queue
      /\ s.queue = <<>> => Len(r) = 1
  <2>1. r \in Seq(Job) /\ Len(r) = Len(s.queue) + 1 /\ DOMAIN r = 1 .. Len(s.queue) + 1 BY <1>1, <1>2
  <2>2. \A i \in 1 .. Len(s.queue) : r[i] = s.queue[i] BY <1>1, <1>2
  <2>3. r[Len(s.queue) + 1] = j BY <1>1, <1>2
  <2>4. Len(s.queue) \in Nat /\ DOMAIN s.queue = 1 .. Len(s.queue) BY <1>1
  <2>5. s.queue = <<>> <=> Len(s.queue) = 0 BY <1>1
  <2> HIDE DEF r
  <2> QED BY <2>1, <2>2, <2>3, <2>4, <2>5
<1>5. Enqueue(s, kind, "start", next, data) = [s EXCEPT !.queue = r] BY DEF Enqueue, j
<1> HIDE DEF r
<1>6. [s EXCEPT !.queue = r] \in PeerState /\ [s EXCEPT !.queue = r].queue = r BY <1>4 DEF PeerState
<1>7. SameRest(s, [s EXCEPT !.queue = r]) BY DEF SameRest, PeerState
<1>8. QueueOK(r) BY <1>2, <1>4 DEF QueueOK
<1>9. HasClose(s) \/ kind = "close" => \E i \in DOMAIN r : r[i].kind = "close"
  BY <1>3, <1>4 DEF HasClose
<1> QED BY <1>3, <1>4, <1>5, <1>6, <1>7, <1>8, <1>9 DEF Pt, HasClose

-----------------------------------------------------------------------------
(* Jobs that leave alone what the peer holds.                              *)

\* What does not change from s to t: the phase and what the peer holds.
SameHold(s, t) ==
  /\ t.phase = s.phase /\ t.fanoutRetained = s.fanoutRetained /\ t.lease = s.lease
  /\ t.session # "none" <=> s.session # "none"

\* The outcome of a step that leaves them alone.
Calm(s, t) == PeerOK(t) /\ SameHold(s, t) /\ Pt(t) \in CalmPoints

\* The state of a peer whose running job may go on or end.
MayEnd(s) ==
  /\ s \in PeerState /\ s.queue # <<>> /\ QueueOK(s.queue) /\ HeldOK(s)
  /\ s.phase # "authenticating"
  /\ s.fanoutRetained => s.phase = "authenticated"
  /\ s.phase = "joined" /\ Len(s.queue) > 1 => s.leaveRequested \/ ~s.open
  /\ s.phase = "joined" => s.queue[1].kind \in Setup \/ s.leaveRequested \/ ~s.open

LEMMA EnqueueKeeps ==
  ASSUME NEW s, PeerOK(s),
         NEW kind \in {"event", "repair", "maintain", "reset", "close"},
         NEW next \in Continuations, kind \in {"reset", "close"} => next = "end",
         NEW data \in SUBSET Batch,
         s.phase = "joined" => s.leaveRequested \/ ~s.open,
         s.phase = "authenticating" => ~s.open
  PROVE  LET t == Enqueue(s, kind, "start", next, data) IN
         /\ PeerOK(t) /\ SameHold(s, t)
         /\ HasClose(s) \/ kind = "close" => HasClose(t)
         /\ Pt(s) # "none" => Pt(t) = Pt(s)
         /\ Pt(t) = Pt(s) \/ {Pt(s), Pt(t)} \subseteq CalmPoints
<1> DEFINE t == Enqueue(s, kind, "start", next, data)
<1>1. s \in PeerState /\ QueueOK(s.queue) BY DEF PeerOK, RunOK
<1>2. /\ t \in PeerState /\ SameRest(s, t) /\ QueueOK(t.queue)
      /\ t.queue # <<>> /\ Len(t.queue) = Len(s.queue) + 1
      /\ s.queue # <<>> => t.queue[1] = s.queue[1] /\ Pt(t) = Pt(s)
      /\ s.queue = <<>> => t.queue[1].kind = kind /\ Pt(s) = "none" /\ Pt(t) = "start"
      /\ HasClose(s) \/ kind = "close" => HasClose(t)
  BY <1>1, EnqueueIs
<1> HIDE DEF t
<1>3. PhaseOK(t) BY <1>2 DEF PeerOK, RunOK, PhaseOK, HeldOK, SameRest, Setup
<1>4. HoldsOK(t) BY <1>2 DEF PeerOK, HoldsOK, SameRest, ResetPoints
<1> QED BY <1>2, <1>3, <1>4 DEF PeerOK, RunOK, SameHold, SameRest, CalmPoints, t

LEMMA EndsCalm ==
  ASSUME NEW s, MayEnd(s)
  PROVE  /\ Calm(s, Done(s))
         /\ HasClose(s) /\ s.queue[1].kind # "close" => HasClose(Done(s))
<1> DEFINE t == Done(s)
<1>1. /\ t \in PeerState /\ SameRest(s, t) /\ Len(t.queue) = Len(s.queue) - 1
      /\ QueueOK(t.queue) /\ Pt(t) \in {"none", "start"}
      /\ \A i \in DOMAIN t.queue : t.queue[i].kind \notin Setup
      /\ HasClose(s) /\ s.queue[1].kind # "close" => HasClose(t)
  BY DoneIs DEF MayEnd
<1> HIDE DEF t
<1>2. t.queue # <<>> => 1 \in DOMAIN t.queue /\ Len(s.queue) > 1 BY <1>1, HeadIsJob DEF MayEnd
<1>3. PhaseOK(t) BY <1>1, <1>2 DEF MayEnd, PhaseOK, HeldOK, SameRest
<1>4. HoldsOK(t) BY <1>1 DEF MayEnd, HoldsOK, SameRest, ResetPoints
<1> QED BY <1>1, <1>3, <1>4 DEF Calm, PeerOK, RunOK, SameHold, SameRest, CalmPoints, t

\* The job goes on at another point that leaves them alone.
LEMMA MovesCalm ==
  ASSUME NEW s, NEW t, NEW j, MayEnd(s), Rewritten(s, j, t),
         j.kind = s.queue[1].kind, j.kind \notin Setup, JobOK(j), j.at \in CalmPoints
  PROVE  Calm(s, t) /\ (HasClose(s) => HasClose(t))
<1>1. QueueOK(t.queue) /\ Pt(t) = j.at /\ (HasClose(s) <=> HasClose(t)) BY RewrittenQueue DEF MayEnd
<1>2. t \in PeerState /\ SameRest(s, t) /\ t.queue # <<>> /\ t.queue[1] = j BY DEF Rewritten
<1>3. PhaseOK(t) BY <1>2 DEF MayEnd, PhaseOK, HeldOK, SameRest
<1>4. HoldsOK(t) BY <1>1, <1>2 DEF MayEnd, HoldsOK, SameRest, ResetPoints, CalmPoints
<1> QED BY <1>1, <1>2, <1>3, <1>4 DEF Calm, PeerOK, RunOK, SameHold, SameRest

LEMMA RewrittenTwice ==
  ASSUME NEW s, NEW t, NEW u, NEW i, NEW j, Rewritten(s, i, t), Rewritten(t, j, u)
  PROVE  Rewritten(s, j, u)
BY DEF Rewritten, SameRest

\* What the client of a peer has seen, and what the peer knows of its session,
\* have nothing to do with what it holds.
LEMMA MayEndStill ==
  ASSUME NEW s, NEW t \in PeerState, MayEnd(s), t.queue = s.queue, t.phase = s.phase,
         t.leaveRequested = s.leaveRequested, t.open = s.open,
         t.fanoutRetained = s.fanoutRetained, t.lease = s.lease,
         t.session # "none" <=> s.session # "none"
  PROVE  MayEnd(t) /\ SameHold(s, t) /\ (HasClose(s) <=> HasClose(t))
BY DEF MayEnd, HeldOK, SameHold, HasClose

LEMMA DispatchCalm ==
  ASSUME NEW s, MayEnd(s)
  PROVE  /\ Calm(s, Dispatch(s))
         /\ HasClose(s) /\ s.queue[1].kind # "close" => HasClose(Dispatch(s))
<1> DEFINE u == Then(s, "end")
           i == [s.queue[1] EXCEPT !.next = "end"]
<1>1. s \in PeerState /\ s.queue # <<>> /\ s.queue[1] \in Job /\ Running(s) = s.queue[1] /\ JobOK(s.queue[1])
  BY HeadIsJob DEF MayEnd, QueueOK
<1>2. Rewritten(s, i, u) BY <1>1, ThenIs DEF Continuations
<1>3. u \in PeerState /\ u.queue # <<>> /\ u.queue[1] = i BY <1>2 DEF Rewritten
<1> HIDE DEF u
<1>4. ASSUME NEW point \in {"read", "append"}, s.queue[1].kind \in {"repair", "event"}
      PROVE  /\ Calm(s, Goto(u, point))
             /\ HasClose(s) /\ s.queue[1].kind # "close" => HasClose(Goto(u, point))
  <2> DEFINE j == [i EXCEPT !.at = point]
  <2>1. Rewritten(u, j, Goto(u, point)) BY <1>3, GotoIs DEF Points
  <2>2. Rewritten(s, j, Goto(u, point)) BY <1>2, <2>1, RewrittenTwice
  <2>3. /\ j.kind = s.queue[1].kind /\ j.at = point /\ j.next = "end" /\ j.remove = s.queue[1].remove
    BY <1>1 DEF Job
  <2> HIDE DEF j
  <2>4. JobOK(j) /\ j.kind \notin Setup
    BY <1>1, <1>4, <2>3 DEF JobOK, Setup, SetupPoints, ResetPoints
  <2> QED BY <2>2, <2>3, <2>4, MovesCalm DEF CalmPoints
<1> QED BY <1>1, <1>4, EndsCalm DEF Dispatch, u

LEMMA ContinueCalm ==
  ASSUME NEW s, MayEnd(s), NEW active \in BOOLEAN
  PROVE  LET t == Continue(s, active) IN
         Calm(s, t) /\ (HasClose(s) /\ s.queue[1].kind # "close" => HasClose(t))
<1>1. /\ s \in PeerState /\ s.queue # <<>> /\ s.queue[1] \in Job /\ Running(s) = s.queue[1]
      /\ JobOK(s.queue[1])
  BY HeadIsJob DEF MayEnd, QueueOK
<1> DEFINE data == s.queue[1].data
<1>2. data \subseteq Batch /\ s.queue[1].next \in Continuations BY <1>1 DEF Job
<1>3. ASSUME NEW a \in SUBSET Batch
      PROVE  LET u == [s EXCEPT !.acked = @ \cup a] IN
             MayEnd(u) /\ SameHold(s, u) /\ (HasClose(s) <=> HasClose(u)) /\ u.queue = s.queue
  <2> DEFINE u == [s EXCEPT !.acked = @ \cup a]
  <2>1. u \in PeerState BY <1>1 DEF PeerState
  <2>2. /\ u.queue = s.queue /\ u.phase = s.phase /\ u.leaveRequested = s.leaveRequested
        /\ u.open = s.open /\ u.fanoutRetained = s.fanoutRetained /\ u.lease = s.lease
        /\ u.session = s.session
    BY <1>1 DEF PeerState
  <2> HIDE DEF u
  <2>3. MayEnd(u) /\ SameHold(s, u) /\ (HasClose(s) <=> HasClose(u)) BY <2>1, <2>2, MayEndStill
  <2> QED BY <2>2, <2>3 DEF u
<1>4. ASSUME NEW a \in SUBSET Batch
      PROVE  LET u == [s EXCEPT !.received = @ \cup a, !.repaired = TRUE] IN
             MayEnd(u) /\ SameHold(s, u) /\ (HasClose(s) <=> HasClose(u)) /\ u.queue = s.queue
  <2> DEFINE u == [s EXCEPT !.received = @ \cup a, !.repaired = TRUE]
  <2>1. u \in PeerState BY <1>1 DEF PeerState
  <2>2. /\ u.queue = s.queue /\ u.phase = s.phase /\ u.leaveRequested = s.leaveRequested
        /\ u.open = s.open /\ u.fanoutRetained = s.fanoutRetained /\ u.lease = s.lease
        /\ u.session = s.session
    BY <1>1 DEF PeerState
  <2> HIDE DEF u
  <2>3. MayEnd(u) /\ SameHold(s, u) /\ (HasClose(s) <=> HasClose(u)) BY <2>1, <2>2, MayEndStill
  <2> QED BY <2>2, <2>3 DEF u
<1>5. CASE s.queue[1].next = "end"
  BY <1>1, <1>5, EndsCalm DEF Continue
<1>6. CASE s.queue[1].next = "dispatch"
  BY <1>1, <1>6, EndsCalm, DispatchCalm DEF Continue
<1>7. CASE s.queue[1].next = "publish"
  <2> DEFINE u == IF active /\ s.open THEN [s EXCEPT !.acked = @ \cup data] ELSE s
             j == [s.queue[1] EXCEPT !.at = "publish"]
  <2>1. MayEnd(u) /\ SameHold(s, u) /\ (HasClose(s) <=> HasClose(u)) /\ u.queue = s.queue
    BY <1>2, <1>3 DEF SameHold
  <2>2. Continue(s, active) = Goto(u, "publish") BY <1>1, <1>7 DEF Continue
  <2> HIDE DEF u
  <2>3. Rewritten(u, j, Goto(u, "publish")) BY <2>1, GotoIs DEF MayEnd, Points
  <2>4. j.kind = u.queue[1].kind /\ j.kind \notin Setup /\ JobOK(j) /\ j.at \in CalmPoints
    BY <1>1, <1>7, <2>1 DEF Job, JobOK, Setup, SetupPoints, ResetPoints, CalmPoints
  <2> HIDE DEF j
  <2>5. Calm(u, Goto(u, "publish")) /\ (HasClose(u) => HasClose(Goto(u, "publish")))
    BY <2>1, <2>3, <2>4, MovesCalm
  <2> QED BY <2>1, <2>2, <2>5 DEF Calm, SameHold
<1>8. CASE s.queue[1].next = "reply"
  <2> DEFINE u == IF active /\ s.open
                  THEN [s EXCEPT !.received = @ \cup data, !.repaired = TRUE] ELSE s
  <2>1. MayEnd(u) /\ SameHold(s, u) /\ (HasClose(s) <=> HasClose(u)) /\ u.queue = s.queue
    BY <1>2, <1>4 DEF SameHold
  <2>2. Continue(s, active) = Done(u) BY <1>1, <1>8 DEF Continue
  <2> HIDE DEF u
  <2>3. Calm(u, Done(u)) /\ (HasClose(u) /\ u.queue[1].kind # "close" => HasClose(Done(u)))
    BY <2>1, EndsCalm
  <2> QED BY <2>1, <2>2, <2>3 DEF Calm, SameHold
<1> QED BY <1>2, <1>5, <1>6, <1>7, <1>8 DEF Continuations

\* A message or a maintenance is under way.
Busy(s) == MayEnd(s) /\ s.queue[1].kind \notin Setup \cup {"reset", "close"}

LEMMA GotoCalm ==
  ASSUME NEW s, Busy(s), NEW point \in CalmPoints \ {"none", "publish"}
  PROVE  Calm(s, Goto(s, point)) /\ (HasClose(s) => HasClose(Goto(s, point)))
<1> DEFINE j == [s.queue[1] EXCEPT !.at = point]
<1>1. s \in PeerState /\ s.queue # <<>> /\ s.queue[1] \in Job /\ JobOK(s.queue[1])
  BY HeadIsJob DEF Busy, MayEnd, QueueOK
<1>2. Rewritten(s, j, Goto(s, point)) BY <1>1, GotoIs DEF Points, CalmPoints
<1>3. /\ j.kind = s.queue[1].kind /\ j.at = point /\ j.next = s.queue[1].next
      /\ j.remove = s.queue[1].remove
  BY <1>1 DEF Job
<1> HIDE DEF j
<1>4. j.kind \notin Setup /\ JobOK(j)
  BY <1>1, <1>3 DEF Busy, JobOK, Setup, SetupPoints, ResetPoints, CalmPoints
<1> QED BY <1>2, <1>3, <1>4, MovesCalm DEF Busy

LEMMA MaintainLeaseCalm ==
  ASSUME NEW s, Busy(s)
  PROVE  Calm(s, MaintainLease(s)) /\ (HasClose(s) => HasClose(MaintainLease(s)))
BY ContinueCalm, GotoCalm DEF MaintainLease, Busy, CalmPoints

LEMMA MaintainPeerCalm ==
  ASSUME NEW s, Busy(s)
  PROVE  Calm(s, MaintainPeer(s)) /\ (HasClose(s) => HasClose(MaintainPeer(s)))
<1> DEFINE u == [s EXCEPT !.authPromise = TRUE]
<1>1. s \in PeerState BY DEF Busy, MayEnd
<1>2. u \in PeerState BY <1>1 DEF PeerState
<1>3. /\ u.queue = s.queue /\ u.phase = s.phase /\ u.leaveRequested = s.leaveRequested
      /\ u.open = s.open /\ u.fanoutRetained = s.fanoutRetained /\ u.lease = s.lease
      /\ u.session = s.session
  BY <1>1 DEF PeerState
<1>4. Busy(u) /\ SameHold(s, u) /\ (HasClose(s) <=> HasClose(u))
  <2> HIDE DEF u
  <2> QED BY <1>2, <1>3, MayEndStill DEF Busy
<1>5. Calm(s, Goto(u, "refresh")) /\ (HasClose(s) => HasClose(Goto(u, "refresh")))
  <2> HIDE DEF u
  <2>1. Calm(u, Goto(u, "refresh")) /\ (HasClose(u) => HasClose(Goto(u, "refresh")))
    BY <1>4, GotoCalm DEF CalmPoints
  <2> QED BY <1>4, <2>1 DEF Calm, SameHold
<1>6. Calm(s, Goto(s, "shared-refresh")) /\ (HasClose(s) => HasClose(Goto(s, "shared-refresh")))
  BY GotoCalm DEF CalmPoints
<1>7. Calm(s, Continue(s, FALSE)) /\ (HasClose(s) => HasClose(Continue(s, FALSE)))
  BY ContinueCalm DEF Busy
<1> QED BY <1>5, <1>6, <1>7, MaintainLeaseCalm DEF MaintainPeer

-----------------------------------------------------------------------------
(* Resets.                                                                 *)

\* What a reset comes to, up to its next await: the peer keeps its count at the
\* room's lock, its lease and its session until they are given back one by one.
ResetTo(s, t) ==
  /\ PeerOK(t)
  /\ t.phase \in {s.phase, "left", "joined"}
  /\ s.phase = "authenticated" => t.phase # "joined"
  /\ InMap(t) => InMap(s)
  /\ ~t.fanoutRetained
  /\ Pt(t) \in CalmPoints \cup (ResetPoints \ {"unsubscribe"})
  /\ HasLease(t) <=> s.lease
  /\ HasSession(t) <=> s.session # "none"
  /\ HasClose(s) /\ InMap(t) => HasClose(t)

LEMMA FinishResetIs ==
  ASSUME NEW s, RunOK(s), s.queue # <<>>, ~s.fanoutRetained, ~s.lease, s.session = "none"
  PROVE  LET t == FinishReset(s) IN
         ResetTo(s, t) /\ Pt(t) \in CalmPoints
<1>1. /\ s \in PeerState /\ s.queue[1] \in Job /\ Running(s) = s.queue[1] /\ QueueOK(s.queue)
      /\ JobOK(s.queue[1]) /\ PhaseOK(s)
  BY HeadIsJob DEF RunOK, QueueOK
<1> DEFINE u == IF s.queue[1].remove
                THEN [s EXCEPT !.phase = "left"]
                ELSE [s EXCEPT !.phase = "joined", !.leaveRequested = FALSE]
<1>2. /\ u \in PeerState /\ u.queue = s.queue /\ u.open = s.open
      /\ u.fanoutRetained = s.fanoutRetained /\ u.lease = s.lease /\ u.session = s.session
      /\ u.phase = (IF s.queue[1].remove THEN "left" ELSE "joined")
  BY <1>1 DEF PeerState, Phases
<1>3. FinishReset(s) = Continue(u, FALSE) BY <1>1 DEF FinishReset
<1>4. ~s.queue[1].remove => s.queue[1].kind = "auth" /\ s.phase = "authenticating"
  BY <1>1 DEF JobOK, PhaseOK, Setup
<1> HIDE DEF u
<1>5. MayEnd(u) BY <1>1, <1>2, <1>4 DEF MayEnd, HeldOK, PhaseOK, Setup
<1>6. /\ Calm(u, Continue(u, FALSE))
      /\ HasClose(u) /\ u.queue[1].kind # "close" => HasClose(Continue(u, FALSE))
  BY <1>5, ContinueCalm
<1>7. HasClose(u) <=> HasClose(s) BY <1>2 DEF HasClose
<1>8. JobOK(s.queue[1]) /\ s.queue[1].kind = "close" => s.queue[1].remove BY DEF JobOK
<1> DEFINE t == Continue(u, FALSE)
<1> HIDE DEF t
<1>9. /\ PeerOK(t) /\ t.phase = u.phase /\ ~t.fanoutRetained /\ ~t.lease /\ t.session = "none"
      /\ Pt(t) \in CalmPoints
  BY <1>2, <1>6 DEF Calm, SameHold, t
<1>10. ~HasLease(t) /\ ~HasSession(t) BY <1>9 DEF HasLease, HasSession, CalmPoints
<1>11. InMap(t) => ~s.queue[1].remove BY <1>2, <1>9 DEF InMap
<1>12. HasClose(s) /\ InMap(t) => HasClose(t) BY <1>1, <1>2, <1>6, <1>7, <1>8, <1>11 DEF t
<1>13. s.phase = "authenticated" => t.phase # "joined" BY <1>2, <1>4, <1>9
<1>14. InMap(t) => InMap(s) BY <1>4, <1>11 DEF InMap
<1>15. ResetTo(s, t) BY <1>2, <1>9, <1>10, <1>12, <1>13, <1>14 DEF ResetTo
<1> QED BY <1>3, <1>9, <1>15 DEF t

LEMMA ResetGoto ==
  ASSUME NEW s, RunOK(s), s.queue # <<>>, s.phase \in {"authenticating", "authenticated"},
         ~s.fanoutRetained, NEW point \in ResetPoints,
         point \in {"lease-release", "session-end"} => ~s.lease,
         point = "session-end" => s.session = "none"
  PROVE  LET t == Goto(s, point) IN
         PeerOK(t) /\ SameRest(s, t) /\ Pt(t) = point /\ (HasClose(s) <=> HasClose(t))
<1> DEFINE j == [s.queue[1] EXCEPT !.at = point]
           t == Goto(s, point)
<1>1. s \in PeerState /\ s.queue[1] \in Job /\ JobOK(s.queue[1]) /\ QueueOK(s.queue) /\ PhaseOK(s)
  BY HeadIsJob DEF RunOK, QueueOK
<1>2. Rewritten(s, j, t) BY <1>1, GotoIs DEF Points, ResetPoints
<1>3. /\ j.kind = s.queue[1].kind /\ j.at = point /\ j.next = s.queue[1].next
      /\ j.remove = s.queue[1].remove
  BY <1>1 DEF Job
<1> HIDE DEF j, t
<1>4. JobOK(j) BY <1>1, <1>3 DEF JobOK, Setup, SetupPoints, ResetPoints
<1>5. QueueOK(t.queue) /\ Pt(t) = point /\ (HasClose(s) <=> HasClose(t))
  BY <1>1, <1>2, <1>3, <1>4, RewrittenQueue
<1>6. t \in PeerState /\ SameRest(s, t) /\ t.queue # <<>> /\ t.queue[1] = j /\ Len(t.queue) = Len(s.queue)
  BY <1>2 DEF Rewritten
<1>7. PhaseOK(t) BY <1>1, <1>3, <1>6 DEF PhaseOK, HeldOK, SameRest
<1>8. HoldsOK(t) BY <1>5, <1>6 DEF HoldsOK, SameRest, ResetPoints
<1> QED BY <1>5, <1>6, <1>7, <1>8 DEF PeerOK, RunOK, t

LEMMA EndSessionIs ==
  ASSUME NEW s, RunOK(s), s.queue # <<>>, ~s.fanoutRetained, ~s.lease
  PROVE  LET t == EndSession(s) IN
         ResetTo(s, t) /\ Pt(t) \notin {"release-lock", "lease-release"}
<1> DEFINE u == [s EXCEPT !.session = "none", !.authDue = FALSE, !.leaseDue = FALSE]
           t == Goto(u, "session-end")
<1>1. s \in PeerState /\ QueueOK(s.queue) /\ PhaseOK(s) BY DEF RunOK
<1>2. CASE s.session = "none"
  BY <1>2, FinishResetIs DEF EndSession, CalmPoints
<1>3. CASE s.session # "none"
  <2>1. /\ u \in PeerState /\ u.queue = s.queue /\ u.phase = s.phase /\ u.open = s.open
        /\ u.leaveRequested = s.leaveRequested /\ u.fanoutRetained = s.fanoutRetained
        /\ u.lease = s.lease /\ u.session = "none"
    BY <1>1 DEF PeerState, Sessions
  <2> HIDE DEF u
  <2>2. RunOK(u) BY <1>1, <2>1 DEF RunOK, PhaseOK, HeldOK
  <2>3. s.phase \in {"authenticating", "authenticated"}
    BY <1>1, <1>3 DEF PeerState, Phases, PhaseOK, HeldOK
  <2>4. PeerOK(t) /\ SameRest(u, t) /\ Pt(t) = "session-end" /\ (HasClose(u) <=> HasClose(t))
    BY <2>1, <2>2, <2>3, ResetGoto DEF ResetPoints
  <2>5. HasClose(u) <=> HasClose(s) BY <2>1 DEF HasClose
  <2> HIDE DEF t
  <2>6. /\ t.phase = s.phase /\ ~t.fanoutRetained /\ ~t.lease /\ t.session = "none"
    BY <2>1, <2>4 DEF SameRest
  <2>7. ~HasLease(t) /\ HasSession(t) BY <2>4, <2>6 DEF HasLease, HasSession
  <2>8. InMap(t) /\ InMap(s) BY <2>3, <2>6 DEF InMap
  <2>9. ResetTo(s, t)
    BY <1>3, <2>3, <2>4, <2>5, <2>6, <2>7, <2>8 DEF ResetTo, ResetPoints
  <2> QED BY <1>3, <2>4, <2>9 DEF EndSession, t, u
<1> QED BY <1>2, <1>3

LEMMA ReleaseLeaseIs ==
  ASSUME NEW s, RunOK(s), s.queue # <<>>, ~s.fanoutRetained
  PROVE  LET t == ReleaseLease(s) IN
         ResetTo(s, t) /\ Pt(t) # "release-lock"
<1> DEFINE u == [s EXCEPT !.lease = FALSE]
           t == Goto(u, "lease-release")
<1>1. s \in PeerState /\ QueueOK(s.queue) /\ PhaseOK(s) /\ s.lease \in BOOLEAN
  BY DEF RunOK, PeerState
<1>2. CASE ~s.lease
  BY <1>2, EndSessionIs DEF ReleaseLease
<1>3. CASE s.lease
  <2>1. /\ u \in PeerState /\ u.queue = s.queue /\ u.phase = s.phase /\ u.open = s.open
        /\ u.leaveRequested = s.leaveRequested /\ u.fanoutRetained = s.fanoutRetained
        /\ ~u.lease /\ u.session = s.session
    BY <1>1 DEF PeerState
  <2> HIDE DEF u
  <2>2. RunOK(u) BY <1>1, <2>1 DEF RunOK, PhaseOK, HeldOK
  <2>3. s.phase \in {"authenticating", "authenticated"}
    BY <1>1, <1>3 DEF PeerState, Phases, PhaseOK, HeldOK
  <2>4. PeerOK(t) /\ SameRest(u, t) /\ Pt(t) = "lease-release" /\ (HasClose(u) <=> HasClose(t))
    BY <2>1, <2>2, <2>3, ResetGoto DEF ResetPoints
  <2>5. HasClose(u) <=> HasClose(s) BY <2>1 DEF HasClose
  <2> HIDE DEF t
  <2>6. /\ t.phase = s.phase /\ ~t.fanoutRetained /\ ~t.lease /\ t.session = s.session
    BY <2>1, <2>4 DEF SameRest
  <2>7. HasLease(t) /\ (HasSession(t) <=> s.session # "none") BY <2>4, <2>6 DEF HasLease, HasSession
  <2>8. InMap(t) /\ InMap(s) BY <2>3, <2>6 DEF InMap
  <2>9. ResetTo(s, t)
    BY <1>3, <2>3, <2>4, <2>5, <2>6, <2>7, <2>8 DEF ResetTo, ResetPoints
  <2> QED BY <1>3, <2>4, <2>9 DEF ReleaseLease, t, u
<1> QED BY <1>2, <1>3

LEMMA StartResetIs ==
  ASSUME NEW s, RunOK(s), s.queue # <<>>, NEW remove \in BOOLEAN,
         ~remove => s.queue[1].kind = "auth"
  PROVE  LET t == StartReset(s, remove) IN
         ResetTo(s, t) /\ (Pt(t) = "release-lock" <=> s.fanoutRetained)
<1> DEFINE j == [s.queue[1] EXCEPT !.remove = remove]
           r == [s.queue EXCEPT ![1] = j]
           w == [s EXCEPT !.queue = r]
           quiet == [s EXCEPT !.authTimer = FALSE, !.leaseTimer = FALSE,
                              !.authPromise = FALSE, !.queue = r]
<1>1. /\ s \in PeerState /\ QueueOK(s.queue) /\ PhaseOK(s) /\ s.fanoutRetained \in BOOLEAN
      /\ s.queue[1] \in Job /\ JobOK(s.queue[1]) /\ 1 \in DOMAIN s.queue
  BY HeadIsJob DEF RunOK, PeerState, QueueOK
<1>2. j \in Job /\ j.kind = s.queue[1].kind /\ j.at = s.queue[1].at /\ j.next = s.queue[1].next
      /\ j.remove = remove
  BY <1>1 DEF Job
<1>3. StartReset(s, remove) =
        IF s.fanoutRetained
        THEN Goto([quiet EXCEPT !.fanoutRetained = FALSE], "release-lock")
        ELSE ReleaseLease(quiet)
  BY <1>1 DEF StartReset
<1> HIDE DEF j
<1>4. JobOK(j) BY <1>1, <1>2 DEF JobOK
<1>5. Rewritten(s, j, w) BY <1>1, <1>2, SetHead
<1>6. w.queue = r /\ w \in PeerState BY <1>1, <1>5 DEF Rewritten, PeerState
<1> HIDE DEF r, w
<1>7. QueueOK(w.queue) /\ (HasClose(s) <=> HasClose(w)) BY <1>1, <1>2, <1>4, <1>5, RewrittenQueue
<1>8. r \in Seq(Job) /\ r # <<>> /\ Len(r) = Len(s.queue) /\ r[1] = j /\ QueueOK(r)
  BY <1>5, <1>6, <1>7 DEF Rewritten, PeerState
<1>9. HasClose(s) <=> \E i \in DOMAIN r : r[i].kind = "close" BY <1>6, <1>7 DEF HasClose
<1>10. /\ quiet \in PeerState /\ quiet.queue = r /\ quiet.phase = s.phase /\ quiet.open = s.open
       /\ quiet.leaveRequested = s.leaveRequested /\ quiet.fanoutRetained = s.fanoutRetained
       /\ quiet.lease = s.lease /\ quiet.session = s.session
  BY <1>1, <1>8 DEF PeerState
<1> HIDE DEF quiet
<1>11. RunOK(quiet) BY <1>1, <1>2, <1>8, <1>10 DEF RunOK, PhaseOK, HeldOK
<1>12. CASE ~s.fanoutRetained
  <2>1. LET t == ReleaseLease(quiet) IN ResetTo(quiet, t) /\ Pt(t) # "release-lock"
    BY <1>8, <1>10, <1>11, <1>12, ReleaseLeaseIs
  <2>2. HasClose(quiet) <=> HasClose(s) BY <1>9, <1>10 DEF HasClose
  <2> QED BY <1>3, <1>10, <1>12, <2>1, <2>2 DEF ResetTo, InMap
<1>13. CASE s.fanoutRetained
  <2> DEFINE u == [quiet EXCEPT !.fanoutRetained = FALSE]
             t == Goto(u, "release-lock")
  <2>1. /\ u \in PeerState /\ u.queue = r /\ u.phase = s.phase /\ u.open = s.open
        /\ u.leaveRequested = s.leaveRequested /\ ~u.fanoutRetained
        /\ u.lease = s.lease /\ u.session = s.session
    BY <1>10 DEF PeerState
  <2> HIDE DEF u
  <2>2. RunOK(u) BY <1>1, <1>2, <1>8, <2>1 DEF RunOK, PhaseOK, HeldOK
  <2>3. s.phase \in {"authenticating", "authenticated"}
    BY <1>1, <1>13 DEF PeerState, Phases, PhaseOK, HeldOK
  <2>4. PeerOK(t) /\ SameRest(u, t) /\ Pt(t) = "release-lock" /\ (HasClose(u) <=> HasClose(t))
    BY <1>8, <2>1, <2>2, <2>3, ResetGoto DEF ResetPoints
  <2>5. HasClose(u) <=> HasClose(s) BY <1>9, <2>1 DEF HasClose
  <2> HIDE DEF t
  <2>6. /\ t.phase = s.phase /\ ~t.fanoutRetained /\ t.lease = s.lease /\ t.session = s.session
    BY <2>1, <2>4 DEF SameRest
  <2>7. (HasLease(t) <=> s.lease) /\ (HasSession(t) <=> s.session # "none")
    BY <2>4, <2>6 DEF HasLease, HasSession
  <2>8. InMap(t) /\ InMap(s) BY <2>3, <2>6 DEF InMap
  <2>9. ResetTo(s, t)
    BY <2>3, <2>4, <2>5, <2>6, <2>7, <2>8 DEF ResetTo, ResetPoints
  <2> QED BY <1>3, <1>13, <2>4, <2>9 DEF t, u
<1> QED BY <1>1, <1>12, <1>13

-----------------------------------------------------------------------------
(* What a step does to a peer, seen from the room.                         *)

\* A step that neither takes nor gives back anything, nor begins to hold the lock.
Kept(s, t) ==
  /\ PeerOK(t)
  /\ Counts(t) <=> Counts(s)
  /\ HasLease(t) <=> HasLease(s)
  /\ HasSession(t) <=> HasSession(s)
  /\ Pt(t) \in HoldPoints => Pt(t) = Pt(s)
  /\ InMap(t) => InMap(s)
  /\ InMap(t) /\ HasClose(s) => HasClose(t)
  /\ s.phase \in {"authenticated", "left"} => t.phase \in {"authenticated", "left"}

LEMMA KeptSelf == ASSUME NEW s, PeerOK(s) PROVE Kept(s, s)
BY DEF Kept

\* A peer that holds what it held, and is at the point it was at or at none
\* that matters.
LEMMA SameHoldKept ==
  ASSUME NEW s, NEW t, PeerOK(t), SameHold(s, t), HasClose(s) => HasClose(t),
         Pt(t) = Pt(s) \/ {Pt(s), Pt(t)} \subseteq CalmPoints
  PROVE  Kept(s, t)
BY DEF Kept, SameHold, Counts, HasLease, HasSession, HoldPoints, CalmPoints, InMap

LEMMA ResetKept ==
  ASSUME NEW s, PeerOK(s), Pt(s) \notin ResetPoints, NEW u, NEW t,
         u.phase = s.phase, u.fanoutRetained = s.fanoutRetained, u.lease = s.lease,
         u.session # "none" <=> s.session # "none", HasClose(s) => HasClose(u),
         ResetTo(u, t), Pt(t) = "release-lock" <=> u.fanoutRetained
  PROVE  Kept(s, t)
<1>1. Counts(t) <=> Counts(s) BY DEF Counts, ResetTo, ResetPoints
<1>2. HasLease(t) <=> HasLease(s) BY DEF HasLease, ResetTo, ResetPoints
<1>3. HasSession(t) <=> HasSession(s) BY DEF HasSession, ResetTo, ResetPoints
<1>4. Pt(t) \notin HoldPoints BY DEF ResetTo, ResetPoints, HoldPoints, CalmPoints
<1>5. PeerOK(t) /\ (InMap(t) => InMap(s)) /\ (InMap(t) /\ HasClose(s) => HasClose(t))
  BY DEF ResetTo, InMap
<1>6. s.phase \in {"authenticated", "left"} => t.phase \in {"authenticated", "left"}
  BY <1>5 DEF ResetTo, InMap
<1> QED BY <1>1, <1>2, <1>3, <1>4, <1>5, <1>6 DEF Kept

\* A peer that is told to go, or that stops to hear its timers.
LEMMA ToldToGo ==
  ASSUME NEW s, PeerOK(s), NEW u \in PeerState, u.queue = s.queue, u.phase = s.phase,
         u.fanoutRetained = s.fanoutRetained, u.lease = s.lease,
         u.session # "none" <=> s.session # "none",
         s.leaveRequested => u.leaveRequested, u.open => s.open
  PROVE  PeerOK(u) /\ SameHold(s, u) /\ Pt(u) = Pt(s) /\ (HasClose(u) <=> HasClose(s)) /\ Kept(s, u)
<1>1. SameHold(s, u) /\ Pt(u) = Pt(s) /\ (HasClose(u) <=> HasClose(s)) BY DEF SameHold, Pt, HasClose
<1>2. PhaseOK(u) BY DEF PeerOK, RunOK, PhaseOK, HeldOK
<1>3. HoldsOK(u) BY <1>1 DEF PeerOK, HoldsOK
<1>4. PeerOK(u) BY <1>2, <1>3 DEF PeerOK, RunOK
<1> QED BY <1>1, <1>4, SameHoldKept

LEMMA ExpelKept ==
  ASSUME NEW s, PeerOK(s)
  PROVE  PeerOK(Expel(s)) /\ Kept(s, Expel(s)) /\ (Pt(s) # "none" => Pt(Expel(s)) = Pt(s))
<1> DEFINE u == ClosePeer([s EXCEPT !.leaveRequested = TRUE])
           t == EnqueueReset(u)
<1>1. s \in PeerState BY DEF PeerOK, RunOK
<1>2. /\ u \in PeerState /\ u.queue = s.queue /\ u.phase = s.phase /\ u.open = FALSE
      /\ u.leaveRequested = TRUE /\ u.fanoutRetained = s.fanoutRetained
      /\ u.lease = s.lease /\ u.session = s.session
  BY <1>1 DEF PeerState, ClosePeer
<1> HIDE DEF u
<1>3. PeerOK(u) /\ SameHold(s, u) /\ Pt(u) = Pt(s) /\ (HasClose(u) <=> HasClose(s))
  BY <1>2, ToldToGo
<1>4. t = Enqueue(u, "reset", "start", "end", {}) BY DEF EnqueueReset
<1> HIDE DEF t
<1>5. /\ PeerOK(t) /\ SameHold(u, t) /\ (HasClose(u) => HasClose(t))
      /\ Pt(u) # "none" => Pt(t) = Pt(u)
      /\ Pt(t) = Pt(u) \/ {Pt(u), Pt(t)} \subseteq CalmPoints
  BY <1>2, <1>3, <1>4, EnqueueKeeps DEF Continuations
<1>6. SameHold(s, t) BY <1>3, <1>5 DEF SameHold
<1> QED BY <1>3, <1>5, <1>6, SameHoldKept DEF Expel, u, t

LEMMA TerminateKept ==
  ASSUME NEW s, PeerOK(s)
  PROVE  PeerOK(Terminate(s)) /\ Kept(s, Terminate(s)) /\ (Pt(s) # "none" => Pt(Terminate(s)) = Pt(s))
<1> DEFINE u == [s EXCEPT !.authTimer = FALSE, !.leaseTimer = FALSE]
<1>1. s \in PeerState BY DEF PeerOK, RunOK
<1>2. /\ u \in PeerState /\ u.queue = s.queue /\ u.phase = s.phase /\ u.open = s.open
      /\ u.leaveRequested = s.leaveRequested /\ u.fanoutRetained = s.fanoutRetained
      /\ u.lease = s.lease /\ u.session = s.session
  BY <1>1 DEF PeerState
<1> HIDE DEF u
<1>3. PeerOK(u) /\ Kept(s, u) /\ Pt(u) = Pt(s) BY <1>2, ToldToGo
<1>4. PeerOK(Expel(u)) /\ Kept(u, Expel(u)) /\ (Pt(u) # "none" => Pt(Expel(u)) = Pt(u))
  BY <1>3, ExpelKept
<1>5. Kept(s, Expel(u)) BY <1>3, <1>4 DEF Kept
<1> QED BY <1>3, <1>4, <1>5, KeptSelf DEF Terminate, u


-----------------------------------------------------------------------------
(* The invariant.                                                          *)

Late == closing \notin {"open", "draining"}

\* The room's variables are of their type.
ShapeOK ==
  /\ peer \in [Peer -> PeerState]
  /\ closing \in {"open", "draining", "locking", "unsubscribe", "closed"}
  /\ fanoutQueue \in Seq(Peer \cup {Room})
  /\ retainers \in Nat
  /\ subscription \in Subscription \cup {None}
  /\ maintenance \in Seq([from : Peer, request : Requests, started : BOOLEAN])
  /\ durable \subseteq Batch
  /\ host \in Hosts
  /\ faults \in Nat

PeersOK == \A p \in Peer : PeerOK(peer[p])

\* Only the holder of the fan-out lock changes the count and the subscription,
\* and it does so while nobody counts.
LockOK ==
  /\ \A p \in Peer : Pt(peer[p]) \in HoldPoints =>
       /\ HoldsLock(p)
       /\ retainers = 0
       /\ Pt(peer[p]) = "subscribe" => subscription = None
  /\ closing = "unsubscribe" => HoldsLock(Room)

\* The count, while peers may still be in the room.
CountOK ==
  /\ ~Late => retainers = Cardinality({p \in Peer : Counts(peer[p])})
  /\ \A p \in Peer : Counts(peer[p]) => subscription # None
  /\ live = {subscription} \ {None}
  /\ closing = "closed" /\ live # {} => faults > 0

\* Close waits for the removal of everyone who is inside.
CloseOK ==
  /\ closing # "open" => \A p \in Peer : InMap(peer[p]) => HasClose(peer[p])
  /\ Late => \A p \in Peer : ~InMap(peer[p])

ServicesOK ==
  /\ leases = {p \in Peer : HasLease(peer[p])}
  /\ sessions = {p \in Peer : HasSession(peer[p])}

\* A message that waits for maintenance is of a session, or of one that left.
MaintenanceOK ==
  \A i \in DOMAIN maintenance : peer[maintenance[i].from].phase \in {"authenticated", "left"}

\* The job of a batch that was stored and is yet to be published.
Publishes(j) == j.next = "publish" \/ j.at = "publish"

\* What is acknowledged, published or lost is stored.
LogOK ==
  /\ committed \subseteq durable
  /\ lost \subseteq durable
  /\ inflight \subseteq [to : live, batch : durable]
  /\ \A p \in Peer :
       /\ peer[p].acked \subseteq durable
       /\ \A i \in DOMAIN peer[p].queue :
            Publishes(peer[p].queue[i]) => peer[p].queue[i].data \subseteq durable

RoomInv ==
  /\ ShapeOK
  /\ PeersOK
  /\ LockOK
  /\ CountOK
  /\ CloseOK
  /\ ServicesOK
  /\ MaintenanceOK

-----------------------------------------------------------------------------
(* Steps that leave alone what the peers hold.                             *)

Maintenances == Seq([from : Peer, request : Requests, started : BOOLEAN])

\* Whoever owns the lock still does.
LockGrows ==
  /\ fanoutQueue' \in Seq(Peer \cup {Room})
  /\ fanoutQueue # <<>> => fanoutQueue' # <<>> /\ Head(fanoutQueue') = Head(fanoutQueue)

LEMMA LockStays ==
  ASSUME RoomInv, fanoutQueue' = fanoutQueue
  PROVE  LockGrows
BY DEF RoomInv, ShapeOK, LockGrows

LEMMA LockAppends ==
  ASSUME RoomInv, NEW x \in Peer \cup {Room}, fanoutQueue' = Append(fanoutQueue, x)
  PROVE  LockGrows
BY DEF RoomInv, ShapeOK, LockGrows

LEMMA KeptInv ==
  ASSUME RoomInv, peer' \in [Peer -> PeerState], \A p \in Peer : Kept(peer[p], peer'[p]),
         LockGrows, UNCHANGED <<closing, retainers, subscription, serviceVars, host>>,
         maintenance' \in Maintenances,
         \A i \in DOMAIN maintenance' : peer[maintenance'[i].from].phase \in {"authenticated", "left"},
         durable' \subseteq Batch, faults' \in Nat, faults' >= faults
  PROVE  RoomInv'
<1> USE DEF RoomInv
<1>1. ShapeOK' BY DEF ShapeOK, LockGrows, Maintenances, serviceVars, Requests
<1>2. PeersOK' BY DEF PeersOK, Kept
<1>3. LockOK'
  <2>1. \A p \in Peer : Pt(peer'[p]) \in HoldPoints => Pt(peer'[p]) = Pt(peer[p]) BY DEF Kept
  <2>2. \A x \in Peer \cup {Room} : HoldsLock(x) => HoldsLock(x)' BY DEF LockGrows, HoldsLock
  <2> QED BY <2>1, <2>2 DEF LockOK, serviceVars
<1>4. CountOK'
  <2>1. \A p \in Peer : Counts(peer'[p]) <=> Counts(peer[p]) BY DEF Kept
  <2>2. {p \in Peer : Counts(peer'[p])} = {p \in Peer : Counts(peer[p])} BY <2>1
  <2>3. (~Late => retainers = Cardinality({p \in Peer : Counts(peer[p])}))'
    BY <2>2 DEF CountOK, Late
  <2>4. (\A p \in Peer : Counts(peer[p]) => subscription # None)' BY <2>1 DEF CountOK
  <2>5. (live = {subscription} \ {None})' BY DEF CountOK, serviceVars
  <2>6. (closing = "closed" /\ live # {} => faults > 0)' BY DEF CountOK, serviceVars, ShapeOK
  <2> QED BY <2>3, <2>4, <2>5, <2>6 DEF CountOK
<1>5. CloseOK' BY DEF CloseOK, Late, Kept, serviceVars
<1>6. ServicesOK' BY DEF ServicesOK, Kept, serviceVars
<1>7. MaintenanceOK'
  <2> SUFFICES ASSUME NEW i \in DOMAIN maintenance'
               PROVE  peer'[maintenance'[i].from].phase \in {"authenticated", "left"}
    BY DEF MaintenanceOK
  <2> DEFINE Waiting == [from : Peer, request : Requests, started : BOOLEAN]
  <2>1. maintenance' \in Seq(Waiting) BY DEF Maintenances
  <2> HIDE DEF Waiting
  <2>2. maintenance'[i] \in Waiting BY <2>1
  <2>3. maintenance'[i].from \in Peer BY <2>2 DEF Waiting
  <2> QED BY <2>3 DEF Kept
<1> QED BY <1>1, <1>2, <1>3, <1>4, <1>5, <1>6, <1>7

\* The step of one peer.
LEMMA KeptByOne ==
  ASSUME RoomInv, NEW p \in Peer, NEW t, Kept(peer[p], t), Becomes(p, t),
         LockGrows, UNCHANGED <<closing, retainers, subscription, serviceVars, maintenance, host>>,
         durable' \subseteq Batch, faults' \in Nat, faults' >= faults
  PROVE  RoomInv'
<1>1. t \in PeerState /\ peer \in [Peer -> PeerState] BY DEF Kept, PeerOK, RunOK, RoomInv, ShapeOK
<1>2. peer' \in [Peer -> PeerState] /\ peer'[p] = t /\ \A q \in Peer \ {p} : peer'[q] = peer[q]
  BY <1>1 DEF Becomes
<1>3. \A q \in Peer : Kept(peer[q], peer'[q])
  BY <1>2, KeptSelf DEF RoomInv, PeersOK
<1>4. maintenance' \in Maintenances BY DEF RoomInv, ShapeOK, Maintenances
<1>5. \A i \in DOMAIN maintenance' : peer[maintenance'[i].from].phase \in {"authenticated", "left"}
  BY DEF RoomInv, MaintenanceOK
<1> QED BY <1>2, <1>3, <1>4, <1>5, KeptInv

LEMMA HostIs ==
  ASSUME RoomInv
  PROVE  /\ host.batches \subseteq Batch /\ RefreshMode \in {"background", "on-message"}
         /\ host.messages \in Nat /\ host.faults \in Nat /\ host.expiries \in Nat
         /\ \A r \in Requests : r.kind \in {"repair", "event"} /\ r.data \subseteq Batch
BY HostAssumption DEF RoomInv, ShapeOK, RefreshMode, Requests

LEMMA PeerIs ==
  ASSUME RoomInv, NEW p \in Peer
  PROVE  PeerOK(peer[p]) /\ peer[p] \in PeerState /\ RunOK(peer[p]) /\ HoldsOK(peer[p])
BY DEF RoomInv, PeersOK, PeerOK, RunOK

\* A peer in the room begins to authenticate.
LEMMA SetupBegins ==
  ASSUME NEW s, PeerOK(s), s.phase = "joined", s.open, ~s.leaveRequested,
         NEW kind, NEW at,
         \/ kind = "auth" /\ at = "authorize"
         \/ kind = "resume" /\ at = "start"
  PROVE  Kept(s, Enqueue([s EXCEPT !.phase = "authenticating"], kind, at, "end", {}))
<1> DEFINE u == [s EXCEPT !.phase = "authenticating"]
           j == [kind |-> kind, at |-> at, next |-> "end", remove |-> TRUE, data |-> {}]
           t == [u EXCEPT !.queue = <<j>>]
<1>1. s \in PeerState /\ s.queue = <<>> BY DEF PeerOK, RunOK, PhaseOK
<1>2. /\ u \in PeerState /\ u.queue = <<>> /\ u.phase = "authenticating" /\ u.open = s.open
      /\ u.fanoutRetained = s.fanoutRetained /\ u.lease = s.lease /\ u.session = s.session
  BY <1>1 DEF PeerState, Phases
<1>3. j \in Job /\ JobOK(j) BY DEF Job, Points, Continuations, JobOK, Setup, SetupPoints, ResetPoints
<1>4. j.kind = kind /\ j.at = at OBVIOUS
<1>5. Enqueue(u, kind, at, "end", {}) = [u EXCEPT !.queue = Append(u.queue, j)] BY DEF Enqueue
<1> HIDE DEF j, u
<1>6. Append(u.queue, j) = <<j>> /\ <<j>> \in Seq(Job) BY <1>2, <1>3
<1>7. Enqueue(u, kind, at, "end", {}) = t BY <1>6, <1>5
<1>8. /\ t \in PeerState /\ t.queue = <<j>> /\ t.phase = "authenticating" /\ t.open = s.open
      /\ t.fanoutRetained = s.fanoutRetained /\ t.lease = s.lease /\ t.session = s.session
  BY <1>2, <1>6 DEF PeerState
<1> HIDE DEF t
<1>9. /\ QueueOK(t.queue) /\ t.queue # <<>> /\ t.queue[1] = j /\ Len(t.queue) = 1
  BY <1>3, <1>8 DEF QueueOK
<1>10. ~s.fanoutRetained /\ ~s.lease /\ s.session = "none" BY DEF PeerOK, RunOK, PhaseOK, HeldOK
<1>11. Pt(t) = at /\ Pt(s) = "none" /\ at \notin ResetPoints /\ at \notin HoldPoints
  BY <1>1, <1>4, <1>9 DEF Pt, ResetPoints, HoldPoints
<1>12. PhaseOK(t) BY <1>4, <1>8, <1>9 DEF PhaseOK, HeldOK, Setup
<1>13. HoldsOK(t) BY <1>8, <1>10, <1>11 DEF HoldsOK, ResetPoints
<1>14. PeerOK(t) BY <1>8, <1>9, <1>12, <1>13 DEF PeerOK, RunOK
<1>15. ~HasClose(s) BY <1>1 DEF HasClose
<1>16. InMap(s) BY DEF InMap
<1>17. Kept(s, t)
  BY <1>8, <1>10, <1>11, <1>14, <1>15, <1>16 DEF Kept, Counts, HasLease, HasSession, ResetPoints
<1> QED BY <1>7, <1>17 DEF u

LEMMA JoinInv == ASSUME RoomInv, NEW p \in Peer, Join(p) PROVE RoomInv'
<1> DEFINE s == peer[p]
<1>1. PeerOK(s) /\ s \in PeerState /\ s.queue = <<>> /\ ~InMap(s) BY PeerIs DEF Join
<1>2. CASE closing # "open"
  <2> DEFINE t == ClosePeer(s)
  <2>1. /\ t \in PeerState /\ t.queue = s.queue /\ t.phase = s.phase /\ t.open = FALSE
        /\ t.leaveRequested = s.leaveRequested /\ t.fanoutRetained = s.fanoutRetained
        /\ t.lease = s.lease /\ t.session = s.session
    BY <1>1 DEF PeerState, ClosePeer
  <2>2. Becomes(p, t) BY <1>2 DEF Join
  <2> HIDE DEF t
  <2>3. Kept(s, t) BY <1>1, <2>1, ToldToGo
  <2>4. /\ UNCHANGED <<closing, fanoutQueue, retainers, subscription, serviceVars, maintenance, host>>
        /\ UNCHANGED <<durable, faults>>
    BY DEF Join, roomVars, serviceVars, logVars, bounds
  <2>5. LockGrows BY <2>4, LockStays
  <2>6. durable' \subseteq Batch /\ faults' \in Nat /\ faults' >= faults
    BY <2>4 DEF RoomInv, ShapeOK
  <2> QED BY <2>2, <2>3, <2>4, <2>5, <2>6, KeptByOne
<1>3. CASE closing = "open"
  <2> DEFINE t == NewPeer(s)
  <2>1. /\ t \in PeerState /\ t.queue = <<>> /\ t.phase = "joined"
        /\ t.fanoutRetained = s.fanoutRetained /\ t.lease = s.lease /\ t.session = s.session
    BY <1>1 DEF PeerState, Phases, NewPeer
  <2>2. peer' = [peer EXCEPT ![p] = t] BY <1>3 DEF Join, Becomes
  <2> HIDE DEF t
  <2>3. ~s.fanoutRetained /\ ~s.lease /\ s.session = "none"
    BY <1>1 DEF PeerOK, RunOK, PhaseOK, HeldOK, InMap
  <2>4. Pt(t) = "none" /\ Pt(s) = "none" BY <1>1, <2>1 DEF Pt
  <2>5. PeerOK(t)
    BY <2>1, <2>3, <2>4 DEF PeerOK, RunOK, QueueOK, PhaseOK, HeldOK, HoldsOK, ResetPoints
  <2>6. peer \in [Peer -> PeerState] BY DEF RoomInv, ShapeOK
  <2>7. peer'[p] = t /\ \A q \in Peer \ {p} : peer'[q] = peer[q] BY <2>2, <2>6
  <2>8. \A q \in Peer : /\ Counts(peer'[q]) <=> Counts(peer[q])
                        /\ HasLease(peer'[q]) <=> HasLease(peer[q])
                        /\ HasSession(peer'[q]) <=> HasSession(peer[q])
                        /\ Pt(peer'[q]) = Pt(peer[q])
    BY <2>1, <2>3, <2>4, <2>7 DEF Counts, HasLease, HasSession
  <2> USE DEF RoomInv, Join, roomVars, serviceVars, logVars, bounds
  <2>9. ShapeOK' BY <2>1, <2>2, <2>6 DEF ShapeOK, Requests
  <2>10. PeersOK' BY <2>5, <2>7 DEF PeersOK
  <2>11. LockOK' BY <2>8 DEF LockOK, HoldsLock
  <2>12. CountOK'
    <3>1. {q \in Peer : Counts(peer'[q])} = {q \in Peer : Counts(peer[q])} BY <2>8
    <3> QED BY <2>8, <3>1 DEF CountOK, Late
  <2>13. CloseOK' BY <1>3 DEF CloseOK, Late
  <2>14. ServicesOK' BY <2>8 DEF ServicesOK
  <2>15. MaintenanceOK'
    <3> SUFFICES ASSUME NEW i \in DOMAIN maintenance
                 PROVE  peer'[maintenance[i].from].phase \in {"authenticated", "left"}
      BY DEF MaintenanceOK
    <3> DEFINE Waiting == [from : Peer, request : Requests, started : BOOLEAN]
    <3>1. maintenance \in Seq(Waiting) BY DEF ShapeOK
    <3> HIDE DEF Waiting
    <3>2. maintenance[i] \in Waiting BY <3>1
    <3>3. maintenance[i].from \in Peer \ {p} BY <3>2 DEF Waiting
    <3> QED BY <2>7, <3>3 DEF MaintenanceOK
  <2> QED BY <2>9, <2>10, <2>11, <2>12, <2>13, <2>14, <2>15
<1> QED BY <1>2, <1>3

LEMMA KeptAlone ==
  ASSUME RoomInv, NEW p \in Peer, NEW t, Kept(peer[p], t), Becomes(p, t),
         UNCHANGED <<roomVars, serviceVars, host>>, durable' \subseteq Batch,
         faults' \in {faults, faults + 1}
  PROVE  RoomInv'
<1>1. UNCHANGED <<closing, fanoutQueue, retainers, subscription, serviceVars, maintenance, host>>
  BY DEF roomVars
<1>2. LockGrows BY <1>1, LockStays
<1>3. faults' \in Nat /\ faults' >= faults BY DEF RoomInv, ShapeOK
<1> QED BY <1>1, <1>2, <1>3, KeptByOne

\* One step after another.
LEMMA CalmKept ==
  ASSUME NEW s, NEW t, NEW u, Kept(s, t), Pt(t) \in CalmPoints, Calm(t, u), HasClose(t) => HasClose(u)
  PROVE  Kept(s, u)
BY DEF Kept, Calm, SameHold, Counts, HasLease, HasSession, HoldPoints, CalmPoints, InMap

\* A job at one of these points is of a message or of maintenance.
LEMMA BusyIs ==
  ASSUME NEW s, PeerOK(s), Pt(s) \in CalmPoints \ {"none"},
         Pt(s) = "start" => s.queue[1].kind \notin {"reset", "close", "resume"}
  PROVE  Busy(s)
<1>1. /\ s \in PeerState /\ s.queue # <<>> /\ s.queue[1] \in Job /\ JobOK(s.queue[1])
      /\ s.queue[1].at = Pt(s) /\ QueueOK(s.queue)
  BY HeadIsJob DEF PeerOK, RunOK, QueueOK, Pt
<1>2. s.queue[1].kind \notin Setup \cup {"reset", "close"}
  BY <1>1 DEF JobOK, Setup, SetupPoints, ResetPoints, CalmPoints
<1> QED BY <1>1, <1>2 DEF Busy, MayEnd, PeerOK, RunOK, PhaseOK, HoldsOK, CalmPoints

LEMMA AtIs ==
  ASSUME RoomInv, NEW p \in Peer, NEW point, At(p, point)
  PROVE  /\ Pt(peer[p]) = point /\ peer[p].queue # <<>>
         /\ Running(peer[p]) = peer[p].queue[1] /\ peer[p].queue[1] \in Job
         /\ JobOK(peer[p].queue[1])
BY PeerIs, HeadIsJob DEF At, Pt, RunOK, QueueOK

LEMMA ReceiveAuthInv == ASSUME RoomInv, NEW p \in Peer, ReceiveAuth(p) PROVE RoomInv'
<1> DEFINE s == peer[p]
           t == IF s.phase = "joined"
                THEN Enqueue([s EXCEPT !.phase = "authenticating"], "auth", "authorize", "end", {})
                ELSE Expel(s)
<1>1. Kept(s, t)
  <2>1. PeerOK(s) /\ s.open /\ ~s.leaveRequested BY PeerIs DEF ReceiveAuth, Receivable
  <2>2. s.phase = "joined" =>
          Kept(s, Enqueue([s EXCEPT !.phase = "authenticating"], "auth", "authorize", "end", {}))
    BY <2>1, SetupBegins
  <2>3. Kept(s, Expel(s)) BY <2>1, ExpelKept
  <2> QED BY <2>2, <2>3
<1>2. Becomes(p, t) BY DEF ReceiveAuth
<1> HIDE DEF t
<1>3. UNCHANGED <<roomVars, serviceVars, host, durable, faults>>
  BY DEF ReceiveAuth, Sends, logVars
<1> QED BY <1>1, <1>2, <1>3, KeptAlone DEF RoomInv, ShapeOK

LEMMA ResumeInv == ASSUME RoomInv, NEW p \in Peer, Resume(p) PROVE RoomInv'
<1> DEFINE s == peer[p]
           t == IF s.phase = "joined"
                THEN Enqueue([s EXCEPT !.phase = "authenticating"], "resume", "start", "end", {})
                ELSE Expel(s)
<1>1. Kept(s, t)
  <2>1. PeerOK(s) /\ s.open /\ ~s.leaveRequested BY PeerIs DEF Resume, Receivable
  <2>2. s.phase = "joined" =>
          Kept(s, Enqueue([s EXCEPT !.phase = "authenticating"], "resume", "start", "end", {}))
    BY <2>1, SetupBegins
  <2>3. Kept(s, Expel(s)) BY <2>1, ExpelKept
  <2> QED BY <2>2, <2>3
<1>2. Becomes(p, t) BY DEF Resume
<1> HIDE DEF t
<1>3. UNCHANGED <<roomVars, serviceVars, host, durable, faults>>
  BY DEF Resume, Sends, logVars
<1> QED BY <1>1, <1>2, <1>3, KeptAlone DEF RoomInv, ShapeOK

\* A message that joins the queue of a peer that is no longer setting up.
LEMMA MessageKept ==
  ASSUME RoomInv, NEW s, PeerOK(s), s.phase \in {"authenticated", "left"}, NEW request \in Requests
  PROVE  Kept(s, Enqueue(s, request.kind, "start", "dispatch", request.data))
<1>1. request.kind \in {"repair", "event"} /\ request.data \in SUBSET Batch BY HostIs
<1>2. LET t == Enqueue(s, request.kind, "start", "dispatch", request.data) IN
      /\ PeerOK(t) /\ SameHold(s, t) /\ (HasClose(s) => HasClose(t))
      /\ Pt(t) = Pt(s) \/ {Pt(s), Pt(t)} \subseteq CalmPoints
  BY <1>1, EnqueueKeeps DEF Continuations
<1> QED BY <1>2, SameHoldKept

LEMMA ReceiveMessageInv == ASSUME RoomInv, NEW p \in Peer, ReceiveMessage(p) PROVE RoomInv'
<1> DEFINE s == peer[p]
           Waiting == [from : Peer, request : Requests, started : BOOLEAN]
<1>1. PICK request \in Requests :
        IF RefreshMode = "background"
        THEN /\ Becomes(p, Enqueue(s, request.kind, "start", "dispatch", request.data))
             /\ UNCHANGED maintenance
        ELSE /\ maintenance' =
                  Append(maintenance, [from |-> p, request |-> request, started |-> FALSE])
             /\ UNCHANGED peer
  BY DEF ReceiveMessage
<1>2. /\ UNCHANGED <<closing, fanoutQueue, retainers, subscription, serviceVars, host, durable, faults>>
      /\ s.phase = "authenticated"
  BY DEF ReceiveMessage, Sends, logVars
<1>3. LockGrows BY <1>2, LockStays
<1>4. durable' \subseteq Batch /\ faults' \in Nat /\ faults' >= faults BY <1>2 DEF RoomInv, ShapeOK
<1>5. CASE RefreshMode = "background"
  <2>1. Kept(s, Enqueue(s, request.kind, "start", "dispatch", request.data))
    BY <1>2, PeerIs, MessageKept
  <2> QED BY <1>1, <1>2, <1>3, <1>4, <1>5, <2>1, KeptByOne
<1>6. CASE RefreshMode # "background"
  <2> DEFINE m == [from |-> p, request |-> request, started |-> FALSE]
  <2>1. maintenance \in Seq(Waiting) /\ peer \in [Peer -> PeerState] BY DEF RoomInv, ShapeOK
  <2>2. m \in Waiting /\ m.from = p OBVIOUS
  <2>3. maintenance' = Append(maintenance, m) /\ peer' = peer BY <1>1, <1>6
  <2> HIDE DEF m
  <2>4. maintenance' \in Seq(Waiting) BY <2>1, <2>2, <2>3
  <2>5. \A i \in DOMAIN maintenance' :
             \/ i \in DOMAIN maintenance /\ maintenance'[i] = maintenance[i]
             \/ maintenance'[i] = m
    BY <2>1, <2>2, <2>3
  <2> HIDE DEF Waiting
  <2>6. \A i \in DOMAIN maintenance' : peer[maintenance'[i].from].phase \in {"authenticated", "left"}
    BY <1>2, <2>2, <2>5 DEF RoomInv, MaintenanceOK
  <2>7. \A q \in Peer : Kept(peer[q], peer'[q]) BY <2>3, PeerIs, KeptSelf
  <2>8. maintenance' \in Maintenances BY <2>4 DEF Maintenances, Waiting
  <2> QED BY <1>2, <1>3, <1>4, <2>1, <2>3, <2>6, <2>7, <2>8, KeptInv
<1> QED BY <1>5, <1>6

LEMMA LeaveInv == ASSUME RoomInv, NEW p \in Peer, Leave(p) PROVE RoomInv'
<1> DEFINE s == peer[p]
<1>1. PICK open \in BOOLEAN :
        /\ open => s.open /\ s.phase = "joined" /\ s.queue = <<>>
        /\ Becomes(p, EnqueueReset([s EXCEPT !.leaveRequested = TRUE, !.released = TRUE,
                                             !.open = open]))
  BY DEF Leave
<1> DEFINE u == [s EXCEPT !.leaveRequested = TRUE, !.released = TRUE, !.open = open]
           t == Enqueue(u, "reset", "start", "end", {})
<1>2. s \in PeerState /\ PeerOK(s) BY PeerIs
<1>3. /\ u \in PeerState /\ u.queue = s.queue /\ u.phase = s.phase /\ u.open = open
      /\ u.leaveRequested = TRUE /\ u.fanoutRetained = s.fanoutRetained
      /\ u.lease = s.lease /\ u.session = s.session
  BY <1>2 DEF PeerState
<1>4. Becomes(p, t) BY <1>1 DEF EnqueueReset
<1> HIDE DEF u
<1>5. PeerOK(u) /\ Kept(s, u) /\ SameHold(s, u) /\ Pt(u) = Pt(s) /\ (HasClose(u) <=> HasClose(s))
  BY <1>1, <1>2, <1>3, ToldToGo
<1>6. /\ PeerOK(t) /\ SameHold(u, t) /\ (HasClose(u) => HasClose(t))
      /\ Pt(t) = Pt(u) \/ {Pt(u), Pt(t)} \subseteq CalmPoints
  BY <1>1, <1>3, <1>5, EnqueueKeeps DEF Continuations
<1> HIDE DEF t
<1>7. Kept(s, t) BY <1>5, <1>6, SameHoldKept DEF SameHold
<1>8. UNCHANGED <<roomVars, serviceVars, host, durable, faults>> BY DEF Leave, logVars, bounds
<1> QED BY <1>4, <1>7, <1>8, KeptAlone DEF RoomInv, ShapeOK

LEMMA WaitingIs ==
  ASSUME RoomInv
  PROVE  \A i \in DOMAIN maintenance :
           /\ maintenance[i].from \in Peer /\ maintenance[i].request \in Requests
           /\ maintenance[i] = [from |-> maintenance[i].from, request |-> maintenance[i].request,
                                started |-> maintenance[i].started]
           /\ maintenance[i] \in [from : Peer, request : Requests, started : BOOLEAN]
<1> DEFINE Waiting == [from : Peer, request : Requests, started : BOOLEAN]
<1>1. maintenance \in Seq(Waiting) BY DEF RoomInv, ShapeOK
<1> HIDE DEF Waiting
<1>2. \A i \in DOMAIN maintenance : maintenance[i] \in Waiting BY <1>1
<1> QED BY <1>2 DEF Waiting

LEMMA StartMaintenanceInv == ASSUME RoomInv, StartMaintenance PROVE RoomInv'
<1> DEFINE due(s) == /\ s.phase = "authenticated" /\ ~s.leaveRequested
                     /\ s.queue = <<>> /\ (s.authDue \/ s.leaseDue)
           t(s) == IF due(s) THEN Enqueue(s, "maintain", "start", "end", {}) ELSE s
           Waiting == [from : Peer, request : Requests, started : BOOLEAN]
<1>1. peer' = [p \in Peer |-> t(peer[p])] BY DEF StartMaintenance
<1>2. maintenance' = [maintenance EXCEPT ![1].started = TRUE] /\ maintenance # <<>>
  BY DEF StartMaintenance
<1>3. /\ UNCHANGED <<closing, fanoutQueue, retainers, subscription, serviceVars, host, durable, faults>>
  BY DEF StartMaintenance, logVars, bounds
<1>4. ASSUME NEW p \in Peer PROVE Kept(peer[p], t(peer[p]))
  <2> DEFINE s == peer[p]
             u == Enqueue(s, "maintain", "start", "end", {})
  <2>1. PeerOK(s) BY PeerIs
  <2>2. s.phase = "authenticated" =>
          /\ PeerOK(u) /\ SameHold(s, u) /\ (HasClose(s) => HasClose(u))
          /\ Pt(u) = Pt(s) \/ {Pt(s), Pt(u)} \subseteq CalmPoints
    BY <2>1, EnqueueKeeps DEF Continuations
  <2> HIDE DEF u
  <2>3. s.phase = "authenticated" => Kept(s, u) BY <2>2, SameHoldKept
  <2>4. Kept(s, s) BY <2>1, KeptSelf
  <2> QED BY <2>3, <2>4 DEF u
<1> HIDE DEF t
<1>5. peer' \in [Peer -> PeerState] /\ \A p \in Peer : Kept(peer[p], peer'[p])
  BY <1>1, <1>4 DEF Kept, PeerOK, RunOK
<1>6. maintenance \in Seq(Waiting) BY DEF RoomInv, ShapeOK
<1>7. 1 \in DOMAIN maintenance BY <1>2, <1>6
<1>8. [maintenance[1] EXCEPT !.started = TRUE] \in Waiting
      /\ [maintenance[1] EXCEPT !.started = TRUE].from = maintenance[1].from
  BY <1>7, WaitingIs
<1> DEFINE m == [maintenance[1] EXCEPT !.started = TRUE]
<1>9. maintenance' = [maintenance EXCEPT ![1] = m] BY <1>2, <1>7
<1> HIDE DEF m, Waiting
<1>10. maintenance' \in Seq(Waiting) /\ DOMAIN maintenance' = DOMAIN maintenance
  BY <1>6, <1>7, <1>8, <1>9 DEF m
<1>11. \A i \in DOMAIN maintenance' : maintenance'[i].from = maintenance[i].from
  BY <1>6, <1>7, <1>8, <1>9 DEF m
<1>12. \A i \in DOMAIN maintenance' : peer[maintenance'[i].from].phase \in {"authenticated", "left"}
  BY <1>10, <1>11 DEF RoomInv, MaintenanceOK
<1>13. LockGrows BY <1>3, LockStays
<1>14. durable' \subseteq Batch /\ faults' \in Nat /\ faults' >= faults BY <1>3 DEF RoomInv, ShapeOK
<1> QED BY <1>3, <1>5, <1>10, <1>12, <1>13, <1>14, KeptInv DEF Maintenances, Waiting

LEMMA EndMaintenanceInv == ASSUME RoomInv, EndMaintenance PROVE RoomInv'
<1> DEFINE p == Head(maintenance).from
           request == Head(maintenance).request
           Waiting == [from : Peer, request : Requests, started : BOOLEAN]
           t == Enqueue(peer[p], request.kind, "start", "dispatch", request.data)
<1>1. maintenance # <<>> /\ maintenance' = Tail(maintenance) /\ Becomes(p, t) BY DEF EndMaintenance
<1>2. maintenance \in Seq(Waiting) BY DEF RoomInv, ShapeOK
<1>3. Head(maintenance) = maintenance[1] /\ 1 \in DOMAIN maintenance BY <1>1, <1>2
<1>4. p \in Peer /\ request \in Requests /\ peer[p].phase \in {"authenticated", "left"}
  BY <1>3, WaitingIs DEF RoomInv, MaintenanceOK
<1>5. PeerOK(peer[p]) BY <1>4, PeerIs
<1> HIDE DEF p, request
<1>6. Kept(peer[p], t) BY <1>4, <1>5, MessageKept
<1> HIDE DEF t
<1>7. peer' \in [Peer -> PeerState] /\ \A q \in Peer : Kept(peer[q], peer'[q])
  <2>1. peer \in [Peer -> PeerState] /\ t \in PeerState
    BY <1>6 DEF Kept, PeerOK, RunOK, RoomInv, ShapeOK
  <2> QED BY <1>1, <1>4, <1>6, <2>1, PeerIs, KeptSelf DEF Becomes
<1>8. maintenance' \in Seq(Waiting)
      /\ \A i \in DOMAIN maintenance' : i + 1 \in DOMAIN maintenance /\ maintenance'[i] = maintenance[i + 1]
  <2> HIDE DEF Waiting
  <2> QED BY <1>1, <1>2
<1>9. \A i \in DOMAIN maintenance' : peer[maintenance'[i].from].phase \in {"authenticated", "left"}
  BY <1>8 DEF RoomInv, MaintenanceOK
<1>10. UNCHANGED <<closing, fanoutQueue, retainers, subscription, serviceVars, host, durable, faults>>
  BY DEF EndMaintenance, logVars, bounds
<1>11. LockGrows BY <1>10, LockStays
<1>12. durable' \subseteq Batch /\ faults' \in Nat /\ faults' >= faults BY <1>10 DEF RoomInv, ShapeOK
<1> QED BY <1>7, <1>8, <1>9, <1>10, <1>11, <1>12, KeptInv DEF Maintenances

LEMMA ExpiresInv == ASSUME RoomInv, NEW p \in Peer, Expires(p) PROVE RoomInv'
<1> DEFINE s == peer[p]
<1>1. PICK t \in {[s EXCEPT !.authDue = TRUE], [s EXCEPT !.leaseDue = TRUE]} : Becomes(p, t)
  BY DEF Expires
<1>2. PeerOK(s) /\ s \in PeerState BY PeerIs
<1>3. /\ t \in PeerState /\ t.queue = s.queue /\ t.phase = s.phase /\ t.open = s.open
      /\ t.leaveRequested = s.leaveRequested /\ t.fanoutRetained = s.fanoutRetained
      /\ t.lease = s.lease /\ t.session = s.session
  BY <1>1, <1>2 DEF PeerState
<1>4. Kept(s, t) BY <1>2, <1>3, ToldToGo
<1>5. UNCHANGED <<roomVars, serviceVars, host, durable, faults>> BY DEF Expires, logVars
<1> QED BY <1>1, <1>4, <1>5, KeptAlone DEF RoomInv, ShapeOK

LEMMA AuthTimerInv == ASSUME RoomInv, NEW p \in Peer, AuthTimer(p) PROVE RoomInv'
<1> DEFINE s == [peer[p] EXCEPT !.authTimer = FALSE]
           t == IF Current(s) /\ ~s.authPromise
                THEN [s EXCEPT !.authPromise = TRUE, !.authCall = TRUE] ELSE s
<1>1. Becomes(p, t) BY DEF AuthTimer
<1>2. PeerOK(peer[p]) /\ peer[p] \in PeerState BY PeerIs
<1>3. /\ t \in PeerState /\ t.queue = peer[p].queue /\ t.phase = peer[p].phase
      /\ t.open = peer[p].open /\ t.leaveRequested = peer[p].leaveRequested
      /\ t.fanoutRetained = peer[p].fanoutRetained
      /\ t.lease = peer[p].lease /\ t.session = peer[p].session
  BY <1>2 DEF PeerState
<1> HIDE DEF t
<1>4. Kept(peer[p], t) BY <1>2, <1>3, ToldToGo
<1>5. UNCHANGED <<roomVars, serviceVars, host, durable, faults>> BY DEF AuthTimer, logVars, bounds
<1> QED BY <1>1, <1>4, <1>5, KeptAlone DEF RoomInv, ShapeOK

LEMMA LeaseTimerInv == ASSUME RoomInv, NEW p \in Peer, LeaseTimer(p) PROVE RoomInv'
<1> DEFINE s == [peer[p] EXCEPT !.leaseTimer = FALSE]
           t == IF Current(s) /\ s.lease /\ ~s.leaseCall THEN [s EXCEPT !.leaseCall = TRUE] ELSE s
<1>1. Becomes(p, t) BY DEF LeaseTimer
<1>2. PeerOK(peer[p]) /\ peer[p] \in PeerState BY PeerIs
<1>3. /\ t \in PeerState /\ t.queue = peer[p].queue /\ t.phase = peer[p].phase
      /\ t.open = peer[p].open /\ t.leaveRequested = peer[p].leaveRequested
      /\ t.fanoutRetained = peer[p].fanoutRetained
      /\ t.lease = peer[p].lease /\ t.session = peer[p].session
  BY <1>2 DEF PeerState
<1> HIDE DEF t
<1>4. Kept(peer[p], t) BY <1>2, <1>3, ToldToGo
<1>5. UNCHANGED <<roomVars, serviceVars, host, durable, faults>> BY DEF LeaseTimer, logVars, bounds
<1> QED BY <1>1, <1>4, <1>5, KeptAlone DEF RoomInv, ShapeOK

-----------------------------------------------------------------------------
(* Jobs of sessions, and the answers that they wait for.                   *)

\* What a step that does not touch the queue, the phase or the holdings leaves.
SameCore(s, t) ==
  /\ t \in PeerState /\ t.queue = s.queue /\ t.phase = s.phase /\ t.open = s.open
  /\ t.leaveRequested = s.leaveRequested /\ t.fanoutRetained = s.fanoutRetained
  /\ t.lease = s.lease /\ (t.session # "none" <=> s.session # "none")

LEMMA SameCoreKept ==
  ASSUME NEW s, PeerOK(s), NEW t, SameCore(s, t)
  PROVE  PeerOK(t) /\ Kept(s, t) /\ Pt(t) = Pt(s) /\ (HasClose(t) <=> HasClose(s))
BY ToldToGo DEF SameCore

LEMMA ArmAuthCore == ASSUME NEW s \in PeerState PROVE SameCore(s, ArmAuth(s))
BY DEF SameCore, ArmAuth, PeerState

LEMMA ArmLeaseCore == ASSUME NEW s \in PeerState PROVE SameCore(s, ArmLease(s))
BY DEF SameCore, ArmLease, PeerState

LEMMA SessionCore ==
  ASSUME NEW s \in PeerState, s.session # "none", NEW role \in Sessions \ {"none"}
  PROVE  SameCore(s, [s EXCEPT !.session = role]) /\ SameCore(s, ArmAuth([s EXCEPT !.session = role]))
<1> DEFINE t == [s EXCEPT !.session = role]
<1>1. SameCore(s, t) BY DEF SameCore, PeerState
<1> HIDE DEF t
<1>2. SameCore(t, ArmAuth(t)) BY <1>1, ArmAuthCore DEF SameCore
<1> QED BY <1>1, <1>2 DEF SameCore, t

\* A session whose job goes on.
LEMMA ContinueKept ==
  ASSUME NEW s, NEW t, Kept(s, t), PeerOK(t), Pt(t) \in CalmPoints \ {"none", "start"},
         NEW active \in BOOLEAN
  PROVE  Kept(s, Continue(t, active)) /\ Kept(s, MaintainLease(t)) /\ Kept(s, MaintainPeer(t))
<1>1. Busy(t) BY BusyIs
<1>2. t.queue[1].kind # "close" BY <1>1 DEF Busy
<1>3. Calm(t, Continue(t, active)) /\ (HasClose(t) => HasClose(Continue(t, active)))
  BY <1>1, <1>2, ContinueCalm DEF Busy
<1>4. Calm(t, MaintainLease(t)) /\ (HasClose(t) => HasClose(MaintainLease(t)))
  BY <1>1, MaintainLeaseCalm
<1>5. Calm(t, MaintainPeer(t)) /\ (HasClose(t) => HasClose(MaintainPeer(t)))
  BY <1>1, MaintainPeerCalm
<1> QED BY <1>3, <1>4, <1>5, CalmKept

LEMMA AuthCallAnsweredInv == ASSUME RoomInv, NEW p \in Peer, AuthCallAnswered(p) PROVE RoomInv'
<1> DEFINE s == [peer[p] EXCEPT !.authCall = FALSE, !.authPromise = FALSE]
           waits == At(p, "shared-refresh")
<1>1. PeerOK(peer[p]) /\ peer[p] \in PeerState BY PeerIs
<1>2. SameCore(peer[p], s) BY <1>1 DEF SameCore, PeerState
<1>3. PeerOK(s) /\ Kept(peer[p], s) /\ Pt(s) = Pt(peer[p]) BY <1>1, <1>2, SameCoreKept
<1>4. waits => Pt(s) = "shared-refresh" BY <1>3, AtIs
<1>5. UNCHANGED <<roomVars, serviceVars, host, durable, faults>>
  BY DEF AuthCallAnswered, logVars, bounds
<1>6. ASSUME NEW v, Becomes(p, v), Kept(peer[p], v) PROVE RoomInv'
  BY <1>5, <1>6, KeptAlone DEF RoomInv, ShapeOK
<1>7. ASSUME NEW role \in Sessions \ {"none"},
             LET t == IF Current(s) THEN ArmAuth([s EXCEPT !.session = role]) ELSE s
             IN  Becomes(p, IF ~waits THEN t
                            ELSE IF Current(t) THEN MaintainLease(t) ELSE Continue(t, FALSE))
      PROVE  RoomInv'
  <2> DEFINE t == IF Current(s) THEN ArmAuth([s EXCEPT !.session = role]) ELSE s
  <2>1. Becomes(p, IF ~waits THEN t
                   ELSE IF Current(t) THEN MaintainLease(t) ELSE Continue(t, FALSE))
    BY <1>7
  <2> HIDE DEF s, waits
  <2>2. s \in PeerState BY <1>2 DEF SameCore
  <2>3. SameCore(s, s) BY <2>2 DEF SameCore
  <2>4. Current(s) => s.session # "none" BY DEF Current
  <2>5. SameCore(s, t) BY <2>2, <2>3, <2>4, SessionCore
  <2> HIDE DEF t
  <2>6. PeerOK(t) /\ Kept(s, t) /\ Pt(t) = Pt(s) BY <1>3, <2>5, SameCoreKept
  <2>7. Kept(peer[p], t) BY <1>3, <2>6 DEF Kept
  <2>8. waits => Kept(peer[p], MaintainLease(t)) /\ Kept(peer[p], Continue(t, FALSE))
    BY <1>4, <2>6, <2>7, ContinueKept DEF CalmPoints
  <2> QED BY <1>6, <2>1, <2>7, <2>8
<1>8. ASSUME LET t == Terminate(s) IN Becomes(p, IF waits THEN Continue(t, FALSE) ELSE t)
      PROVE  RoomInv'
  <2> DEFINE t == Terminate(s)
  <2>1. Becomes(p, IF waits THEN Continue(t, FALSE) ELSE t) BY <1>8
  <2> HIDE DEF s, waits
  <2>2. PeerOK(t) /\ Kept(s, t) /\ (Pt(s) # "none" => Pt(t) = Pt(s)) BY <1>3, TerminateKept
  <2> HIDE DEF t
  <2>3. Kept(peer[p], t) BY <1>3, <2>2 DEF Kept
  <2>4. waits => Kept(peer[p], Continue(t, FALSE))
    BY <1>4, <2>2, <2>3, ContinueKept DEF CalmPoints
  <2> QED BY <1>6, <2>1, <2>3, <2>4
<1> QED BY <1>7, <1>8 DEF AuthCallAnswered

LEMMA LeaseCallAnsweredInv == ASSUME RoomInv, NEW p \in Peer, LeaseCallAnswered(p) PROVE RoomInv'
<1> DEFINE s == [peer[p] EXCEPT !.leaseCall = FALSE]
<1>1. PeerOK(peer[p]) /\ peer[p] \in PeerState BY PeerIs
<1>2. SameCore(peer[p], s) BY <1>1 DEF SameCore, PeerState
<1>3. PeerOK(s) /\ Kept(peer[p], s) BY <1>1, <1>2, SameCoreKept
<1>4. PICK t \in {IF Current(s) THEN ArmLease(s) ELSE s, Terminate(s)} : Becomes(p, t)
  BY DEF LeaseCallAnswered
<1> HIDE DEF s
<1>5. Kept(s, ArmLease(s)) /\ Kept(s, s) /\ Kept(s, Terminate(s))
  BY <1>2, <1>3, ArmLeaseCore, SameCoreKept, KeptSelf, TerminateKept DEF SameCore
<1>6. Kept(peer[p], t) BY <1>3, <1>4, <1>5 DEF Kept
<1>7. UNCHANGED <<roomVars, serviceVars, host, durable, faults>>
  BY DEF LeaseCallAnswered, logVars, bounds
<1> QED BY <1>4, <1>6, <1>7, KeptAlone DEF RoomInv, ShapeOK

LEMMA PublishedInv == ASSUME RoomInv, NEW p \in Peer, Published(p) PROVE RoomInv'
<1>1. At(p, "publish") /\ Becomes(p, Done(peer[p])) BY DEF Published
<1>2. PeerOK(peer[p]) /\ Pt(peer[p]) = "publish" BY <1>1, PeerIs, AtIs
<1>3. Busy(peer[p]) BY <1>2, BusyIs DEF CalmPoints
<1>4. Calm(peer[p], Done(peer[p])) /\ (HasClose(peer[p]) => HasClose(Done(peer[p])))
  BY <1>3, EndsCalm DEF Busy
<1>5. Kept(peer[p], Done(peer[p])) BY <1>2, <1>4, KeptSelf, CalmKept DEF CalmPoints
<1>6. /\ UNCHANGED <<roomVars, serviceVars, host, durable>>
      /\ faults' \in {faults, faults + 1}
  BY DEF Published, Succeeds, Fails, bounds
<1> QED BY <1>1, <1>5, <1>6, KeptAlone DEF RoomInv, ShapeOK

LEMMA AppendedInv == ASSUME RoomInv, NEW p \in Peer, Appended(p) PROVE RoomInv'
<1> DEFINE s == peer[p]
           u == Then(s, "publish")
           data == Running(s).data
<1>1. At(p, "append") BY DEF Appended
<1>2. PeerOK(s) /\ s \in PeerState /\ Pt(s) = "append" /\ s.queue # <<>> /\ s.queue[1] \in Job
      /\ Running(s) = s.queue[1] /\ JobOK(s.queue[1])
  BY <1>1, PeerIs, AtIs
<1>3. Busy(s) BY <1>2, BusyIs DEF CalmPoints
<1>4. Calm(s, Done(s)) /\ (HasClose(s) => HasClose(Done(s))) BY <1>3, EndsCalm DEF Busy
<1>5. Kept(s, Done(s)) BY <1>2, <1>4, KeptSelf, CalmKept DEF CalmPoints
<1>6. Kept(s, AfterStore(u))
  <2> DEFINE j == [s.queue[1] EXCEPT !.next = "publish"]
  <2>1. Rewritten(s, j, u) BY <1>2, ThenIs DEF Continuations
  <2>2. j.kind = s.queue[1].kind /\ j.at = "append" /\ j.remove = s.queue[1].remove
    BY <1>2 DEF Job, Pt
  <2>3. JobOK(j) /\ j.kind \notin Setup
    BY <1>2, <1>3, <2>2 DEF Busy, JobOK, Setup, SetupPoints, ResetPoints
  <2> HIDE DEF j, u
  <2>4. Calm(s, u) /\ (HasClose(s) => HasClose(u))
    BY <1>3, <2>1, <2>2, <2>3, MovesCalm DEF Busy, CalmPoints
  <2>5. Kept(s, u) /\ PeerOK(u) BY <1>2, <2>4, KeptSelf, CalmKept DEF CalmPoints, Calm
  <2>6. Pt(u) = "append" BY <2>1, <2>2 DEF Rewritten, Pt
  <2> QED BY <2>5, <2>6, ContinueKept DEF AfterStore, CalmPoints
<1>7. UNCHANGED <<roomVars, serviceVars, host>> BY DEF Appended, Succeeds, Fails, bounds
<1>8. faults' \in {faults, faults + 1} BY DEF Appended, Succeeds, Fails, bounds
<1>9. data \subseteq Batch /\ durable \subseteq Batch BY <1>2 DEF Job, RoomInv, ShapeOK
<1>10. durable' \subseteq Batch BY <1>9 DEF Appended
<1>11. \/ Becomes(p, AfterStore(u))
       \/ Becomes(p, Done(s))
  BY DEF Appended
<1> HIDE DEF u
<1> QED BY <1>5, <1>6, <1>7, <1>8, <1>10, <1>11, KeptAlone

LEMMA HistoryReadInv == ASSUME RoomInv, NEW p \in Peer, HistoryRead(p) PROVE RoomInv'
<1> DEFINE s == peer[p]
           u == [Then(s, "reply") EXCEPT !.queue[1].data = durable]
<1>1. At(p, "read") BY DEF HistoryRead
<1>2. PeerOK(s) /\ s \in PeerState /\ Pt(s) = "read" /\ s.queue # <<>> /\ s.queue[1] \in Job
      /\ JobOK(s.queue[1])
  BY <1>1, PeerIs, AtIs
<1>3. Busy(s) BY <1>2, BusyIs DEF CalmPoints
<1>4. Calm(s, Done(s)) /\ (HasClose(s) => HasClose(Done(s))) BY <1>3, EndsCalm DEF Busy
<1>5. Kept(s, Done(s)) BY <1>2, <1>4, KeptSelf, CalmKept DEF CalmPoints
<1>6. Kept(s, u) /\ PeerOK(u) /\ Pt(u) = "read"
  <2> DEFINE i == [s.queue[1] EXCEPT !.next = "reply"]
             w == Then(s, "reply")
             j == [i EXCEPT !.data = durable]
  <2>1. Rewritten(s, i, w) BY <1>2, ThenIs DEF Continuations
  <2>2. w \in PeerState /\ w.queue # <<>> /\ w.queue[1] = i /\ i \in Job /\ 1 \in DOMAIN w.queue
    BY <2>1, HeadIsJob DEF Rewritten
  <2> HIDE DEF w
  <2>3. [w EXCEPT !.queue[1].data = durable] = [w EXCEPT !.queue = [w.queue EXCEPT ![1] = j]]
    BY <2>2
  <2>4. j \in Job BY <2>2 DEF Job, RoomInv, ShapeOK
  <2>5. j.kind = s.queue[1].kind /\ j.at = "read" /\ j.next = "reply" /\ j.remove = s.queue[1].remove
    BY <1>2 DEF Job, Pt
  <2> HIDE DEF i, j
  <2>6. Rewritten(w, j, [w EXCEPT !.queue = [w.queue EXCEPT ![1] = j]]) BY <2>2, <2>4, SetHead
  <2>7. Rewritten(s, j, u) BY <2>1, <2>3, <2>6, RewrittenTwice DEF w
  <2> HIDE DEF u
  <2>8. JobOK(j) /\ j.kind \notin Setup
    BY <1>2, <1>3, <2>5 DEF Busy, JobOK, Setup, SetupPoints, ResetPoints
  <2>9. Calm(s, u) /\ (HasClose(s) => HasClose(u))
    BY <1>3, <2>5, <2>7, <2>8, MovesCalm DEF Busy, CalmPoints
  <2>10. Pt(u) = "read" BY <2>5, <2>7 DEF Rewritten, Pt
  <2> QED BY <1>2, <2>9, <2>10, KeptSelf, CalmKept DEF CalmPoints, Calm
<1>7. /\ UNCHANGED <<roomVars, serviceVars, host, durable>>
      /\ faults' \in {faults, faults + 1}
  BY DEF HistoryRead, Succeeds, Fails, bounds, logVars
<1>8. Becomes(p, Done(s)) \/ Becomes(p, MaintainPeer(u)) \/ Becomes(p, Continue(u, Current(u)))
  BY DEF HistoryRead
<1> HIDE DEF u
<1>9. Current(u) \in BOOLEAN BY DEF Current
<1>10. Kept(s, MaintainPeer(u)) /\ Kept(s, Continue(u, Current(u)))
  BY <1>6, <1>9, ContinueKept DEF CalmPoints
<1> QED BY <1>5, <1>7, <1>8, <1>10, KeptAlone DEF RoomInv, ShapeOK

LEMMA DeliverInv == ASSUME RoomInv, LogOK, Deliver PROVE RoomInv'
<1> DEFINE t(s, b) ==
             CASE ~Current(s) -> s
               [] Current(s) /\ RefreshMode = "on-message" /\ (s.authDue \/ s.leaseDue) -> Expel(s)
               [] OTHER -> IF s.open THEN [s EXCEPT !.received = @ \cup {b}] ELSE s
<1>1. PICK m \in inflight : peer' = [p \in Peer |-> t(peer[p], m.batch)] BY DEF Deliver
<1>2. m.batch \in Batch BY DEF LogOK, RoomInv, ShapeOK
<1>3. ASSUME NEW p \in Peer PROVE Kept(peer[p], t(peer[p], m.batch))
  <2> DEFINE s == peer[p]
             u == [s EXCEPT !.received = @ \cup {m.batch}]
  <2>1. PeerOK(s) /\ s \in PeerState BY PeerIs
  <2>2. SameCore(s, u) BY <1>2, <2>1 DEF SameCore, PeerState
  <2> HIDE DEF u
  <2>3. Kept(s, u) /\ Kept(s, s) /\ Kept(s, Expel(s))
    BY <2>1, <2>2, SameCoreKept, KeptSelf, ExpelKept
  <2> QED BY <2>3 DEF u
<1> HIDE DEF t
<1>4. peer' \in [Peer -> PeerState] /\ \A p \in Peer : Kept(peer[p], peer'[p])
  BY <1>1, <1>3 DEF Kept, PeerOK, RunOK
<1>5. UNCHANGED <<closing, fanoutQueue, retainers, subscription, serviceVars, maintenance, host, durable, faults>>
  BY DEF Deliver, roomVars, bounds
<1>6. LockGrows BY <1>5, LockStays
<1>7. /\ durable' \subseteq Batch /\ faults' \in Nat /\ faults' >= faults /\ maintenance' \in Maintenances
      /\ \A i \in DOMAIN maintenance' : peer[maintenance'[i].from].phase \in {"authenticated", "left"}
  BY <1>5 DEF RoomInv, ShapeOK, Maintenances, MaintenanceOK
<1> QED BY <1>4, <1>5, <1>6, <1>7, KeptInv

LEMMA QuietInv ==
  ASSUME RoomInv, UNCHANGED <<peer, roomVars, serviceVars, host>>, durable' \subseteq Batch,
         faults' \in {faults, faults + 1}
  PROVE  RoomInv'
<1>1. peer' \in [Peer -> PeerState] /\ \A p \in Peer : Kept(peer[p], peer'[p])
  BY PeerIs, KeptSelf DEF RoomInv, ShapeOK
<1>2. UNCHANGED <<closing, fanoutQueue, retainers, subscription, serviceVars, maintenance, host>>
  BY DEF roomVars
<1>3. LockGrows BY <1>2, LockStays
<1>4. /\ faults' \in Nat /\ faults' >= faults /\ maintenance' \in Maintenances
      /\ \A i \in DOMAIN maintenance' : peer[maintenance'[i].from].phase \in {"authenticated", "left"}
  BY <1>2 DEF RoomInv, ShapeOK, Maintenances, MaintenanceOK
<1> QED BY <1>1, <1>2, <1>3, <1>4, KeptInv

LEMMA RemoteInv == ASSUME RoomInv, RemoteCommit \/ RemotePublish \/ Drop PROVE RoomInv'
<1>1. UNCHANGED <<peer, roomVars, serviceVars, host>> /\ faults' \in {faults, faults + 1}
  BY DEF RemoteCommit, RemotePublish, Drop, Sends, Fails, bounds
<1>2. durable' \subseteq Batch
  BY HostIs DEF RemoteCommit, RemotePublish, Drop, RoomInv, ShapeOK
<1> QED BY <1>1, <1>2, QuietInv

-----------------------------------------------------------------------------
(* Resets that begin.                                                      *)

LEMMA ResetBegins ==
  ASSUME RoomInv, NEW p \in Peer, NEW u, peer[p].queue # <<>>, Pt(peer[p]) \notin ResetPoints,
         u \in PeerState, u.queue = peer[p].queue, u.phase = peer[p].phase,
         u.fanoutRetained = peer[p].fanoutRetained, u.lease = peer[p].lease,
         u.session # "none" <=> peer[p].session # "none",
         peer[p].leaveRequested => u.leaveRequested, u.open => peer[p].open,
         NEW remove \in BOOLEAN, ~remove => peer[p].queue[1].kind = "auth",
         Resets(p, u, remove, fanoutQueue),
         UNCHANGED <<closing, retainers, subscription, serviceVars, maintenance, host, durable>>,
         faults' \in {faults, faults + 1}
  PROVE  RoomInv'
<1> DEFINE s == peer[p]
           t == StartReset(u, remove)
<1>1. PeerOK(s) BY PeerIs
<1>2. PeerOK(u) /\ (HasClose(u) <=> HasClose(s)) BY <1>1, ToldToGo
<1>3. ResetTo(u, t) /\ (Pt(t) = "release-lock" <=> u.fanoutRetained)
  BY <1>2, StartResetIs DEF PeerOK
<1>4. /\ Becomes(p, t)
      /\ fanoutQueue' = IF u.fanoutRetained THEN Append(fanoutQueue, p) ELSE fanoutQueue
  BY DEF Resets
<1> HIDE DEF t
<1>5. Kept(s, t) BY <1>1, <1>2, <1>3, ResetKept
<1>6. LockGrows BY <1>4, LockStays, LockAppends
<1>7. durable' \subseteq Batch /\ faults' \in Nat /\ faults' >= faults BY DEF RoomInv, ShapeOK
<1> QED BY <1>4, <1>5, <1>6, <1>7, KeptByOne

LEMMA RefreshedInv == ASSUME RoomInv, NEW p \in Peer, Refreshed(p) PROVE RoomInv'
<1> DEFINE s == [peer[p] EXCEPT !.authPromise = FALSE]
<1>1. At(p, "refresh") BY DEF Refreshed
<1>2. PeerOK(peer[p]) /\ peer[p] \in PeerState /\ Pt(peer[p]) = "refresh" /\ peer[p].queue # <<>>
  BY <1>1, PeerIs, AtIs
<1>3. SameCore(peer[p], s) BY <1>2 DEF SameCore, PeerState
<1>4. PeerOK(s) /\ Kept(peer[p], s) /\ Pt(s) = Pt(peer[p]) BY <1>2, <1>3, SameCoreKept
<1>5. UNCHANGED <<closing, retainers, subscription, serviceVars, maintenance, host, durable, faults>>
  BY DEF Refreshed, Succeeds, logVars, bounds
<1>6. ASSUME NEW v, Becomes(p, v), UNCHANGED fanoutQueue, Kept(peer[p], v) PROVE RoomInv'
  <2>1. UNCHANGED <<roomVars, serviceVars, host>> /\ faults' \in {faults, faults + 1} /\ durable' \subseteq Batch
    BY <1>5, <1>6 DEF roomVars, RoomInv, ShapeOK
  <2> QED BY <1>6, <2>1, KeptAlone
<1>7. ASSUME NEW role \in Sessions \ {"none"}, UNCHANGED fanoutQueue,
             Becomes(p, IF Current(s)
                        THEN MaintainLease(ArmAuth([s EXCEPT !.session = role]))
                        ELSE Continue(s, FALSE))
      PROVE  RoomInv'
  <2> DEFINE t == ArmAuth([s EXCEPT !.session = role])
  <2> HIDE DEF s
  <2>1. s \in PeerState BY <1>3 DEF SameCore
  <2>2. Current(s) => SameCore(s, t) BY <2>1, SessionCore DEF Current
  <2> HIDE DEF t
  <2>3. Current(s) => PeerOK(t) /\ Kept(s, t) /\ Pt(t) = Pt(s) BY <1>4, <2>2, SameCoreKept
  <2>4. Current(s) => Kept(peer[p], t) BY <1>4, <2>3 DEF Kept
  <2>5. Current(s) => Kept(peer[p], MaintainLease(t))
    BY <1>2, <1>4, <2>3, <2>4, ContinueKept DEF CalmPoints
  <2>6. Kept(peer[p], Continue(s, FALSE)) BY <1>2, <1>4, ContinueKept DEF CalmPoints
  <2> QED BY <1>6, <1>7, <2>5, <2>6 DEF t
<1>8. ASSUME Current(s), Resets(p, ClosePeer(s), TRUE, fanoutQueue) PROVE RoomInv'
  <2> DEFINE u == ClosePeer(s)
  <2>1. /\ u \in PeerState /\ u.queue = peer[p].queue /\ u.phase = peer[p].phase /\ u.open = FALSE
        /\ u.fanoutRetained = peer[p].fanoutRetained /\ u.lease = peer[p].lease
        /\ u.session = peer[p].session /\ u.leaveRequested = peer[p].leaveRequested
    BY <1>2 DEF PeerState, ClosePeer
  <2>2. Pt(peer[p]) \notin ResetPoints BY <1>2 DEF ResetPoints
  <2>3. Resets(p, u, TRUE, fanoutQueue) BY <1>8
  <2> HIDE DEF u
  <2> QED BY <1>2, <1>5, <2>1, <2>2, <2>3, ResetBegins
<1>9. ASSUME Becomes(p, Continue(s, FALSE)), UNCHANGED fanoutQueue PROVE RoomInv'
  <2> HIDE DEF s
  <2>1. Kept(peer[p], Continue(s, FALSE)) BY <1>2, <1>4, ContinueKept DEF CalmPoints
  <2> QED BY <1>6, <1>9, <2>1
<1> QED BY <1>7, <1>8, <1>9 DEF Refreshed

LEMMA LeaseRefreshedInv == ASSUME RoomInv, NEW p \in Peer, LeaseRefreshed(p) PROVE RoomInv'
<1> DEFINE s == peer[p]
<1>1. At(p, "lease-refresh") BY DEF LeaseRefreshed
<1>2. PeerOK(s) /\ s \in PeerState /\ Pt(s) = "lease-refresh" /\ s.queue # <<>>
  BY <1>1, PeerIs, AtIs
<1>3. Kept(s, s) BY <1>2, KeptSelf
<1>4. UNCHANGED <<closing, retainers, subscription, serviceVars, maintenance, host, durable, faults>>
  BY DEF LeaseRefreshed, Succeeds, logVars, bounds
<1>5. ASSUME NEW v, Becomes(p, v), UNCHANGED fanoutQueue, Kept(s, v) PROVE RoomInv'
  <2>1. UNCHANGED <<roomVars, serviceVars, host>> /\ faults' \in {faults, faults + 1} /\ durable' \subseteq Batch
    BY <1>4, <1>5 DEF roomVars, RoomInv, ShapeOK
  <2> QED BY <1>5, <2>1, KeptAlone
<1>6. Kept(s, Continue(s, FALSE)) BY <1>2, <1>3, ContinueKept DEF CalmPoints
<1>7. Kept(s, Continue(ArmLease(s), TRUE))
  <2> DEFINE t == ArmLease(s)
  <2>1. SameCore(s, t) BY <1>2, ArmLeaseCore
  <2> HIDE DEF t
  <2>2. PeerOK(t) /\ Kept(s, t) /\ Pt(t) = Pt(s) BY <1>2, <2>1, SameCoreKept
  <2>3. Kept(s, Continue(t, TRUE)) BY <1>2, <2>2, ContinueKept DEF CalmPoints
  <2> QED BY <2>3 DEF t
<1>8. ASSUME Resets(p, ClosePeer([s EXCEPT !.leaveRequested = TRUE]), TRUE, fanoutQueue) PROVE RoomInv'
  <2> DEFINE u == ClosePeer([s EXCEPT !.leaveRequested = TRUE])
  <2>1. /\ u \in PeerState /\ u.queue = s.queue /\ u.phase = s.phase /\ u.open = FALSE
        /\ u.fanoutRetained = s.fanoutRetained /\ u.lease = s.lease
        /\ u.session = s.session /\ u.leaveRequested = TRUE
    BY <1>2 DEF PeerState, ClosePeer
  <2>2. Pt(s) \notin ResetPoints BY <1>2 DEF ResetPoints
  <2>3. Resets(p, u, TRUE, fanoutQueue) BY <1>8
  <2> HIDE DEF u
  <2> QED BY <1>2, <1>4, <2>1, <2>2, <2>3, ResetBegins
<1>9. \/ /\ Becomes(p, IF Current(s) THEN Continue(ArmLease(s), TRUE) ELSE Continue(s, FALSE))
         /\ UNCHANGED fanoutQueue
      \/ Resets(p, ClosePeer([s EXCEPT !.leaveRequested = TRUE]), TRUE, fanoutQueue)
      \/ Becomes(p, Continue(s, FALSE)) /\ UNCHANGED fanoutQueue
  BY DEF LeaseRefreshed
<1> QED BY <1>5, <1>6, <1>7, <1>8, <1>9

-----------------------------------------------------------------------------
(* Steps that take or give back what a peer holds, part by part.           *)

\* What the room's bookkeeping of close and of maintenance needs of a step.
Moves(s, t) ==
  /\ PeerOK(t)
  /\ InMap(t) => InMap(s)
  /\ InMap(t) /\ HasClose(s) => HasClose(t)
  /\ s.phase \in {"authenticated", "left"} => t.phase \in {"authenticated", "left"}

\* The shape of the room after a step that moves no message.
ShapeMoves ==
  /\ UNCHANGED <<closing, maintenance, durable, host>>
  /\ fanoutQueue' \in Seq(Peer \cup {Room})
  /\ retainers' \in Nat
  /\ subscription' \in Subscription \cup {None}
  /\ faults' \in {faults, faults + 1}

OneMoves(p, t) == peer'[p] = t /\ \A q \in Peer \ {p} : peer'[q] = peer[q]

LEMMA MovesInv ==
  ASSUME RoomInv, NEW p \in Peer, NEW t, Moves(peer[p], t), Becomes(p, t), ShapeMoves
  PROVE  ShapeOK' /\ PeersOK' /\ CloseOK' /\ MaintenanceOK' /\ OneMoves(p, t)
<1>1. t \in PeerState /\ peer \in [Peer -> PeerState]
  BY DEF Moves, PeerOK, RunOK, RoomInv, ShapeOK
<1>2. OneMoves(p, t) /\ peer' \in [Peer -> PeerState] BY <1>1 DEF OneMoves, Becomes
<1>3. ShapeOK' BY <1>2 DEF RoomInv, ShapeOK, ShapeMoves, Requests
<1>4. PeersOK' BY <1>2 DEF RoomInv, PeersOK, OneMoves, Moves
<1>5. CloseOK' BY <1>2 DEF RoomInv, CloseOK, Late, OneMoves, Moves, ShapeMoves
<1>6. MaintenanceOK'
  <2> SUFFICES ASSUME NEW i \in DOMAIN maintenance
               PROVE  peer'[maintenance[i].from].phase \in {"authenticated", "left"}
    BY DEF MaintenanceOK, ShapeMoves
  <2>1. maintenance[i].from \in Peer BY WaitingIs
  <2>2. peer[maintenance[i].from].phase \in {"authenticated", "left"} BY DEF RoomInv, MaintenanceOK
  <2> QED BY <1>2, <2>1, <2>2 DEF OneMoves, Moves
<1> QED BY <1>2, <1>3, <1>4, <1>5, <1>6

\* The services have heard what p took or gave back.
Heard(p, s, t) ==
  /\ \/ leases' = leases /\ (HasLease(t) <=> HasLease(s))
     \/ leases' = leases \cup {p} /\ HasLease(t)
     \/ leases' = leases \ {p} /\ ~HasLease(t)
  /\ \/ sessions' = sessions /\ (HasSession(t) <=> HasSession(s))
     \/ sessions' = sessions \cup {p} /\ HasSession(t)
     \/ sessions' = sessions \ {p} /\ ~HasSession(t)

LEMMA HeardInv ==
  ASSUME RoomInv, NEW p \in Peer, NEW t, OneMoves(p, t), Heard(p, peer[p], t)
  PROVE  ServicesOK'
<1>1. leases = {q \in Peer : HasLease(peer[q])} /\ sessions = {q \in Peer : HasSession(peer[q])}
  BY DEF RoomInv, ServicesOK
<1>2. leases' = {q \in Peer : HasLease(peer'[q])} BY <1>1 DEF OneMoves, Heard
<1>3. sessions' = {q \in Peer : HasSession(peer'[q])} BY <1>1 DEF OneMoves, Heard
<1> QED BY <1>2, <1>3 DEF ServicesOK

\* Nobody else is at a point that the lock protects.
LEMMA HolderAlone ==
  ASSUME RoomInv, NEW p \in Peer, HoldsLock(p)
  PROVE  /\ \A q \in Peer \ {p} : Pt(peer[q]) \notin HoldPoints
         /\ closing # "unsubscribe"
BY RoomAssumption DEF RoomInv, LockOK, HoldsLock

\* The holder goes on in the lock, or passes it on.
LEMMA HolderInv ==
  ASSUME RoomInv, NEW p \in Peer, NEW t, HoldsLock(p), OneMoves(p, t), closing' = closing,
         Pt(t) \in HoldPoints => /\ fanoutQueue' = fanoutQueue /\ retainers' = 0
                                 /\ Pt(t) = "subscribe" => subscription' = None
  PROVE  LockOK'
<1>1. \A q \in Peer \ {p} : Pt(peer'[q]) \notin HoldPoints BY HolderAlone DEF OneMoves
<1>2. closing' # "unsubscribe" BY HolderAlone
<1>3. Pt(peer'[p]) = Pt(t) BY DEF OneMoves
<1>4. Pt(peer'[p]) \in HoldPoints => HoldsLock(p)' /\ retainers' = 0
                                     /\ (Pt(t) = "subscribe" => subscription' = None)
  BY <1>3 DEF HoldsLock
<1> QED BY <1>1, <1>2, <1>3, <1>4 DEF LockOK

\* Others than the holder leave what the lock protects alone.
LEMMA GrowsInv ==
  ASSUME RoomInv, NEW p \in Peer, NEW t, OneMoves(p, t), LockGrows,
         UNCHANGED <<closing, retainers, subscription>>, Pt(t) \notin HoldPoints
  PROVE  LockOK'
<1>1. \A x \in Peer \cup {Room} : HoldsLock(x) => HoldsLock(x)' BY DEF LockGrows, HoldsLock
<1>2. \A q \in Peer : Pt(peer'[q]) \in HoldPoints => peer'[q] = peer[q] BY DEF OneMoves
<1> QED BY <1>1, <1>2 DEF RoomInv, LockOK

CountingPeers == {p \in Peer : Counts(peer[p])}

LEMMA CountingIs ==
  /\ IsFiniteSet(CountingPeers) /\ Cardinality(CountingPeers) \in Nat
  /\ Cardinality(CountingPeers) = 0 <=> \A p \in Peer : ~Counts(peer[p])
<1>1. CountingPeers \in SUBSET Peer BY DEF CountingPeers
<1>2. IsFiniteSet(CountingPeers) BY <1>1, FS_Subset, RoomAssumption
<1> QED BY <1>2, FS_CardinalityType, FS_EmptySet DEF CountingPeers

\* The count before and after the step of p.
LEMMA CountMoves ==
  ASSUME NEW p \in Peer, NEW t, OneMoves(p, t)
  PROVE  /\ (Counts(t) <=> Counts(peer[p])) => CountingPeers' = CountingPeers
         /\ Counts(t) /\ ~Counts(peer[p]) =>
              Cardinality(CountingPeers') = Cardinality(CountingPeers) + 1
         /\ ~Counts(t) /\ Counts(peer[p]) =>
              Cardinality(CountingPeers') = Cardinality(CountingPeers) - 1
<1>1. IsFiniteSet(CountingPeers) BY CountingIs
<1>2. (Counts(t) <=> Counts(peer[p])) => CountingPeers' = CountingPeers
  BY DEF CountingPeers, OneMoves
<1>3. Counts(t) /\ ~Counts(peer[p]) => CountingPeers' = CountingPeers \cup {p} /\ p \notin CountingPeers
  BY DEF CountingPeers, OneMoves
<1>4. ~Counts(t) /\ Counts(peer[p]) => CountingPeers' = CountingPeers \ {p} /\ p \in CountingPeers
  BY DEF CountingPeers, OneMoves
<1> QED BY <1>1, <1>2, <1>3, <1>4, FS_AddElement, FS_RemoveElement

LEMMA SameCountInv ==
  ASSUME RoomInv, NEW p \in Peer, NEW t, OneMoves(p, t), Counts(t) <=> Counts(peer[p]),
         UNCHANGED <<closing, retainers, subscription, live>>, faults' \in {faults, faults + 1}
  PROVE  CountOK'
<1>1. CountingPeers' = CountingPeers BY CountMoves
<1>2. \A q \in Peer : Counts(peer'[q]) <=> Counts(peer[q]) BY DEF OneMoves
<1> USE DEF RoomInv
<1>3. (~Late => retainers = Cardinality({q \in Peer : Counts(peer[q])}))'
  BY <1>1 DEF CountOK, Late, CountingPeers
<1>4. (\A q \in Peer : Counts(peer[q]) => subscription # None)' BY <1>2 DEF CountOK
<1>5. (live = {subscription} \ {None})' BY DEF CountOK
<1>6. (closing = "closed" /\ live # {} => faults > 0)' BY DEF CountOK, ShapeOK
<1> QED BY <1>3, <1>4, <1>5, <1>6 DEF CountOK

-----------------------------------------------------------------------------
(* Setup of a session, up to the lock.                                     *)

LEMMA SetupIs ==
  ASSUME NEW s, PeerOK(s), s.queue # <<>>,
         Pt(s) \in SetupPoints \/ (s.queue[1].kind = "resume" /\ Pt(s) = "start")
  PROVE  /\ s.phase = "authenticating" /\ s.queue[1].kind \in Setup /\ InMap(s)
         /\ Pt(s) # "ready" => ~s.fanoutRetained
         /\ Pt(s) \notin ResetPoints
         /\ Counts(s) <=> s.fanoutRetained
         /\ HasLease(s) <=> s.lease
         /\ HasSession(s) <=> s.session # "none"
<1>1. s \in PeerState /\ JobOK(s.queue[1]) /\ s.queue[1].at = Pt(s)
  BY HeadIsJob DEF PeerOK, RunOK, QueueOK, Pt
<1>2. s.queue[1].kind \in Setup BY <1>1 DEF JobOK, Setup
<1>3. s.phase = "authenticating" BY <1>2 DEF PeerOK, RunOK, PhaseOK
<1>4. Pt(s) \notin ResetPoints BY DEF SetupPoints, ResetPoints
<1> QED BY <1>2, <1>3, <1>4
       DEF PeerOK, HoldsOK, InMap, Counts, HasLease, HasSession, ResetPoints

LEMMA SetupGoto ==
  ASSUME NEW s, RunOK(s), s.queue # <<>>, s.phase = "authenticating", NEW point \in SetupPoints,
         s.fanoutRetained => point = "ready", point = "recheck" => s.session # "none"
  PROVE  LET t == Goto(s, point) IN
         PeerOK(t) /\ SameRest(s, t) /\ Pt(t) = point /\ (HasClose(s) <=> HasClose(t))
<1> DEFINE j == [s.queue[1] EXCEPT !.at = point]
           t == Goto(s, point)
<1>1. /\ s \in PeerState /\ s.queue[1] \in Job /\ JobOK(s.queue[1]) /\ QueueOK(s.queue) /\ PhaseOK(s)
      /\ s.queue[1].kind \in Setup
  BY HeadIsJob DEF RunOK, QueueOK, PhaseOK
<1>2. Rewritten(s, j, t) BY <1>1, GotoIs DEF Points, SetupPoints
<1>3. /\ j.kind = s.queue[1].kind /\ j.at = point /\ j.next = s.queue[1].next
      /\ j.remove = s.queue[1].remove
  BY <1>1 DEF Job
<1> HIDE DEF j, t
<1>4. JobOK(j) BY <1>1, <1>3 DEF JobOK, Setup, SetupPoints, ResetPoints
<1>5. QueueOK(t.queue) /\ Pt(t) = point /\ (HasClose(s) <=> HasClose(t))
  BY <1>1, <1>2, <1>3, <1>4, RewrittenQueue
<1>6. t \in PeerState /\ SameRest(s, t) /\ t.queue # <<>> /\ t.queue[1] = j /\ Len(t.queue) = Len(s.queue)
  BY <1>2 DEF Rewritten
<1>7. PhaseOK(t) BY <1>1, <1>3, <1>6 DEF PhaseOK, HeldOK, SameRest
<1>8. HoldsOK(t) BY <1>5, <1>6 DEF HoldsOK, SameRest, SetupPoints, ResetPoints
<1> QED BY <1>5, <1>6, <1>7, <1>8 DEF PeerOK, RunOK, t

\* Setup goes on outside the lock.
LEMMA SetupKept ==
  ASSUME NEW s, PeerOK(s), s.queue # <<>>,
         Pt(s) \in SetupPoints \/ (s.queue[1].kind = "resume" /\ Pt(s) = "start"),
         NEW u, SameCore(s, u), NEW point \in {"recheck", "acquire"},
         ~s.fanoutRetained, point = "recheck" => s.session # "none"
  PROVE  Kept(s, Goto(u, point))
<1> DEFINE t == Goto(u, point)
<1>1. s.phase = "authenticating" BY SetupIs
<1>2. PeerOK(u) /\ (HasClose(u) <=> HasClose(s)) BY SameCoreKept
<1>3. PeerOK(t) /\ SameRest(u, t) /\ Pt(t) = point /\ (HasClose(u) <=> HasClose(t))
  BY <1>1, <1>2, SetupGoto DEF SameCore, PeerOK, SetupPoints
<1> HIDE DEF t
<1>4. /\ t.phase = s.phase /\ t.fanoutRetained = s.fanoutRetained /\ t.lease = s.lease
      /\ t.session # "none" <=> s.session # "none"
  BY <1>3 DEF SameCore, SameRest
<1>5. InMap(t) /\ InMap(s) BY <1>1, <1>4 DEF InMap
<1>6. Pt(t) \notin HoldPoints \cup ResetPoints BY <1>3 DEF HoldPoints, ResetPoints
<1>7. /\ Counts(s) <=> s.fanoutRetained
      /\ HasLease(s) <=> s.lease
      /\ HasSession(s) <=> s.session # "none"
  BY SetupIs
<1>8. /\ Counts(t) <=> Counts(s)
      /\ HasLease(t) <=> HasLease(s)
      /\ HasSession(t) <=> HasSession(s)
  BY <1>4, <1>6, <1>7 DEF Counts, HasLease, HasSession, ResetPoints
<1> QED BY <1>1, <1>2, <1>3, <1>4, <1>5, <1>6, <1>8 DEF Kept, t

\* A setup that fails outside the lock.
LEMMA FailSetupInv ==
  ASSUME RoomInv, NEW p \in Peer, peer[p].queue # <<>>, Pt(peer[p]) \in SetupPoints,
         FailSetup(p, peer[p], fanoutQueue) \/ Resets(p, peer[p], TRUE, fanoutQueue)
         \/ Resets(p, ClosePeer(peer[p]), TRUE, fanoutQueue),
         UNCHANGED <<closing, retainers, subscription, serviceVars, maintenance, host, durable>>,
         faults' \in {faults, faults + 1}
  PROVE  RoomInv'
<1> DEFINE s == peer[p]
<1>1. PeerOK(s) /\ s \in PeerState BY PeerIs
<1>2. s.queue[1].kind \in Setup /\ Pt(s) \notin ResetPoints BY <1>1, SetupIs
<1>3. Running(s) = s.queue[1] BY <1>1, HeadIsJob
<1>4. ASSUME NEW u \in {s, ClosePeer(s), ClosePeer([s EXCEPT !.leaveRequested = TRUE])},
             NEW remove \in BOOLEAN, ~remove => s.queue[1].kind = "auth",
             Resets(p, u, remove, fanoutQueue)
      PROVE  RoomInv'
  <2>1. /\ u \in PeerState /\ u.queue = s.queue /\ u.phase = s.phase /\ (u.open => s.open)
        /\ u.fanoutRetained = s.fanoutRetained /\ u.lease = s.lease
        /\ u.session = s.session /\ (s.leaveRequested => u.leaveRequested)
    BY <1>1, <1>4 DEF PeerState, ClosePeer
  <2> QED BY <1>2, <1>4, <2>1, ResetBegins
<1>5. ASSUME FailSetup(p, s, fanoutQueue) PROVE RoomInv'
  <2>1. CASE s.queue[1].kind = "resume"
    <3>1. Resets(p, ClosePeer([s EXCEPT !.leaveRequested = TRUE]), TRUE, fanoutQueue)
      BY <1>3, <1>5, <2>1 DEF FailSetup
    <3> QED BY <1>4, <3>1
  <2>2. CASE s.queue[1].kind # "resume"
    <3>1. s.queue[1].kind = "auth" BY <1>2, <2>2 DEF Setup
    <3>2. Resets(p, s, Leaving(s), fanoutQueue) BY <1>3, <1>5, <2>2 DEF FailSetup
    <3>3. Leaving(s) \in BOOLEAN BY DEF Leaving
    <3> QED BY <1>4, <3>1, <3>2, <3>3
  <2> QED BY <2>1, <2>2
<1> QED BY <1>4, <1>5

LEMMA AuthorizedInv == ASSUME RoomInv, NEW p \in Peer, Authorized(p) PROVE RoomInv'
<1> DEFINE s == peer[p]
<1>1. PeerOK(s) /\ s \in PeerState /\ Pt(s) = "authorize" /\ s.queue # <<>>
  BY PeerIs, AtIs DEF Authorized
<1>2. /\ UNCHANGED <<closing, retainers, subscription, serviceVars, maintenance, host, durable>>
      /\ faults' \in {faults, faults + 1}
  BY DEF Authorized, Succeeds, Fails, bounds, logVars
<1>3. CASE Becomes(p, Goto(s, "acquire")) /\ UNCHANGED fanoutQueue
  <2>1. SameCore(s, s) BY <1>1 DEF SameCore
  <2>2. ~s.fanoutRetained BY <1>1, SetupIs DEF SetupPoints
  <2>3. Kept(s, Goto(s, "acquire")) BY <1>1, <2>1, <2>2, SetupKept DEF SetupPoints
  <2>4. UNCHANGED <<roomVars, serviceVars, host>> /\ durable' \subseteq Batch
    BY <1>2, <1>3 DEF roomVars, RoomInv, ShapeOK
  <2> QED BY <1>2, <1>3, <2>3, <2>4, KeptAlone
<1>4. CASE FailSetup(p, s, fanoutQueue) \/ Resets(p, s, TRUE, fanoutQueue)
           \/ Resets(p, ClosePeer(s), TRUE, fanoutQueue)
  BY <1>1, <1>2, <1>4, FailSetupInv DEF SetupPoints
<1> QED BY <1>3, <1>4 DEF Authorized

LEMMA RecheckedInv == ASSUME RoomInv, NEW p \in Peer, Rechecked(p) PROVE RoomInv'
<1> DEFINE s == peer[p]
<1>1. PeerOK(s) /\ s \in PeerState /\ Pt(s) = "recheck" /\ s.queue # <<>>
  BY PeerIs, AtIs DEF Rechecked
<1>2. /\ UNCHANGED <<closing, retainers, subscription, serviceVars, maintenance, host, durable>>
      /\ faults' \in {faults, faults + 1}
  BY DEF Rechecked, Succeeds, bounds, logVars
<1>3. ASSUME NEW role \in Sessions \ {"none"},
             Becomes(p, Goto([s EXCEPT !.session = role], "acquire")), UNCHANGED fanoutQueue
      PROVE  RoomInv'
  <2> DEFINE u == [s EXCEPT !.session = role]
  <2>1. s.session # "none" BY <1>1 DEF PeerOK, HoldsOK
  <2>2. SameCore(s, u) BY <1>1, <2>1, SessionCore
  <2>3. ~s.fanoutRetained BY <1>1, SetupIs DEF SetupPoints
  <2> HIDE DEF u
  <2>4. Kept(s, Goto(u, "acquire")) BY <1>1, <2>2, <2>3, SetupKept DEF SetupPoints
  <2>5. UNCHANGED <<roomVars, serviceVars, host>> /\ durable' \subseteq Batch
    BY <1>2, <1>3 DEF roomVars, RoomInv, ShapeOK
  <2> QED BY <1>2, <1>3, <2>4, <2>5, KeptAlone DEF u
<1>4. CASE FailSetup(p, s, fanoutQueue) \/ Resets(p, s, TRUE, fanoutQueue)
  BY <1>1, <1>2, <1>4, FailSetupInv DEF SetupPoints
<1> QED BY <1>3, <1>4 DEF Rechecked

\* The state in which a session begins: its setup is the job that ends.
LEMMA AuthenticatedIs ==
  ASSUME NEW s, RunOK(s), s.queue # <<>>, s.phase = "authenticating"
  PROVE  LET t == Authenticated(s) IN
         /\ PeerOK(t) /\ Pt(t) \in CalmPoints /\ t.phase = "authenticated"
         /\ t.fanoutRetained = s.fanoutRetained /\ t.lease = s.lease
         /\ t.session # "none" <=> s.session # "none"
         /\ HasClose(s) => HasClose(t)
<1> DEFINE w == [s EXCEPT !.phase = "authenticated"]
           v == ArmAuth(w)
           u == ArmLease(v)
<1>1. s \in PeerState /\ QueueOK(s.queue) /\ PhaseOK(s) /\ s.queue[1].kind \in Setup
  BY DEF RunOK, PhaseOK
<1>2. /\ w \in PeerState /\ w.queue = s.queue /\ w.phase = "authenticated"
      /\ w.fanoutRetained = s.fanoutRetained /\ w.lease = s.lease /\ w.session = s.session
  BY <1>1 DEF PeerState, Phases
<1> HIDE DEF w
<1>3. SameCore(w, v) BY <1>2, ArmAuthCore
<1> HIDE DEF v
<1>4. SameCore(v, u) BY <1>3, ArmLeaseCore DEF SameCore
<1>5. Authenticated(s) = Done(u) BY DEF Authenticated, u, v, w
<1> HIDE DEF u
<1>6. /\ u \in PeerState /\ u.queue = s.queue /\ u.phase = "authenticated"
      /\ u.fanoutRetained = s.fanoutRetained /\ u.lease = s.lease
      /\ u.session # "none" <=> s.session # "none"
  BY <1>2, <1>3, <1>4 DEF SameCore
<1>7. MayEnd(u) BY <1>1, <1>6 DEF MayEnd, HeldOK
<1>8. Calm(u, Done(u)) /\ (HasClose(u) /\ u.queue[1].kind # "close" => HasClose(Done(u)))
  BY <1>7, EndsCalm
<1>9. HasClose(u) <=> HasClose(s) BY <1>6 DEF HasClose
<1> QED BY <1>1, <1>5, <1>6, <1>8, <1>9 DEF Calm, SameHold, Setup

\* Its session begins while what it holds at the services is not touched.
LEMMA ReadySentInv == ASSUME RoomInv, NEW p \in Peer, ReadySent(p) PROVE RoomInv'
<1> DEFINE s == peer[p]
<1>1. PeerOK(s) /\ s \in PeerState /\ Pt(s) = "ready" /\ s.queue # <<>>
  BY PeerIs, AtIs DEF ReadySent
<1>2. /\ UNCHANGED <<closing, retainers, subscription, serviceVars, maintenance, host, durable>>
      /\ faults' \in {faults, faults + 1}
  BY DEF ReadySent, Succeeds, Fails, bounds, logVars
<1>3. CASE Becomes(p, Authenticated(s)) /\ UNCHANGED fanoutQueue
  <2> DEFINE t == Authenticated(s)
  <2>1. /\ s.phase = "authenticating" /\ InMap(s)
        /\ Counts(s) <=> s.fanoutRetained
        /\ HasLease(s) <=> s.lease
        /\ HasSession(s) <=> s.session # "none"
    BY <1>1, SetupIs DEF SetupPoints
  <2>2. /\ PeerOK(t) /\ Pt(t) \in CalmPoints /\ t.phase = "authenticated"
        /\ t.fanoutRetained = s.fanoutRetained /\ t.lease = s.lease
        /\ t.session # "none" <=> s.session # "none"
        /\ HasClose(s) => HasClose(t)
    BY <1>1, <2>1, AuthenticatedIs DEF PeerOK
  <2> HIDE DEF t
  <2>3. Kept(s, t)
    BY <2>1, <2>2 DEF Kept, Counts, HasLease, HasSession, InMap, HoldPoints, CalmPoints
  <2>4. UNCHANGED <<roomVars, serviceVars, host>> /\ durable' \subseteq Batch
    BY <1>2, <1>3 DEF roomVars, RoomInv, ShapeOK
  <2> QED BY <1>2, <1>3, <2>3, <2>4, KeptAlone DEF t
<1>4. CASE FailSetup(p, s, fanoutQueue) \/ Resets(p, s, TRUE, fanoutQueue)
  BY <1>1, <1>2, <1>4, FailSetupInv DEF SetupPoints
<1> QED BY <1>3, <1>4 DEF ReadySent

\* A resumed session is in the book of the service before it is checked again.
LEMMA ResumeJobInv ==
  ASSUME RoomInv, NEW p \in Peer, At(p, "start"), peer[p].queue[1].kind = "resume",
         NEW role \in Sessions \ {"none"},
         Becomes(p, Goto([peer[p] EXCEPT !.session = role], "recheck")),
         sessions' = sessions \cup {p},
         UNCHANGED <<roomVars, live, leases, host, durable, faults>>
  PROVE  RoomInv'
<1> DEFINE s == peer[p]
           u == [s EXCEPT !.session = role]
           t == Goto(u, "recheck")
<1>1. PeerOK(s) /\ s \in PeerState /\ Pt(s) = "start" /\ s.queue # <<>>
  BY PeerIs, AtIs
<1>2. /\ s.phase = "authenticating" /\ InMap(s) /\ ~s.fanoutRetained /\ s.queue[1].kind \in Setup
      /\ Counts(s) <=> s.fanoutRetained
      /\ HasLease(s) <=> s.lease
  BY <1>1, SetupIs
<1>3. /\ u \in PeerState /\ u.queue = s.queue /\ u.phase = s.phase /\ u.open = s.open
      /\ u.leaveRequested = s.leaveRequested /\ u.fanoutRetained = s.fanoutRetained
      /\ u.lease = s.lease /\ u.session = role
  BY <1>1 DEF PeerState
<1> HIDE DEF u
<1>4. RunOK(u) BY <1>1, <1>2, <1>3 DEF PeerOK, RunOK, PhaseOK, HeldOK
<1>5. PeerOK(t) /\ SameRest(u, t) /\ Pt(t) = "recheck" /\ (HasClose(u) <=> HasClose(t))
  BY <1>1, <1>2, <1>3, <1>4, SetupGoto DEF SetupPoints
<1>6. HasClose(u) <=> HasClose(s) BY <1>3 DEF HasClose
<1>7. Becomes(p, t) BY DEF u
<1> HIDE DEF t
<1>8. /\ t.phase = s.phase /\ t.fanoutRetained = s.fanoutRetained /\ t.lease = s.lease
      /\ t.session # "none"
  BY <1>3, <1>5 DEF SameRest
<1>9. Moves(s, t) BY <1>2, <1>5, <1>6, <1>8 DEF Moves, InMap
<1>10. ShapeMoves BY DEF ShapeMoves, roomVars, RoomInv, ShapeOK
<1>11. ShapeOK' /\ PeersOK' /\ CloseOK' /\ MaintenanceOK' /\ OneMoves(p, t)
  BY <1>7, <1>9, <1>10, MovesInv
<1>12. /\ Counts(t) <=> Counts(s)
       /\ HasLease(t) <=> HasLease(s)
       /\ HasSession(t)
       /\ Pt(t) \notin HoldPoints
  BY <1>2, <1>5, <1>8 DEF Counts, HasLease, HasSession, HoldPoints
<1>13. ServicesOK' BY <1>11, <1>12, HeardInv DEF Heard
<1>14. LockOK'
  <2>1. LockGrows BY LockStays DEF roomVars
  <2> QED BY <1>11, <1>12, <2>1, GrowsInv DEF roomVars
<1>15. CountOK' BY <1>11, <1>12, SameCountInv DEF roomVars
<1> QED BY <1>11, <1>13, <1>14, <1>15 DEF RoomInv

LEMMA StartJobInv == ASSUME RoomInv, NEW p \in Peer, StartJob(p) PROVE RoomInv'
<1> DEFINE s == peer[p]
           kind == s.queue[1].kind
<1>1. At(p, "start") BY DEF StartJob
<1>2. /\ PeerOK(s) /\ s \in PeerState /\ Pt(s) = "start" /\ s.queue # <<>>
      /\ Running(s) = s.queue[1] /\ s.queue[1] \in Job /\ JobOK(s.queue[1])
  BY <1>1, PeerIs, AtIs
<1>3. UNCHANGED <<closing, retainers, subscription, maintenance, live, leases, host, durable, faults>>
  BY DEF StartJob, bounds, logVars
<1>4. kind \in {"resume", "event", "repair", "maintain", "reset", "close"}
  BY <1>2 DEF Job, JobOK, Pt
<1>5. CASE kind \in {"reset", "close"}
  <2>1. Resets(p, s, TRUE, fanoutQueue) /\ UNCHANGED sessions BY <1>2, <1>5 DEF StartJob
  <2>2. Pt(s) \notin ResetPoints BY <1>2 DEF ResetPoints
  <2> QED BY <1>2, <1>3, <2>1, <2>2, ResetBegins DEF serviceVars
<1>6. CASE kind = "resume"
  <2>1. /\ \E role \in Sessions \ {"none"} : Becomes(p, Goto([s EXCEPT !.session = role], "recheck"))
        /\ sessions' = sessions \cup {p}
        /\ UNCHANGED fanoutQueue
    BY <1>2, <1>6 DEF StartJob
  <2> QED BY <1>1, <1>3, <1>6, <2>1, ResumeJobInv DEF roomVars
<1>7. CASE kind \in {"event", "repair", "maintain"}
  <2> DEFINE active == s.phase = "authenticated" /\ ~s.leaveRequested
  <2>1. /\ Becomes(p, MaintainPeer(s)) \/ Becomes(p, Continue(s, active))
        /\ UNCHANGED <<fanoutQueue, sessions>>
    BY <1>2, <1>7 DEF StartJob
  <2>2. Busy(s) BY <1>2, <1>7, BusyIs DEF CalmPoints
  <2>3. active \in BOOLEAN OBVIOUS
  <2> HIDE DEF active
  <2>4. /\ Calm(s, MaintainPeer(s)) /\ (HasClose(s) => HasClose(MaintainPeer(s)))
        /\ Calm(s, Continue(s, active)) /\ (HasClose(s) => HasClose(Continue(s, active)))
    BY <1>7, <2>2, <2>3, MaintainPeerCalm, ContinueCalm DEF Busy
  <2>5. Kept(s, MaintainPeer(s)) /\ Kept(s, Continue(s, active))
    BY <1>2, <2>4, KeptSelf, CalmKept DEF CalmPoints
  <2>6. /\ UNCHANGED <<roomVars, serviceVars, host>> /\ durable' \subseteq Batch
        /\ faults' \in {faults, faults + 1}
    BY <1>3, <2>1 DEF roomVars, serviceVars, RoomInv, ShapeOK
  <2> QED BY <2>1, <2>5, <2>6, KeptAlone
<1> QED BY <1>4, <1>5, <1>6, <1>7

-----------------------------------------------------------------------------
(* The lock.                                                               *)

LEMMA ResetMoves ==
  ASSUME NEW s, NEW u, NEW t, u.phase = s.phase, HasClose(s) => HasClose(u), ResetTo(u, t)
  PROVE  Moves(s, t) /\ Pt(t) \notin HoldPoints /\ ~t.fanoutRetained
<1>1. PeerOK(t) /\ (InMap(t) => InMap(s)) /\ (InMap(t) /\ HasClose(s) => HasClose(t))
  BY DEF ResetTo, InMap
<1>2. s.phase \in {"authenticated", "left"} => t.phase \in {"authenticated", "left"}
  BY <1>1 DEF ResetTo, InMap
<1>3. Pt(t) \notin HoldPoints BY DEF ResetTo, ResetPoints, HoldPoints, CalmPoints
<1> QED BY <1>1, <1>2, <1>3 DEF Moves, ResetTo

LEMMA InsideNotLate == ASSUME RoomInv, NEW p \in Peer, InMap(peer[p]) PROVE ~Late
BY DEF RoomInv, CloseOK

\* Nobody counts while the count is zero, or when everyone is outside.
LEMMA NobodyCounts ==
  ASSUME RoomInv, Late \/ retainers = 0
  PROVE  \A p \in Peer : ~Counts(peer[p])
<1>1. CASE Late
  <2> TAKE p \in Peer
  <2>1. PeerOK(peer[p]) /\ ~InMap(peer[p]) BY <1>1, PeerIs DEF RoomInv, CloseOK
  <2> QED BY <2>1 DEF PeerOK, RunOK, PhaseOK, HeldOK, HoldsOK, InMap, Counts, ResetPoints
<1>2. CASE ~Late /\ retainers = 0
  BY <1>2, CountingIs DEF RoomInv, CountOK, CountingPeers
<1> QED BY <1>1, <1>2

LEMMA LockTail ==
  ASSUME RoomInv, NEW x, HoldsLock(x)
  PROVE  /\ Tail(fanoutQueue) \in Seq(Peer \cup {Room})
         /\ \A q \in Peer : Append(Tail(fanoutQueue), q) \in Seq(Peer \cup {Room})
BY DEF RoomInv, ShapeOK, HoldsLock

\* A step of the holder that neither counts nor stops to count.
LEMMA HolderMoves ==
  ASSUME RoomInv, NEW p \in Peer, NEW t, HoldsLock(p), Moves(peer[p], t), Becomes(p, t),
         Heard(p, peer[p], t), Counts(t) <=> Counts(peer[p]), ShapeMoves,
         UNCHANGED <<retainers, subscription, live>>,
         Pt(t) \in HoldPoints => /\ fanoutQueue' = fanoutQueue /\ retainers = 0
                                 /\ Pt(t) = "subscribe" => subscription = None
  PROVE  RoomInv'
<1>1. ShapeOK' /\ PeersOK' /\ CloseOK' /\ MaintenanceOK' /\ OneMoves(p, t) BY MovesInv
<1>2. ServicesOK' BY <1>1, HeardInv
<1>3. LockOK' BY <1>1, HolderInv DEF ShapeMoves
<1>4. CountOK' BY <1>1, SameCountInv DEF ShapeMoves
<1> QED BY <1>1, <1>2, <1>3, <1>4 DEF RoomInv

LEMMA AcquiredInv == ASSUME RoomInv, NEW p \in Peer, Acquired(p) PROVE RoomInv'
<1> DEFINE s == peer[p]
           u == [s EXCEPT !.lease = TRUE]
<1>1. /\ PeerOK(s) /\ s \in PeerState /\ Pt(s) = "acquire" /\ s.queue # <<>>
      /\ Running(s) = s.queue[1]
  BY PeerIs, AtIs DEF Acquired
<1>2. /\ UNCHANGED <<closing, retainers, subscription, live, sessions, maintenance, host, durable>>
      /\ faults' \in {faults, faults + 1}
  BY DEF Acquired, Succeeds, Fails, bounds, logVars
<1>3. /\ s.phase = "authenticating" /\ InMap(s) /\ ~s.fanoutRetained /\ s.queue[1].kind \in Setup
      /\ Counts(s) <=> s.fanoutRetained
      /\ HasSession(s) <=> s.session # "none"
  BY <1>1, SetupIs DEF SetupPoints
<1>4. ASSUME NEW t, Moves(s, t), Becomes(p, t), leases' = leases \cup {p}, HasLease(t), LockGrows,
             HasSession(t) <=> HasSession(s), ~Counts(t), Pt(t) \notin HoldPoints
      PROVE  RoomInv'
  <2>1. ShapeMoves BY <1>2, <1>4 DEF ShapeMoves, LockGrows, RoomInv, ShapeOK
  <2>2. ShapeOK' /\ PeersOK' /\ CloseOK' /\ MaintenanceOK' /\ OneMoves(p, t)
    BY <1>4, <2>1, MovesInv
  <2>3. ServicesOK' BY <1>2, <1>4, <2>2, HeardInv DEF Heard
  <2>4. LockOK' BY <1>2, <1>4, <2>2, GrowsInv
  <2>5. CountOK' BY <1>2, <1>3, <1>4, <2>2, SameCountInv
  <2> QED BY <2>2, <2>3, <2>4, <2>5 DEF RoomInv
<1>5. /\ u \in PeerState /\ u.queue = s.queue /\ u.phase = s.phase /\ u.open = s.open
      /\ u.leaveRequested = s.leaveRequested /\ ~u.fanoutRetained
      /\ u.lease = TRUE /\ u.session = s.session
  BY <1>1, <1>3 DEF PeerState
<1>6. CASE /\ leases' = leases \cup {p}
           /\ IF Leaving(u)
              THEN Resets(p, u, TRUE, fanoutQueue)
              ELSE /\ Becomes(p, Goto(u, "fanout-lock"))
                   /\ fanoutQueue' = Append(fanoutQueue, p)
  <2> HIDE DEF u
  <2>1. RunOK(u) BY <1>1, <1>3, <1>5 DEF PeerOK, RunOK, PhaseOK, HeldOK
  <2>2. HasClose(u) <=> HasClose(s) BY <1>5 DEF HasClose
  <2>3. CASE Leaving(u)
    <3> DEFINE t == StartReset(u, TRUE)
    <3>1. ResetTo(u, t) /\ (Pt(t) = "release-lock" <=> u.fanoutRetained)
      BY <1>1, <1>5, <2>1, StartResetIs
    <3>2. Becomes(p, t) /\ fanoutQueue' = fanoutQueue BY <1>5, <1>6, <2>3 DEF Resets
    <3> HIDE DEF t
    <3>3. Moves(s, t) /\ Pt(t) \notin HoldPoints /\ ~t.fanoutRetained BY <1>5, <2>2, <3>1, ResetMoves
    <3>4. HasLease(t) /\ (HasSession(t) <=> HasSession(s)) /\ ~Counts(t)
      BY <1>3, <1>5, <3>1, <3>3 DEF ResetTo, Counts
    <3>5. LockGrows BY <3>2, LockStays
    <3> QED BY <1>4, <1>6, <3>2, <3>3, <3>4, <3>5
  <2>4. CASE ~Leaving(u)
    <3> DEFINE t == Goto(u, "fanout-lock")
    <3>1. PeerOK(t) /\ SameRest(u, t) /\ Pt(t) = "fanout-lock" /\ (HasClose(u) <=> HasClose(t))
      BY <1>1, <1>3, <1>5, <2>1, SetupGoto DEF SetupPoints
    <3>2. Becomes(p, t) /\ fanoutQueue' = Append(fanoutQueue, p) BY <1>6, <2>4
    <3> HIDE DEF t
    <3>3. Moves(s, t) BY <1>3, <1>5, <2>2, <3>1 DEF Moves, SameRest, InMap
    <3>4. /\ HasLease(t) /\ (HasSession(t) <=> HasSession(s)) /\ ~Counts(t)
          /\ Pt(t) \notin HoldPoints
      BY <1>3, <1>5, <3>1 DEF SameRest, HasLease, HasSession, Counts, HoldPoints
    <3>5. LockGrows BY <3>2, LockAppends
    <3> QED BY <1>4, <1>6, <3>2, <3>3, <3>4, <3>5
  <2> QED BY <2>3, <2>4
<1>7. CASE /\ FailSetup(p, s, fanoutQueue) \/ Resets(p, ClosePeer(s), TRUE, fanoutQueue)
           /\ UNCHANGED leases
  BY <1>1, <1>2, <1>7, FailSetupInv DEF SetupPoints, serviceVars
<1> QED BY <1>6, <1>7 DEF Acquired

\* Retaining the fan-out adds one to the count, whatever comes of the session.
LEMMA RetainedInv ==
  ASSUME RoomInv, NEW p \in Peer, HoldsLock(p), peer[p].queue # <<>>,
         Pt(peer[p]) \in {"fanout-lock", "subscribe"}, Retained(p),
         subscription' \in Subscription, live' = {subscription'},
         UNCHANGED <<closing, maintenance, leases, host, durable, faults>>
  PROVE  RoomInv'
<1> DEFINE s == peer[p]
           u == [s EXCEPT !.fanoutRetained = TRUE]
           lock == Tail(fanoutQueue)
<1>1. PeerOK(s) /\ s \in PeerState BY PeerIs
<1>2. /\ s.phase = "authenticating" /\ InMap(s) /\ s.queue[1].kind \in Setup
      /\ ~s.fanoutRetained /\ ~Counts(s)
      /\ HasLease(s) <=> s.lease
      /\ HasSession(s) <=> s.session # "none"
  BY <1>1, SetupIs DEF SetupPoints
<1>3. /\ u \in PeerState /\ u.queue = s.queue /\ u.phase = s.phase /\ u.open = s.open
      /\ u.leaveRequested = s.leaveRequested /\ u.fanoutRetained
      /\ u.lease = s.lease /\ u.session = s.session
  BY <1>1 DEF PeerState
<1>4. retainers' = retainers + 1 /\ retainers \in Nat BY DEF Retained, RoomInv, ShapeOK
<1>5. /\ lock \in Seq(Peer \cup {Room}) /\ Append(lock, p) \in Seq(Peer \cup {Room})
  BY LockTail
<1>6. /\ \/ Leaving(u) /\ Resets(p, u, TRUE, lock) /\ UNCHANGED sessions
         \/ /\ fanoutQueue' = lock
            /\ Becomes(p, Authenticated(u)) /\ UNCHANGED sessions
         \/ /\ fanoutQueue' = lock
            /\ \E role \in Sessions \ {"none"} : Becomes(p, Goto([u EXCEPT !.session = role], "ready"))
            /\ sessions' = sessions \cup {p}
  BY DEF Retained
<1>7. RunOK(u)
  <2> HIDE DEF u
  <2> QED BY <1>1, <1>2, <1>3 DEF PeerOK, RunOK, PhaseOK, HeldOK
<1>8. HasClose(u) <=> HasClose(s)
  <2> HIDE DEF u
  <2> QED BY <1>3 DEF HasClose
<1> HIDE DEF u, lock
<1>9. ~Late BY <1>2, InsideNotLate
<1>10. ASSUME NEW t, Moves(s, t), Becomes(p, t), Heard(p, s, t), Counts(t), Pt(t) \notin HoldPoints,
              fanoutQueue' \in Seq(Peer \cup {Room})
       PROVE  RoomInv'
  <2>1. ShapeMoves BY <1>4, <1>10 DEF ShapeMoves
  <2>2. ShapeOK' /\ PeersOK' /\ CloseOK' /\ MaintenanceOK' /\ OneMoves(p, t) BY <1>10, <2>1, MovesInv
  <2>3. ServicesOK' BY <1>10, <2>2, HeardInv
  <2>4. LockOK' BY <1>10, <2>2, HolderInv
  <2>5. CountOK'
    <3>1. Cardinality(CountingPeers') = Cardinality(CountingPeers) + 1
      BY <1>2, <1>10, <2>2, CountMoves
    <3>2. retainers' = Cardinality(CountingPeers')
      BY <1>4, <1>9, <3>1 DEF RoomInv, CountOK, CountingPeers
    <3>3. subscription' # None BY RoomAssumption
    <3>4. closing' # "closed" BY <1>9 DEF Late
    <3> QED BY <3>2, <3>3, <3>4 DEF CountOK, CountingPeers
  <2> QED BY <2>2, <2>3, <2>4, <2>5 DEF RoomInv
<1>11. CASE Resets(p, u, TRUE, lock) /\ UNCHANGED sessions
  <2> DEFINE t == StartReset(u, TRUE)
  <2>1. ResetTo(u, t) /\ (Pt(t) = "release-lock" <=> u.fanoutRetained)
    BY <1>3, <1>7, StartResetIs
  <2>2. Becomes(p, t) /\ fanoutQueue' = Append(lock, p) BY <1>3, <1>11 DEF Resets
  <2> HIDE DEF t
  <2>3. Moves(s, t) /\ Pt(t) \notin HoldPoints BY <1>3, <1>8, <2>1, ResetMoves
  <2>4. Counts(t) BY <1>3, <2>1 DEF Counts
  <2>5. Heard(p, s, t) BY <1>2, <1>3, <1>11, <2>1 DEF ResetTo, Heard
  <2> QED BY <1>5, <1>10, <2>2, <2>3, <2>4, <2>5
<1>12. CASE fanoutQueue' = lock /\ Becomes(p, Authenticated(u)) /\ UNCHANGED sessions
  <2> DEFINE t == Authenticated(u)
  <2>1. /\ PeerOK(t) /\ Pt(t) \in CalmPoints /\ t.phase = "authenticated"
        /\ t.fanoutRetained = u.fanoutRetained /\ t.lease = u.lease
        /\ t.session # "none" <=> u.session # "none"
        /\ HasClose(u) => HasClose(t)
    BY <1>2, <1>3, <1>7, AuthenticatedIs
  <2> HIDE DEF t
  <2>2. Moves(s, t) BY <1>2, <1>8, <2>1 DEF Moves, InMap
  <2>3. Counts(t) /\ Pt(t) \notin HoldPoints BY <1>3, <2>1 DEF Counts, CalmPoints, HoldPoints
  <2>4. Heard(p, s, t)
    BY <1>2, <1>3, <1>12, <2>1 DEF Heard, HasLease, HasSession, CalmPoints
  <2> QED BY <1>5, <1>10, <1>12, <2>2, <2>3, <2>4 DEF t
<1>13. ASSUME NEW role \in Sessions \ {"none"}, fanoutQueue' = lock, sessions' = sessions \cup {p},
              Becomes(p, Goto([u EXCEPT !.session = role], "ready"))
       PROVE  RoomInv'
  <2> DEFINE w == [u EXCEPT !.session = role]
             t == Goto(w, "ready")
  <2>1. /\ w \in PeerState /\ w.queue = s.queue /\ w.phase = s.phase /\ w.open = s.open
        /\ w.leaveRequested = s.leaveRequested /\ w.fanoutRetained
        /\ w.lease = s.lease /\ w.session = role
    BY <1>3 DEF PeerState
  <2> HIDE DEF w
  <2>2. RunOK(w) BY <1>1, <1>2, <2>1 DEF PeerOK, RunOK, PhaseOK, HeldOK
  <2>3. PeerOK(t) /\ SameRest(w, t) /\ Pt(t) = "ready" /\ (HasClose(w) <=> HasClose(t))
    BY <1>2, <2>1, <2>2, SetupGoto DEF SetupPoints
  <2>4. HasClose(w) <=> HasClose(s) BY <2>1 DEF HasClose
  <2>5. Becomes(p, t) BY <1>13 DEF w
  <2> HIDE DEF t
  <2>6. Moves(s, t) BY <1>2, <2>1, <2>3, <2>4 DEF Moves, SameRest, InMap
  <2>7. Counts(t) /\ Pt(t) \notin HoldPoints BY <2>1, <2>3 DEF Counts, SameRest, HoldPoints
  <2>8. Heard(p, s, t)
    BY <1>2, <1>13, <2>1, <2>3 DEF Heard, HasLease, HasSession, SameRest
  <2> QED BY <1>5, <1>10, <1>13, <2>5, <2>6, <2>7, <2>8
<1> QED BY <1>6, <1>11, <1>12, <1>13

\* The holder goes on to a point that the lock protects.
LEMMA LockGoto ==
  ASSUME RoomInv, NEW p \in Peer, HoldsLock(p), peer[p].queue # <<>>,
         Pt(peer[p]) \in {"fanout-lock", "drop-stale"}, NEW point \in {"drop-stale", "subscribe"}
  PROVE  LET t == Goto(peer[p], point) IN
         /\ Moves(peer[p], t) /\ Pt(t) = point
         /\ ~Counts(peer[p]) /\ ~Counts(t)
         /\ HasLease(t) <=> HasLease(peer[p])
         /\ HasSession(t) <=> HasSession(peer[p])
<1> DEFINE s == peer[p]
           t == Goto(s, point)
<1>1. PeerOK(s) /\ s \in PeerState BY PeerIs
<1>2. /\ s.phase = "authenticating" /\ InMap(s) /\ ~s.fanoutRetained /\ ~Counts(s)
      /\ HasLease(s) <=> s.lease
      /\ HasSession(s) <=> s.session # "none"
  BY <1>1, SetupIs DEF SetupPoints
<1>3. PeerOK(t) /\ SameRest(s, t) /\ Pt(t) = point /\ (HasClose(s) <=> HasClose(t))
  BY <1>1, <1>2, SetupGoto DEF SetupPoints, PeerOK
<1> HIDE DEF t
<1> QED BY <1>2, <1>3 DEF Moves, SameRest, InMap, Counts, HasLease, HasSession, t

LEMMA RetainFanoutInv == ASSUME RoomInv, NEW p \in Peer, RetainFanout(p) PROVE RoomInv'
<1> DEFINE s == peer[p]
<1>1. /\ PeerOK(s) /\ s \in PeerState /\ Pt(s) = "fanout-lock" /\ s.queue # <<>> /\ HoldsLock(p)
  BY PeerIs, AtIs DEF RetainFanout
<1>2. UNCHANGED <<closing, subscription, maintenance, live, leases, host, durable, faults>>
  BY DEF RetainFanout, logVars, bounds
<1>3. InMap(s) BY <1>1, SetupIs DEF SetupPoints
<1>4. CASE retainers > 0
  <2>1. Retained(p) BY <1>4 DEF RetainFanout
  <2>2. \E q \in Peer : Counts(peer[q])
    BY <1>3, <1>4, InsideNotLate, CountingIs DEF RoomInv, CountOK, CountingPeers
  <2>3. subscription # None /\ subscription \in Subscription /\ live = {subscription}
    BY <2>2 DEF RoomInv, CountOK, ShapeOK
  <2> QED BY <1>1, <1>2, <2>1, <2>3, RetainedInv
<1>5. CASE ~(retainers > 0)
  <2>1. retainers = 0 BY <1>5 DEF RoomInv, ShapeOK
  <2> DEFINE point == IF subscription = None THEN "subscribe" ELSE "drop-stale"
             t == Goto(s, point)
  <2>2. Becomes(p, t) /\ UNCHANGED <<fanoutQueue, retainers, sessions>> BY <1>5 DEF RetainFanout
  <2>3. /\ Moves(s, t) /\ Pt(t) = point
        /\ ~Counts(s) /\ ~Counts(t)
        /\ HasLease(t) <=> HasLease(s)
        /\ HasSession(t) <=> HasSession(s)
    BY <1>1, LockGoto
  <2> HIDE DEF t
  <2>4. Heard(p, s, t) BY <1>2, <2>2, <2>3 DEF Heard
  <2>5. ShapeMoves BY <1>2, <2>2 DEF ShapeMoves, RoomInv, ShapeOK
  <2> QED BY <1>1, <1>2, <2>1, <2>2, <2>3, <2>4, <2>5, HolderMoves
<1> QED BY <1>4, <1>5

\* A setup that fails in the lock passes it on.
LEMMA FailInLock ==
  ASSUME RoomInv, NEW p \in Peer, peer[p].queue # <<>>, Pt(peer[p]) \in {"drop-stale", "subscribe"},
         FailSetup(p, peer[p], Tail(fanoutQueue)),
         UNCHANGED <<closing, retainers, subscription, serviceVars, maintenance, host, durable>>,
         faults' \in {faults, faults + 1}
  PROVE  RoomInv'
<1> DEFINE s == peer[p]
<1>1. PeerOK(s) /\ s \in PeerState BY PeerIs
<1>2. HoldsLock(p) BY DEF RoomInv, LockOK, HoldPoints
<1>3. /\ s.queue[1].kind \in Setup /\ ~s.fanoutRetained /\ ~Counts(s)
      /\ HasLease(s) <=> s.lease
      /\ HasSession(s) <=> s.session # "none"
  BY <1>1, SetupIs DEF SetupPoints
<1>4. Running(s) = s.queue[1] BY <1>1, HeadIsJob
<1>5. ASSUME NEW u \in {s, ClosePeer([s EXCEPT !.leaveRequested = TRUE])},
             NEW remove \in BOOLEAN, ~remove => s.queue[1].kind = "auth",
             Resets(p, u, remove, Tail(fanoutQueue))
      PROVE  RoomInv'
  <2> DEFINE t == StartReset(u, remove)
  <2>1. /\ u \in PeerState /\ u.queue = s.queue /\ u.phase = s.phase /\ (u.open => s.open)
        /\ u.fanoutRetained = s.fanoutRetained /\ u.lease = s.lease
        /\ u.session = s.session /\ (s.leaveRequested => u.leaveRequested)
    BY <1>1, <1>5 DEF PeerState, ClosePeer
  <2>2. PeerOK(u) /\ (HasClose(u) <=> HasClose(s)) BY <1>1, <2>1, ToldToGo
  <2>3. ResetTo(u, t) /\ (Pt(t) = "release-lock" <=> u.fanoutRetained)
    BY <1>5, <2>1, <2>2, StartResetIs DEF PeerOK
  <2>4. Becomes(p, t) /\ fanoutQueue' = Tail(fanoutQueue) BY <1>3, <1>5, <2>1 DEF Resets
  <2> HIDE DEF t
  <2>5. Moves(s, t) /\ Pt(t) \notin HoldPoints /\ ~t.fanoutRetained BY <2>1, <2>2, <2>3, ResetMoves
  <2>6. ~Counts(t) BY <1>3, <2>1, <2>3, <2>5 DEF Counts
  <2>7. Heard(p, s, t) BY <1>3, <2>1, <2>3 DEF ResetTo, Heard, serviceVars
  <2>8. ShapeMoves BY <1>2, <2>4, LockTail DEF ShapeMoves, RoomInv, ShapeOK
  <2> QED BY <1>2, <1>3, <2>4, <2>5, <2>6, <2>7, <2>8, HolderMoves DEF serviceVars
<1>6. CASE s.queue[1].kind = "resume"
  <2>1. Resets(p, ClosePeer([s EXCEPT !.leaveRequested = TRUE]), TRUE, Tail(fanoutQueue))
    BY <1>4, <1>6 DEF FailSetup
  <2> QED BY <1>5, <2>1
<1>7. CASE s.queue[1].kind # "resume"
  <2>1. s.queue[1].kind = "auth" BY <1>3, <1>7 DEF Setup
  <2>2. Resets(p, s, Leaving(s), Tail(fanoutQueue)) BY <1>4, <1>7 DEF FailSetup
  <2>3. Leaving(s) \in BOOLEAN BY DEF Leaving
  <2> QED BY <1>5, <2>1, <2>2, <2>3
<1> QED BY <1>6, <1>7

\* Dropping the subscription while nobody counts.
LEMMA DropMoves ==
  ASSUME RoomInv, NEW p \in Peer, NEW t, HoldsLock(p), retainers = 0, Moves(peer[p], t),
         Becomes(p, t), Heard(p, peer[p], t), ~Counts(t), Dropped(subscription), ShapeMoves,
         UNCHANGED retainers, closing # "closed",
         Pt(t) \in HoldPoints => fanoutQueue' = fanoutQueue
  PROVE  RoomInv'
<1>1. ShapeOK' /\ PeersOK' /\ CloseOK' /\ MaintenanceOK' /\ OneMoves(p, t) BY MovesInv
<1>2. ServicesOK' BY <1>1, HeardInv
<1>3. subscription' = None /\ live' = {} BY DEF Dropped, RoomInv, CountOK
<1>4. LockOK' BY <1>1, <1>3, HolderInv DEF ShapeMoves
<1>5. \A q \in Peer : ~Counts(peer[q]) /\ ~Counts(peer'[q]) BY <1>1, NobodyCounts DEF OneMoves
<1>6. CountingPeers' = CountingPeers BY <1>5 DEF CountingPeers
<1>7. CountOK'
  BY <1>3, <1>5, <1>6 DEF RoomInv, CountOK, Late, ShapeMoves, CountingPeers
<1> QED BY <1>1, <1>2, <1>4, <1>7 DEF RoomInv

LEMMA StaleDroppedInv == ASSUME RoomInv, NEW p \in Peer, StaleDropped(p) PROVE RoomInv'
<1> DEFINE s == peer[p]
           t == Goto(s, "subscribe")
<1>1. /\ PeerOK(s) /\ s \in PeerState /\ Pt(s) = "drop-stale" /\ s.queue # <<>>
  BY PeerIs, AtIs DEF StaleDropped
<1>2. HoldsLock(p) /\ retainers = 0 BY <1>1 DEF RoomInv, LockOK, HoldPoints
<1>3. InMap(s) BY <1>1, SetupIs DEF SetupPoints
<1>4. UNCHANGED <<closing, retainers, maintenance, leases, sessions>> BY DEF StaleDropped
<1>5. CASE Succeeds /\ Dropped(subscription) /\ Becomes(p, t) /\ UNCHANGED fanoutQueue
  <2>1. /\ Moves(s, t) /\ ~Counts(t)
        /\ HasLease(t) <=> HasLease(s)
        /\ HasSession(t) <=> HasSession(s)
    BY <1>1, <1>2, LockGoto
  <2> HIDE DEF t
  <2>2. Heard(p, s, t) BY <1>4, <2>1 DEF Heard
  <2>3. ShapeMoves BY <1>4, <1>5 DEF Succeeds, bounds, Dropped, ShapeMoves, RoomInv, ShapeOK
  <2>4. closing # "closed" BY <1>3, InsideNotLate DEF Late
  <2> QED BY <1>2, <1>4, <1>5, <2>1, <2>2, <2>3, <2>4, DropMoves
<1>6. CASE Fails /\ FailSetup(p, s, Tail(fanoutQueue)) /\ UNCHANGED <<live, subscription, logVars>>
  BY <1>1, <1>4, <1>6, FailInLock DEF Fails, logVars, serviceVars
<1> QED BY <1>5, <1>6 DEF StaleDropped

LEMMA SubscribedInv == ASSUME RoomInv, NEW p \in Peer, Subscribed(p) PROVE RoomInv'
<1> DEFINE s == peer[p]
<1>1. /\ PeerOK(s) /\ s \in PeerState /\ Pt(s) = "subscribe" /\ s.queue # <<>>
  BY PeerIs, AtIs DEF Subscribed
<1>2. HoldsLock(p) /\ subscription = None BY <1>1 DEF RoomInv, LockOK, HoldPoints
<1>3. live = {} BY <1>2 DEF RoomInv, CountOK
<1>4. UNCHANGED <<closing, maintenance, leases, logVars>> BY DEF Subscribed
<1>5. ASSUME Succeeds, Retained(p),
             \E x \in Subscription \ live : subscription' = x /\ live' = live \cup {x}
      PROVE  RoomInv'
  <2>1. subscription' \in Subscription /\ live' = {subscription'} BY <1>3, <1>5
  <2>2. UNCHANGED <<closing, maintenance, leases, host, durable, faults>>
    BY <1>4, <1>5 DEF Succeeds, bounds, logVars
  <2> QED BY <1>1, <1>2, <1>5, <2>1, <2>2, RetainedInv
<1>6. CASE /\ Fails /\ FailSetup(p, s, Tail(fanoutQueue))
           /\ UNCHANGED <<subscription, live, retainers, sessions>>
  BY <1>1, <1>4, <1>6, FailInLock DEF Fails, logVars, serviceVars
<1> QED BY <1>5, <1>6 DEF Subscribed

-----------------------------------------------------------------------------
(* A reset, from one await to the next.                                    *)

LEMMA InResetIs ==
  ASSUME NEW s, PeerOK(s), s.queue # <<>>, Pt(s) \in ResetPoints
  PROVE  /\ ~s.fanoutRetained /\ s.phase \in {"authenticating", "authenticated"} /\ InMap(s)
         /\ Counts(s) <=> Pt(s) = "release-lock"
         /\ Pt(s) \notin {"lease-release", "session-end"} => (HasLease(s) <=> s.lease)
         /\ Pt(s) # "session-end" => (HasSession(s) <=> s.session # "none")
         /\ Pt(s) \in {"lease-release", "session-end"} => ~s.lease
         /\ Pt(s) = "session-end" => s.session = "none" /\ ~HasLease(s)
BY DEF PeerOK, HoldsOK, InMap, Counts, HasLease, HasSession

\* After the lock the lease is next.
LEMMA LeaseIsNext ==
  ASSUME NEW p, NEW s, PeerOK(s), s.queue # <<>>, Pt(s) \in {"release-lock", "unsubscribe"},
         leases' = leases, sessions' = sessions
  PROVE  LET t == ReleaseLease(s) IN
         Moves(s, t) /\ Heard(p, s, t) /\ ~Counts(t) /\ Pt(t) \notin HoldPoints
<1> DEFINE t == ReleaseLease(s)
<1>1. ~s.fanoutRetained /\ (HasLease(s) <=> s.lease) /\ (HasSession(s) <=> s.session # "none")
  BY InResetIs DEF ResetPoints
<1>2. ResetTo(s, t) /\ Pt(t) # "release-lock" BY <1>1, ReleaseLeaseIs DEF PeerOK
<1> HIDE DEF t
<1>3. Moves(s, t) /\ Pt(t) \notin HoldPoints /\ ~t.fanoutRetained BY <1>2, ResetMoves
<1>4. ~Counts(t) BY <1>2, <1>3 DEF Counts
<1>5. Heard(p, s, t) BY <1>1, <1>2 DEF Heard, ResetTo
<1> QED BY <1>3, <1>4, <1>5 DEF t

LEMMA ReleaseFanoutInv == ASSUME RoomInv, NEW p \in Peer, ReleaseFanout(p) PROVE RoomInv'
<1> DEFINE s == peer[p]
<1>1. /\ PeerOK(s) /\ s \in PeerState /\ Pt(s) = "release-lock" /\ s.queue # <<>> /\ HoldsLock(p)
  BY PeerIs, AtIs DEF ReleaseFanout
<1>2. /\ ~s.fanoutRetained /\ s.phase \in {"authenticating", "authenticated"} /\ InMap(s) /\ Counts(s)
      /\ HasLease(s) <=> s.lease
      /\ HasSession(s) <=> s.session # "none"
  BY <1>1, InResetIs DEF ResetPoints
<1>3. ~Late BY <1>2, InsideNotLate
<1>4. /\ UNCHANGED <<closing, subscription, maintenance, live, leases, sessions, durable, host, faults>>
      /\ retainers' = IF retainers = 0 THEN 0 ELSE retainers - 1
  BY DEF ReleaseFanout, serviceVars, logVars, bounds
<1>5. /\ retainers = Cardinality(CountingPeers) /\ retainers # 0 /\ retainers \in Nat
      /\ retainers' = retainers - 1 /\ retainers' \in Nat
  BY <1>2, <1>3, <1>4, CountingIs DEF RoomInv, CountOK, ShapeOK, CountingPeers
<1>6. ASSUME NEW t, Moves(s, t), Becomes(p, t), Heard(p, s, t), ~Counts(t),
             fanoutQueue' \in Seq(Peer \cup {Room}),
             Pt(t) \in HoldPoints => /\ Pt(t) = "unsubscribe" /\ fanoutQueue' = fanoutQueue
                                     /\ retainers' = 0
      PROVE  RoomInv'
  <2>1. ShapeMoves BY <1>4, <1>5, <1>6 DEF ShapeMoves, RoomInv, ShapeOK
  <2>2. ShapeOK' /\ PeersOK' /\ CloseOK' /\ MaintenanceOK' /\ OneMoves(p, t) BY <1>6, <2>1, MovesInv
  <2>3. ServicesOK' BY <1>6, <2>2, HeardInv
  <2>4. LockOK' BY <1>1, <1>4, <1>6, <2>2, HolderInv
  <2>5. CountOK'
    <3>1. Cardinality(CountingPeers') = Cardinality(CountingPeers) - 1
      BY <1>2, <1>6, <2>2, CountMoves
    <3>2. \A q \in Peer : Counts(peer'[q]) => Counts(peer[q]) BY <1>2, <2>2 DEF OneMoves
    <3>3. closing' # "closed" BY <1>3, <1>4 DEF Late
    <3> QED BY <1>4, <1>5, <3>1, <3>2, <3>3 DEF RoomInv, CountOK, CountingPeers
  <2> QED BY <2>2, <2>3, <2>4, <2>5 DEF RoomInv
<1>7. CASE retainers' = 0 /\ subscription # None
  <2> DEFINE t == Goto(s, "unsubscribe")
  <2>1. Becomes(p, t) /\ UNCHANGED fanoutQueue BY <1>7 DEF ReleaseFanout
  <2>2. PeerOK(t) /\ SameRest(s, t) /\ Pt(t) = "unsubscribe" /\ (HasClose(s) <=> HasClose(t))
    BY <1>1, <1>2, ResetGoto DEF PeerOK, ResetPoints
  <2> HIDE DEF t
  <2>3. Moves(s, t) BY <1>2, <2>2 DEF Moves, SameRest, InMap
  <2>4. ~Counts(t) BY <1>2, <2>2 DEF Counts, SameRest
  <2>5. Heard(p, s, t) BY <1>2, <1>4, <2>2 DEF Heard, SameRest, HasLease, HasSession
  <2>6. fanoutQueue' \in Seq(Peer \cup {Room}) BY <2>1 DEF RoomInv, ShapeOK
  <2> QED BY <1>6, <1>7, <2>1, <2>2, <2>3, <2>4, <2>5, <2>6
<1>8. CASE ~(retainers' = 0 /\ subscription # None)
  <2> DEFINE t == ReleaseLease(s)
  <2>1. Becomes(p, t) /\ fanoutQueue' = Tail(fanoutQueue) BY <1>8 DEF ReleaseFanout
  <2>2. Moves(s, t) /\ Heard(p, s, t) /\ ~Counts(t) /\ Pt(t) \notin HoldPoints
    BY <1>1, <1>4, LeaseIsNext
  <2> HIDE DEF t
  <2>3. fanoutQueue' \in Seq(Peer \cup {Room}) BY <1>1, <2>1, LockTail
  <2> QED BY <1>6, <2>1, <2>2, <2>3
<1> QED BY <1>7, <1>8

LEMMA UnsubscribedInv == ASSUME RoomInv, NEW p \in Peer, Unsubscribed(p) PROVE RoomInv'
<1> DEFINE s == peer[p]
           t == ReleaseLease(s)
<1>1. /\ PeerOK(s) /\ s \in PeerState /\ Pt(s) = "unsubscribe" /\ s.queue # <<>>
  BY PeerIs, AtIs DEF Unsubscribed
<1>2. HoldsLock(p) /\ retainers = 0 BY <1>1 DEF RoomInv, LockOK, HoldPoints
<1>3. InMap(s) /\ ~Counts(s) BY <1>1, InResetIs DEF ResetPoints
<1>4. /\ UNCHANGED <<closing, retainers, maintenance, leases, sessions>>
      /\ Becomes(p, t) /\ fanoutQueue' = Tail(fanoutQueue)
  BY DEF Unsubscribed
<1>5. Moves(s, t) /\ Heard(p, s, t) /\ ~Counts(t) /\ Pt(t) \notin HoldPoints
  BY <1>1, <1>4, LeaseIsNext
<1> HIDE DEF t
<1>6. fanoutQueue' \in Seq(Peer \cup {Room}) BY <1>2, <1>4, LockTail
<1>7. CASE Succeeds /\ Dropped(subscription)
  <2>1. ShapeMoves BY <1>4, <1>6, <1>7 DEF Succeeds, bounds, Dropped, ShapeMoves, RoomInv, ShapeOK
  <2>2. closing # "closed" BY <1>3, InsideNotLate DEF Late
  <2> QED BY <1>2, <1>4, <1>5, <1>7, <2>1, <2>2, DropMoves
<1>8. CASE Fails /\ UNCHANGED <<live, subscription, logVars>>
  <2>1. ShapeMoves BY <1>4, <1>6, <1>8 DEF Fails, logVars, ShapeMoves, RoomInv, ShapeOK
  <2> QED BY <1>2, <1>3, <1>4, <1>5, <1>8, <2>1, HolderMoves
<1> QED BY <1>7, <1>8 DEF Unsubscribed

\* A step after the lock, which neither counts nor stops to count.
LEMMA AfterLock ==
  ASSUME RoomInv, NEW p \in Peer, NEW t, peer[p].queue # <<>>,
         Pt(peer[p]) \in {"lease-release", "session-end"}, ResetTo(peer[p], t),
         Pt(t) # "release-lock", Becomes(p, t), Heard(p, peer[p], t),
         UNCHANGED <<roomVars, live, durable, host, faults>>
  PROVE  RoomInv'
<1> DEFINE s == peer[p]
<1>1. ~Counts(s) BY PeerIs, InResetIs DEF ResetPoints
<1>2. Moves(s, t) /\ Pt(t) \notin HoldPoints /\ ~t.fanoutRetained BY ResetMoves
<1>3. ~Counts(t) BY <1>2 DEF Counts
<1>4. ShapeMoves BY DEF ShapeMoves, roomVars, RoomInv, ShapeOK
<1>5. ShapeOK' /\ PeersOK' /\ CloseOK' /\ MaintenanceOK' /\ OneMoves(p, t) BY <1>2, <1>4, MovesInv
<1>6. ServicesOK' BY <1>5, HeardInv
<1>7. LockOK' BY <1>2, <1>5, LockStays, GrowsInv DEF roomVars
<1>8. CountOK' BY <1>1, <1>3, <1>5, SameCountInv DEF roomVars
<1> QED BY <1>5, <1>6, <1>7, <1>8 DEF RoomInv

LEMMA LeaseReleasedInv == ASSUME RoomInv, NEW p \in Peer, LeaseReleased(p) PROVE RoomInv'
<1> DEFINE s == peer[p]
           t == EndSession(s)
<1>1. /\ PeerOK(s) /\ s \in PeerState /\ Pt(s) = "lease-release" /\ s.queue # <<>>
  BY PeerIs, AtIs DEF LeaseReleased
<1>2. ~s.fanoutRetained /\ ~s.lease /\ (HasSession(s) <=> s.session # "none")
  BY <1>1, InResetIs DEF ResetPoints
<1>3. /\ leases' = leases \ {p} /\ Becomes(p, t)
      /\ UNCHANGED <<roomVars, live, sessions, durable, host, faults>>
  BY DEF LeaseReleased, logVars, bounds
<1>4. ResetTo(s, t) /\ Pt(t) \notin {"release-lock", "lease-release"}
  BY <1>1, <1>2, EndSessionIs DEF PeerOK
<1> HIDE DEF t
<1>5. Heard(p, s, t) BY <1>2, <1>3, <1>4 DEF Heard, ResetTo
<1> QED BY <1>1, <1>3, <1>4, <1>5, AfterLock

LEMMA SessionEndedInv == ASSUME RoomInv, NEW p \in Peer, SessionEnded(p) PROVE RoomInv'
<1> DEFINE s == peer[p]
           t == FinishReset(s)
<1>1. /\ PeerOK(s) /\ s \in PeerState /\ Pt(s) = "session-end" /\ s.queue # <<>>
  BY PeerIs, AtIs DEF SessionEnded
<1>2. ~s.fanoutRetained /\ ~s.lease /\ ~HasLease(s) /\ s.session = "none"
  BY <1>1, InResetIs DEF ResetPoints
<1>3. /\ sessions' = sessions \ {p} /\ Becomes(p, t)
      /\ UNCHANGED <<roomVars, live, leases, durable, host, faults>>
  BY DEF SessionEnded, logVars, bounds
<1>4. ResetTo(s, t) /\ Pt(t) \in CalmPoints BY <1>1, <1>2, FinishResetIs DEF PeerOK
<1> HIDE DEF t
<1>5. Heard(p, s, t) BY <1>2, <1>3, <1>4 DEF Heard, ResetTo
<1>6. Pt(t) # "release-lock" BY <1>4 DEF CalmPoints
<1> QED BY <1>1, <1>3, <1>4, <1>5, <1>6, AfterLock

-----------------------------------------------------------------------------
(* Close.                                                                  *)

LEMMA CloseInv == ASSUME RoomInv, Close PROVE RoomInv'
<1> DEFINE u(s) == ClosePeer([s EXCEPT !.leaveRequested = TRUE])
           t(s) == Enqueue(u(s), "close", "start", "end", {})
<1>1. /\ peer' = [p \in Peer |-> IF InMap(peer[p]) THEN t(peer[p]) ELSE peer[p]]
      /\ closing = "open" /\ closing' = "draining"
      /\ UNCHANGED <<fanoutQueue, retainers, subscription, maintenance, live, leases, sessions,
                     durable, host, faults>>
  BY DEF Close, serviceVars, logVars, bounds
<1>2. ASSUME NEW p \in Peer
      PROVE  Kept(peer[p], t(peer[p])) /\ HasClose(t(peer[p]))
  <2> DEFINE s == peer[p]
             v == u(s)
             w == Enqueue(v, "close", "start", "end", {})
  <2>1. PeerOK(s) /\ s \in PeerState BY PeerIs
  <2>2. /\ v \in PeerState /\ v.queue = s.queue /\ v.phase = s.phase /\ v.open = FALSE
        /\ v.leaveRequested = TRUE /\ v.fanoutRetained = s.fanoutRetained
        /\ v.lease = s.lease /\ v.session = s.session
    BY <2>1 DEF PeerState, ClosePeer
  <2> HIDE DEF v
  <2>3. PeerOK(v) /\ Kept(s, v) /\ SameHold(s, v) /\ Pt(v) = Pt(s) /\ (HasClose(v) <=> HasClose(s))
    BY <2>1, <2>2, ToldToGo
  <2>4. /\ PeerOK(w) /\ SameHold(v, w) /\ HasClose(w)
        /\ Pt(w) = Pt(v) \/ {Pt(v), Pt(w)} \subseteq CalmPoints
    BY <2>2, <2>3, EnqueueKeeps DEF Continuations
  <2> HIDE DEF w
  <2>5. Kept(s, w) BY <2>3, <2>4, SameHoldKept DEF SameHold
  <2> QED BY <2>4, <2>5 DEF v, w
<1> HIDE DEF t
<1>3. \A p \in Peer : /\ Kept(peer[p], peer'[p])
                      /\ InMap(peer[p]) => HasClose(peer'[p])
  BY <1>1, <1>2, PeerIs, KeptSelf
<1>4. peer' \in [Peer -> PeerState] BY <1>1, <1>3 DEF Kept, PeerOK, RunOK
<1> USE DEF RoomInv
<1>5. ShapeOK' BY <1>1, <1>4 DEF ShapeOK, Requests
<1>6. PeersOK' BY <1>3 DEF PeersOK, Kept
<1>7. LockOK'
  <2>1. \A p \in Peer : Pt(peer'[p]) \in HoldPoints => Pt(peer'[p]) = Pt(peer[p]) BY <1>3 DEF Kept
  <2> QED BY <1>1, <2>1 DEF LockOK, HoldsLock
<1>8. CountOK'
  <2>1. \A p \in Peer : Counts(peer'[p]) <=> Counts(peer[p]) BY <1>3 DEF Kept
  <2>2. {p \in Peer : Counts(peer'[p])} = {p \in Peer : Counts(peer[p])} BY <2>1
  <2> QED BY <1>1, <2>1, <2>2 DEF CountOK, Late
<1>9. CloseOK' BY <1>1, <1>3 DEF CloseOK, Late, Kept
<1>10. ServicesOK' BY <1>1, <1>3 DEF ServicesOK, Kept
<1>11. MaintenanceOK' BY <1>1, <1>3, WaitingIs DEF MaintenanceOK, Kept
<1> QED BY <1>5, <1>6, <1>7, <1>8, <1>9, <1>10, <1>11

\* When no removal is left of those that close asked for, everyone is outside.
LEMMA CloseDrainedInv == ASSUME RoomInv, CloseDrained PROVE RoomInv'
<1>1. /\ closing = "draining" /\ closing' = "locking" /\ fanoutQueue' = Append(fanoutQueue, Room)
      /\ \A p \in Peer : ~HasClose(peer[p])
      /\ UNCHANGED <<peer, retainers, subscription, maintenance, live, leases, sessions,
                     durable, host, faults>>
  BY DEF CloseDrained, serviceVars, logVars, bounds, HasJob, HasClose
<1>2. LockGrows BY <1>1, LockAppends
<1> USE DEF RoomInv
<1>3. ShapeOK' BY <1>1, <1>2 DEF ShapeOK, LockGrows, Requests
<1>4. PeersOK' BY <1>1 DEF PeersOK
<1>5. LockOK' BY <1>1, <1>2 DEF LockOK, LockGrows, HoldsLock
<1>6. CountOK' BY <1>1 DEF CountOK, Late
<1>7. CloseOK' BY <1>1 DEF CloseOK, Late
<1>8. ServicesOK' /\ MaintenanceOK' BY <1>1 DEF ServicesOK, MaintenanceOK
<1> QED BY <1>3, <1>4, <1>5, <1>6, <1>7, <1>8

\* While the room owns the lock no peer does.
LEMMA RoomHolds == ASSUME RoomInv, HoldsLock(Room) PROVE \A p \in Peer : Pt(peer[p]) \notin HoldPoints
BY RoomAssumption DEF RoomInv, LockOK, HoldsLock

LEMMA CloseFanoutInv == ASSUME RoomInv, CloseFanout PROVE RoomInv'
<1>1. /\ closing = "locking" /\ HoldsLock(Room) /\ retainers' = 0
      /\ IF subscription = None
         THEN closing' = "closed" /\ fanoutQueue' = Tail(fanoutQueue)
         ELSE closing' = "unsubscribe" /\ UNCHANGED fanoutQueue
      /\ UNCHANGED <<peer, subscription, maintenance, live, leases, sessions, durable, host, faults>>
  BY DEF CloseFanout, serviceVars, logVars, bounds
<1>2. \A p \in Peer : ~Counts(peer[p]) BY <1>1, NobodyCounts DEF Late
<1> USE DEF RoomInv
<1>3. ShapeOK' BY <1>1, LockTail DEF ShapeOK, Requests
<1>4. PeersOK' BY <1>1 DEF PeersOK
<1>5. LockOK' BY <1>1, RoomHolds DEF LockOK, HoldsLock
<1>6. CountOK' BY <1>1, <1>2 DEF CountOK, Late
<1>7. CloseOK' BY <1>1 DEF CloseOK, Late
<1>8. ServicesOK' /\ MaintenanceOK' BY <1>1 DEF ServicesOK, MaintenanceOK
<1> QED BY <1>3, <1>4, <1>5, <1>6, <1>7, <1>8

LEMMA CloseUnsubscribedInv == ASSUME RoomInv, CloseUnsubscribed PROVE RoomInv'
<1>1. /\ closing = "unsubscribe" /\ closing' = "closed" /\ fanoutQueue' = Tail(fanoutQueue)
      /\ UNCHANGED <<peer, retainers, maintenance, leases, sessions>>
      /\ \/ Succeeds /\ Dropped(subscription)
         \/ Fails /\ UNCHANGED <<live, subscription, logVars>>
  BY DEF CloseUnsubscribed
<1>2. HoldsLock(Room) BY <1>1 DEF RoomInv, LockOK
<1>3. \A p \in Peer : ~Counts(peer[p]) BY <1>1, NobodyCounts DEF Late
<1> USE DEF RoomInv
<1>4. /\ UNCHANGED <<durable, host>> /\ faults' \in Nat
      /\ \/ subscription' = None /\ live' = {}
         \/ subscription' = subscription /\ live' = live /\ faults' > 0
  BY <1>1 DEF Succeeds, Fails, bounds, logVars, Dropped, ShapeOK, CountOK
<1>5. ShapeOK' BY <1>1, <1>2, <1>4, LockTail DEF ShapeOK, Requests
<1>6. PeersOK' BY <1>1 DEF PeersOK
<1>7. LockOK' BY <1>1, <1>2, RoomHolds DEF LockOK
<1>8. CountOK' BY <1>1, <1>3, <1>4 DEF CountOK, Late
<1>9. CloseOK' BY <1>1 DEF CloseOK, Late
<1>10. ServicesOK' /\ MaintenanceOK' BY <1>1 DEF ServicesOK, MaintenanceOK
<1> QED BY <1>5, <1>6, <1>7, <1>8, <1>9, <1>10

=============================================================================
