---------------------------- MODULE DocumentRoom ----------------------------
(***************************************************************************)
(* RuntimeDocumentRoom: the connections of one document on one host.       *)
(*                                                                         *)
(* Every peer has a queue of jobs (the promise chain of enqueue); the job  *)
(* at the head runs, and "at" names the await it is suspended in.  Two     *)
(* jobs of different peers interleave at their awaits; timers, the answers *)
(* of background refreshes, bus events, leave and close come in between.   *)
(* A peer's send and close are synchronous, as they are in both hosts, and *)
(* belong to the step that calls them; only the send of Ready is a step of *)
(* its own, because it may throw and because its await ends setup.         *)
(*                                                                         *)
(* The services (sessions, connection limiter, event store, fan-out) are   *)
(* the answers they give, with what they remember of this room.            *)
(***************************************************************************)
EXTENDS Naturals, Sequences, FiniteSets

CONSTANTS
  Peer,          \* RoomPeer objects of the host
  Room,          \* the place of closeRoom in the fan-out lock
  Batch,         \* ids of event batches
  Subscription,  \* subscriptions the fan-out service can hand out
  None,          \* null
  Hosts          \* the hosts considered: see HostAssumption

ASSUME RoomAssumption ==
  /\ IsFiniteSet(Peer) /\ Room \notin Peer
  /\ None \notin Subscription

\* A host is its DOCUMENT_ROOM_REFRESH_MODE, whether it may close the room, what
\* its clients may write, and the bounds on the messages that clients send, on
\* the service calls that fail, and on the times a cached authorization or a
\* lease gets old.
ASSUME HostAssumption ==
  Hosts \subseteq
    [refreshMode : {"background", "on-message"}, closes : BOOLEAN, batches : SUBSET Batch,
     messages : Nat, faults : Nat, expiries : Nat]

Phases == {"absent", "joined", "authenticating", "authenticated", "left"}

\* session.canWrite, or no session.
Sessions == {"none", "read", "write"}

Points ==
  {"start", "authorize", "recheck", "acquire", "fanout-lock", "drop-stale",
   "subscribe", "ready", "refresh", "shared-refresh", "lease-refresh",
   "append", "read", "publish", "release-lock", "unsubscribe",
   "lease-release", "session-end"}

\* What a job does once the maintenance or the reset it is in has finished.
Continuations == {"end", "dispatch", "publish", "reply"}

Job ==
  [kind : {"auth", "resume", "event", "repair", "maintain", "reset", "close"},
   at : Points, next : Continuations, remove : BOOLEAN, data : SUBSET Batch]

PeerState ==
  [phase : Phases, leaveRequested : BOOLEAN, queue : Seq(Job),
   fanoutRetained : BOOLEAN, lease : BOOLEAN, session : Sessions,
   authDue : BOOLEAN, authTimer : BOOLEAN, authPromise : BOOLEAN, authCall : BOOLEAN,
   leaseDue : BOOLEAN, leaseTimer : BOOLEAN, leaseCall : BOOLEAN,
   open : BOOLEAN, released : BOOLEAN, repaired : BOOLEAN,
   acked : SUBSET Batch, received : SUBSET Batch]

VARIABLES
  peer,          \* PeerState of each RoomPeer, and what its client has seen
  closing,       \* how far close has come
  fanoutQueue,   \* fanoutQueue: who holds the lock, then who waits for it
  retainers,     \* fanoutRetainers
  subscription,  \* fanoutSubscription
  maintenance,   \* messageMaintenanceQueue: the messages that wait for it
  live,          \* service: subscriptions not yet unsubscribed
  leases,        \* service: peers that hold a connection lease
  sessions,      \* service: peers whose session has not been ended
  durable,       \* service: batches in the event store
  committed,     \* batches of other hosts, stored but not yet published
  inflight,      \* published batches on their way to a subscription
  lost,          \* batches whose publication failed or was dropped
  host,          \* the host this room runs on
  messages, faults, expiries  \* what the bounds count

roomVars == <<closing, fanoutQueue, retainers, subscription, maintenance>>
serviceVars == <<live, leases, sessions>>
logVars == <<durable, committed, inflight, lost>>
bounds == <<host, messages, faults, expiries>>
vars == <<peer, roomVars, serviceVars, logVars, bounds>>

RefreshMode == host.refreshMode

\* createPeerState, for a socket that may have been in the room before.
NewPeer(s) ==
  [s EXCEPT !.phase = "joined", !.leaveRequested = FALSE, !.released = FALSE,
            !.repaired = FALSE]

NeverJoined ==
  [phase |-> "absent", leaveRequested |-> FALSE, queue |-> <<>>,
   fanoutRetained |-> FALSE, lease |-> FALSE, session |-> "none",
   authDue |-> FALSE, authTimer |-> FALSE, authPromise |-> FALSE, authCall |-> FALSE,
   leaseDue |-> FALSE, leaseTimer |-> FALSE, leaseCall |-> FALSE,
   open |-> TRUE, released |-> FALSE, repaired |-> FALSE,
   acked |-> {}, received |-> {}]

Init ==
  /\ peer = [p \in Peer |-> NeverJoined]
  /\ closing = "open"
  /\ fanoutQueue = <<>>
  /\ retainers = 0
  /\ subscription = None
  /\ maintenance = <<>>
  /\ live = {}
  /\ leases = {}
  /\ sessions = {}
  /\ durable = {}
  /\ committed = {}
  /\ inflight = {}
  /\ lost = {}
  /\ host \in Hosts
  /\ messages = 0
  /\ faults = 0
  /\ expiries = 0

-----------------------------------------------------------------------------
(* The running job of a peer, as functions of its state.                   *)

Running(s) == Head(s.queue)

At(p, point) == peer[p].queue # <<>> /\ Running(peer[p]).at = point

InMap(s) == s.phase \notin {"absent", "left"}

Leaving(s) == s.leaveRequested \/ closing # "open"

\* isCurrentAuthenticatedSession; a state object has one session at most.
Current(s) == s.phase = "authenticated" /\ ~s.leaveRequested /\ s.session # "none"

Goto(s, point) == [s EXCEPT !.queue[1].at = point]

Then(s, next) == [s EXCEPT !.queue[1].next = next]

Done(s) == [s EXCEPT !.queue = Tail(@)]

Enqueue(s, kind, at, next, data) ==
  [s EXCEPT !.queue = Append(@, [kind |-> kind, at |-> at, next |-> next,
                                 remove |-> TRUE, data |-> data])]

EnqueueReset(s) == Enqueue(s, "reset", "start", "end", {})

ClosePeer(s) == [s EXCEPT !.open = FALSE]

\* Mutant: the removal does not wait for the running job.
ExpelAtOnce(s) ==
  [ClosePeer(s) EXCEPT !.leaveRequested = TRUE, !.phase = "left"]

\* The peer is told to go, and a removal waits its turn behind the running job.
Expel(s) == EnqueueReset(ClosePeer([s EXCEPT !.leaveRequested = TRUE]))

\* startRefreshTimers: timers run only in background mode.
ArmAuth(s) == [s EXCEPT !.authDue = FALSE, !.authTimer = (RefreshMode = "background")]
ArmLease(s) == [s EXCEPT !.leaseDue = FALSE, !.leaseTimer = (RefreshMode = "background")]

Authenticated(s) ==
  Done(ArmLease(ArmAuth([s EXCEPT !.phase = "authenticated"])))

\* Where an authenticated message goes once the peer may still send it.
Dispatch(s) ==
  CASE Running(s).kind = "repair" /\ s.session # "none" -> Goto(Then(s, "end"), "read")
    [] Running(s).kind = "event" /\ s.session = "write" -> Goto(Then(s, "end"), "append")
    [] OTHER -> Done(s)

\* The rest of the job, given whether its peer is still an active session.
Continue(s, active) ==
  CASE Running(s).next = "end" -> Done(s)
    [] Running(s).next = "dispatch" -> IF active THEN Dispatch(s) ELSE Done(s)
    [] Running(s).next = "publish" ->
         Goto(IF active /\ s.open
              THEN [s EXCEPT !.acked = @ \cup Running(s).data]
              ELSE s, "publish")
    [] Running(s).next = "reply" ->
         Done(IF active /\ s.open
              THEN [s EXCEPT !.received = @ \cup Running(s).data, !.repaired = TRUE]
              ELSE s)

\* The last part of resetState: the sessions hook, then the peer map.
FinishReset(s) ==
  Continue(IF Running(s).remove
           THEN [s EXCEPT !.phase = "left"]
           ELSE [s EXCEPT !.phase = "joined", !.leaveRequested = FALSE], FALSE)

EndSession(s) ==
  IF s.session # "none"
  THEN Goto([s EXCEPT !.session = "none", !.authDue = FALSE, !.leaseDue = FALSE],
            "session-end")
  ELSE FinishReset(s)

ReleaseLease(s) ==
  IF s.lease THEN Goto([s EXCEPT !.lease = FALSE], "lease-release") ELSE EndSession(s)

\* Mutant: the flag is cleared only when the lock has been granted.
StartResetKeepsFlag(s, remove) ==
  LET quiet == [s EXCEPT !.authTimer = FALSE, !.leaseTimer = FALSE,
                         !.authPromise = FALSE, !.queue[1].remove = remove]
  IN  IF s.fanoutRetained THEN Goto(quiet, "release-lock") ELSE ReleaseLease(quiet)

\* The first part of resetState, which every removal and failed setup runs:
\* the flag is cleared before the wait for the lock, so a second reset does
\* not release the subscription twice.
StartReset(s, remove) ==
  LET quiet == [s EXCEPT !.authTimer = FALSE, !.leaseTimer = FALSE,
                         !.authPromise = FALSE, !.queue[1].remove = remove]
  IN  IF s.fanoutRetained
      THEN Goto([quiet EXCEPT !.fanoutRetained = FALSE], "release-lock")
      ELSE ReleaseLease(quiet)

-----------------------------------------------------------------------------
(* Maintenance of a session: the cached authorization, then the lease.     *)

\* refreshLeaseForMessage; in background mode the lease has its own timer.
MaintainLease(s) ==
  CASE RefreshMode = "background" \/ ~s.leaseDue -> Continue(s, TRUE)
    [] RefreshMode = "on-message" /\ s.leaseDue /\ s.lease -> Goto(s, "lease-refresh")
    [] OTHER -> Continue(s, FALSE)

\* refreshAuthorizationForMessage: one refresh at a time, shared.
MaintainPeer(s) ==
  CASE s.phase # "authenticated" \/ s.leaveRequested -> Continue(s, FALSE)
    [] Current(s) /\ ~s.authDue -> MaintainLease(s)
    [] Current(s) /\ s.authDue /\ ~s.authPromise ->
         Goto([s EXCEPT !.authPromise = TRUE], "refresh")
    [] Current(s) /\ s.authDue /\ s.authPromise -> Goto(s, "shared-refresh")
    [] OTHER -> Continue(s, FALSE)

\* terminateFromBackgroundRefresh
Terminate(s) ==
  IF Current(s) THEN Expel([s EXCEPT !.authTimer = FALSE, !.leaseTimer = FALSE]) ELSE s

-----------------------------------------------------------------------------
Becomes(p, s) == peer' = [peer EXCEPT ![p] = s]

\* The running job of p starts resetState in state s; "lock" is what the
\* fan-out lock is otherwise left with.
Resets(p, s, remove, lock) ==
  /\ Becomes(p, StartReset(s, remove))
  /\ fanoutQueue' = IF s.fanoutRetained THEN Append(lock, p) ELSE lock

Succeeds == UNCHANGED bounds

Fails ==
  /\ faults < host.faults
  /\ faults' = faults + 1
  /\ UNCHANGED <<host, messages, expiries>>

Sends ==
  /\ messages < host.messages
  /\ messages' = messages + 1
  /\ UNCHANGED <<host, faults, expiries>>

-----------------------------------------------------------------------------
(* The host's calls: join, resume, receive, leave, close.                  *)

\* Nitro joins a peer again when it retries Auth after a failed attempt.
Join(p) ==
  /\ ~InMap(peer[p])
  /\ peer[p].open
  /\ peer[p].queue = <<>>
  /\ \A i \in DOMAIN maintenance : maintenance[i].from # p
  /\ Becomes(p, IF closing = "open" THEN NewPeer(peer[p]) ELSE ClosePeer(peer[p]))
  /\ UNCHANGED <<roomVars, serviceVars, logVars, bounds>>

\* A host delivers no message of a peer whose socket was closed.
Receivable(p) ==
  closing = "open" /\ InMap(peer[p]) /\ peer[p].open /\ ~peer[p].leaveRequested

ReceiveAuth(p) ==
  /\ Receivable(p)
  /\ Sends
  /\ Becomes(p,
       IF peer[p].phase = "joined"
       THEN Enqueue([peer[p] EXCEPT !.phase = "authenticating"], "auth", "authorize", "end", {})
       ELSE Expel(peer[p]))
  /\ UNCHANGED <<roomVars, serviceVars, logVars>>

\* A hibernated host wakes up with the session it stored at the socket.
Resume(p) ==
  /\ RefreshMode = "on-message"
  /\ Receivable(p)
  /\ Sends
  /\ Becomes(p,
       IF peer[p].phase = "joined"
       THEN Enqueue([peer[p] EXCEPT !.phase = "authenticating"], "resume", "start", "end", {})
       ELSE Expel(peer[p]))
  /\ UNCHANGED <<roomVars, serviceVars, logVars>>

Requests == {[kind |-> "repair", data |-> {}]} \cup
            {[kind |-> "event", data |-> {b}] : b \in host.batches}

\* An Event or a RepairRequest: in background mode it joins the peer's queue,
\* in on-message mode it first waits for maintenance of the whole room.
ReceiveMessage(p) ==
  /\ Receivable(p)
  /\ peer[p].phase = "authenticated"
  /\ Sends
  /\ \E request \in Requests :
       IF RefreshMode = "background"
       THEN /\ Becomes(p, Enqueue(peer[p], request.kind, "start", "dispatch", request.data))
            /\ UNCHANGED maintenance
       ELSE /\ maintenance' =
                 Append(maintenance, [from |-> p, request |-> request, started |-> FALSE])
            /\ UNCHANGED peer
  /\ UNCHANGED <<closing, fanoutQueue, retainers, subscription, serviceVars, logVars>>

\* maintainPeersForMessage: idle peers that are due get a maintenance job.
StartMaintenance ==
  /\ maintenance # <<>>
  /\ ~Head(maintenance).started
  /\ LET due(s) == /\ s.phase = "authenticated" /\ ~s.leaveRequested
                   /\ s.queue = <<>> /\ (s.authDue \/ s.leaseDue)
     IN  peer' = [p \in Peer |->
                    IF due(peer[p]) THEN Enqueue(peer[p], "maintain", "start", "end", {})
                                    ELSE peer[p]]
  /\ maintenance' = [maintenance EXCEPT ![1].started = TRUE]
  /\ UNCHANGED <<closing, fanoutQueue, retainers, subscription, serviceVars, logVars, bounds>>

HasJob(p, kind) == \E i \in DOMAIN peer[p].queue : peer[p].queue[i].kind = kind

\* Its jobs are done: the message joins its peer's queue.
EndMaintenance ==
  /\ maintenance # <<>>
  /\ Head(maintenance).started
  /\ \A p \in Peer : ~HasJob(p, "maintain")
  /\ LET from == Head(maintenance).from
         request == Head(maintenance).request
     IN  Becomes(from, Enqueue(peer[from], request.kind, "start", "dispatch", request.data))
  /\ maintenance' = Tail(maintenance)
  /\ UNCHANGED <<closing, fanoutQueue, retainers, subscription, serviceVars, logVars, bounds>>

\* The host leaves for a peer once: its socket closed, or its Auth failed and
\* the host gives the room up while the socket stays open.
Leave(p) ==
  /\ InMap(peer[p])
  /\ ~peer[p].released
  /\ \E open \in BOOLEAN :
       /\ open => peer[p].open /\ peer[p].phase = "joined" /\ peer[p].queue = <<>>
       /\ Becomes(p, EnqueueReset([peer[p] EXCEPT !.leaveRequested = TRUE,
                                                  !.released = TRUE, !.open = open]))
  /\ UNCHANGED <<roomVars, serviceVars, logVars, bounds>>

\* close and closeRoom: every peer is told to go and its removal is queued,
Close ==
  /\ host.closes
  /\ closing = "open"
  /\ closing' = "draining"
  /\ peer' = [p \in Peer |->
                IF InMap(peer[p])
                THEN Enqueue(ClosePeer([peer[p] EXCEPT !.leaveRequested = TRUE]),
                             "close", "start", "end", {})
                ELSE peer[p]]
  /\ UNCHANGED <<fanoutQueue, retainers, subscription, maintenance,
                 serviceVars, logVars, bounds>>

\* and when all those removals are done the subscription goes.
CloseDrained ==
  /\ closing = "draining"
  /\ \A p \in Peer : ~HasJob(p, "close")
  /\ closing' = "locking"
  /\ fanoutQueue' = Append(fanoutQueue, Room)
  /\ UNCHANGED <<peer, retainers, subscription, maintenance, serviceVars, logVars, bounds>>

-----------------------------------------------------------------------------
(* Setup of a session: authenticate and resumeSession.                     *)

\* A queued reset or message, or a resume, gets its turn.
StartJob(p) ==
  /\ At(p, "start")
  /\ LET s == peer[p]
         kind == Running(s).kind
     IN  CASE kind \in {"reset", "close"} ->
                Resets(p, s, TRUE, fanoutQueue) /\ UNCHANGED sessions
           [] kind = "resume" ->
                /\ \E role \in Sessions \ {"none"} :
                     Becomes(p, Goto([s EXCEPT !.session = role], "recheck"))
                /\ sessions' = sessions \cup {p}
                /\ UNCHANGED fanoutQueue
           [] \/ kind = "maintain"
              \/ kind \in {"event", "repair"} /\ RefreshMode = "background" ->
                Becomes(p, MaintainPeer(s)) /\ UNCHANGED <<fanoutQueue, sessions>>
           [] OTHER ->
                /\ Becomes(p, Continue(s, s.phase = "authenticated" /\ ~s.leaveRequested))
                /\ UNCHANGED <<fanoutQueue, sessions>>
  /\ UNCHANGED <<closing, retainers, subscription, maintenance, live, leases, logVars, bounds>>

\* failTemporaryAuthentication, and the failures of resumeSession: the former
\* keeps the peer for another attempt unless it was told to go.
FailSetup(p, s, lock) ==
  IF Running(s).kind = "resume"
  THEN Resets(p, ClosePeer([s EXCEPT !.leaveRequested = TRUE]), TRUE, lock)
  ELSE Resets(p, s, Leaving(s), lock)

\* sessions.authorize: granted, denied (or for another document), or it threw.
Authorized(p) ==
  /\ At(p, "authorize")
  /\ \/ /\ Fails
        /\ FailSetup(p, peer[p], fanoutQueue)
     \/ /\ Succeeds
        /\ Leaving(peer[p])
        /\ Resets(p, peer[p], TRUE, fanoutQueue)
     \/ /\ Succeeds
        /\ ~Leaving(peer[p])
        /\ Becomes(p, Goto(peer[p], "acquire"))
        /\ UNCHANGED fanoutQueue
     \/ /\ Succeeds
        /\ ~Leaving(peer[p])
        /\ Resets(p, ClosePeer(peer[p]), TRUE, fanoutQueue)
  /\ UNCHANGED <<closing, retainers, subscription, maintenance, serviceVars, logVars>>

\* sessions.refresh of a resumed session.
Rechecked(p) ==
  /\ At(p, "recheck")
  /\ \/ /\ Succeeds
        /\ Leaving(peer[p])
        /\ Resets(p, peer[p], TRUE, fanoutQueue)
     \/ /\ Succeeds
        /\ ~Leaving(peer[p])
        /\ \E role \in Sessions \ {"none"} :
             Becomes(p, Goto([peer[p] EXCEPT !.session = role], "acquire"))
        /\ UNCHANGED fanoutQueue
     \/ /\ Succeeds \* revoked, or the recheck threw
        /\ FailSetup(p, peer[p], fanoutQueue)
  /\ UNCHANGED <<closing, retainers, subscription, maintenance, serviceVars, logVars>>

\* connections.acquire: accepted, over the limit, or it threw.
Acquired(p) ==
  /\ At(p, "acquire")
  /\ \/ /\ Succeeds
        /\ leases' = leases \cup {p}
        /\ LET s == [peer[p] EXCEPT !.lease = TRUE]
           IN  IF Leaving(s)
               THEN Resets(p, s, TRUE, fanoutQueue)
               ELSE /\ Becomes(p, Goto(s, "fanout-lock"))
                    /\ fanoutQueue' = Append(fanoutQueue, p)
     \/ /\ Succeeds
        /\ IF Running(peer[p]).kind = "resume"
           THEN FailSetup(p, peer[p], fanoutQueue)
           ELSE Resets(p, ClosePeer(peer[p]), TRUE, fanoutQueue)
        /\ UNCHANGED leases
     \/ /\ Fails
        /\ FailSetup(p, peer[p], fanoutQueue)
        /\ UNCHANGED leases
  /\ UNCHANGED <<closing, retainers, subscription, maintenance, live, sessions, logVars>>

HoldsLock(p) == fanoutQueue # <<>> /\ Head(fanoutQueue) = p

\* retainFanout has run in the lock: the session begins, unless the peer was
\* told to go meanwhile.  A resumed session needs no Ready.
Retained(p) ==
  /\ retainers' = retainers + 1
  /\ LET s == [peer[p] EXCEPT !.fanoutRetained = TRUE]
         lock == Tail(fanoutQueue)
     IN  IF Leaving(s)
         THEN Resets(p, s, TRUE, lock) /\ UNCHANGED sessions
         ELSE /\ fanoutQueue' = lock
              /\ IF Running(s).kind = "resume"
                 THEN Becomes(p, Authenticated(s)) /\ UNCHANGED sessions
                 ELSE /\ \E role \in Sessions \ {"none"} :
                           Becomes(p, Goto([s EXCEPT !.session = role], "ready"))
                      /\ sessions' = sessions \cup {p}

\* The first retainer subscribes, after dropping what a failed unsubscribe left.
RetainFanout(p) ==
  /\ At(p, "fanout-lock")
  /\ HoldsLock(p)
  /\ IF retainers > 0
     THEN Retained(p)
     ELSE /\ Becomes(p, Goto(peer[p], IF subscription = None THEN "subscribe" ELSE "drop-stale"))
          /\ UNCHANGED <<fanoutQueue, retainers, sessions>>
  /\ UNCHANGED <<closing, subscription, maintenance, live, leases, logVars, bounds>>

\* Mutant: the bus goes on sending to a subscription that was dropped.
DroppedButSent(s) ==
  /\ live' = live \ {s}
  /\ subscription' = None
  /\ UNCHANGED logVars

\* The service forgets the subscription, and what was on its way to it.
Dropped(s) ==
  /\ live' = live \ {s}
  /\ inflight' = {m \in inflight : m.to # s}
  /\ subscription' = None
  /\ UNCHANGED <<durable, committed, lost>>

StaleDropped(p) ==
  /\ At(p, "drop-stale")
  /\ \/ /\ Succeeds
        /\ Dropped(subscription)
        /\ Becomes(p, Goto(peer[p], "subscribe"))
        /\ UNCHANGED fanoutQueue
     \/ /\ Fails
        /\ FailSetup(p, peer[p], Tail(fanoutQueue))
        /\ UNCHANGED <<live, subscription, logVars>>
  /\ UNCHANGED <<closing, retainers, maintenance, leases, sessions>>

\* Mutant: the lock is not passed on when the subscription fails.
SubscribedKeepsLock(p) ==
  /\ At(p, "subscribe")
  /\ \/ /\ Succeeds
        /\ \E s \in Subscription \ live :
             subscription' = s /\ live' = live \cup {s}
        /\ Retained(p)
     \/ /\ Fails
        /\ FailSetup(p, peer[p], fanoutQueue)
        /\ UNCHANGED <<subscription, live, retainers, sessions>>
  /\ UNCHANGED <<closing, maintenance, leases, logVars>>

\* fanout.subscribe
Subscribed(p) ==
  /\ At(p, "subscribe")
  /\ \/ /\ Succeeds
        /\ \E s \in Subscription \ live :
             subscription' = s /\ live' = live \cup {s}
        /\ Retained(p)
     \/ /\ Fails
        /\ FailSetup(p, peer[p], Tail(fanoutQueue))
        /\ UNCHANGED <<subscription, live, retainers, sessions>>
  /\ UNCHANGED <<closing, maintenance, leases, logVars>>

\* Mutant: the peer is not asked again whether it is leaving.
ReadySentUnchecked(p) ==
  /\ At(p, "ready")
  /\ \/ /\ Succeeds
        /\ Becomes(p, Authenticated(peer[p]))
        /\ UNCHANGED fanoutQueue
     \/ /\ Fails
        /\ FailSetup(p, peer[p], fanoutQueue)
  /\ UNCHANGED <<closing, retainers, subscription, maintenance, serviceVars, logVars>>

\* The send of Ready returned, or it threw.
ReadySent(p) ==
  /\ At(p, "ready")
  /\ \/ /\ Succeeds
        /\ IF Leaving(peer[p])
           THEN Resets(p, peer[p], TRUE, fanoutQueue)
           ELSE Becomes(p, Authenticated(peer[p])) /\ UNCHANGED fanoutQueue
     \/ /\ Fails
        /\ FailSetup(p, peer[p], fanoutQueue)
  /\ UNCHANGED <<closing, retainers, subscription, maintenance, serviceVars, logVars>>

-----------------------------------------------------------------------------
(* resetState: fan-out, lease, session, one after the other.               *)

\* Only the last retainer drops the subscription.
ReleaseFanout(p) ==
  /\ At(p, "release-lock")
  /\ HoldsLock(p)
  /\ retainers' = IF retainers = 0 THEN 0 ELSE retainers - 1
  /\ IF retainers' = 0 /\ subscription # None
     THEN Becomes(p, Goto(peer[p], "unsubscribe")) /\ UNCHANGED fanoutQueue
     ELSE Becomes(p, ReleaseLease(peer[p])) /\ fanoutQueue' = Tail(fanoutQueue)
  /\ UNCHANGED <<closing, subscription, maintenance, serviceVars, logVars, bounds>>

\* A failed unsubscribe is reported, and the subscription stays known.
Unsubscribed(p) ==
  /\ At(p, "unsubscribe")
  /\ \/ Succeeds /\ Dropped(subscription)
     \/ Fails /\ UNCHANGED <<live, subscription, logVars>>
  /\ Becomes(p, ReleaseLease(peer[p]))
  /\ fanoutQueue' = Tail(fanoutQueue)
  /\ UNCHANGED <<closing, retainers, maintenance, leases, sessions>>

\* A lease whose release fails lapses at the end of its TTL.
LeaseReleased(p) ==
  /\ At(p, "lease-release")
  /\ leases' = leases \ {p}
  /\ Becomes(p, EndSession(peer[p]))
  /\ UNCHANGED <<roomVars, live, sessions, logVars, bounds>>

SessionEnded(p) ==
  /\ At(p, "session-end")
  /\ sessions' = sessions \ {p}
  /\ Becomes(p, FinishReset(peer[p]))
  /\ UNCHANGED <<roomVars, live, leases, logVars, bounds>>

\* The last part of closeRoom.
CloseFanout ==
  /\ closing = "locking"
  /\ HoldsLock(Room)
  /\ retainers' = 0
  /\ IF subscription = None
     THEN closing' = "closed" /\ fanoutQueue' = Tail(fanoutQueue)
     ELSE closing' = "unsubscribe" /\ UNCHANGED fanoutQueue
  /\ UNCHANGED <<peer, subscription, maintenance, serviceVars, logVars, bounds>>

CloseUnsubscribed ==
  /\ closing = "unsubscribe"
  /\ \/ Succeeds /\ Dropped(subscription)
     \/ Fails /\ UNCHANGED <<live, subscription, logVars>>
  /\ closing' = "closed"
  /\ fanoutQueue' = Tail(fanoutQueue)
  /\ UNCHANGED <<peer, retainers, maintenance, leases, sessions>>

-----------------------------------------------------------------------------
(* Maintenance that has to be waited for.                                  *)

\* sessions.refresh, asked by the running job.
Refreshed(p) ==
  /\ At(p, "refresh")
  /\ Succeeds
  /\ LET s == [peer[p] EXCEPT !.authPromise = FALSE]
     IN  \/ /\ \E role \in Sessions \ {"none"} :
                 Becomes(p, IF Current(s)
                            THEN MaintainLease(ArmAuth([s EXCEPT !.session = role]))
                            ELSE Continue(s, FALSE))
            /\ UNCHANGED fanoutQueue
         \/ IF Current(s) \* denied, or it threw
            THEN Resets(p, ClosePeer(s), TRUE, fanoutQueue)
            ELSE Becomes(p, Continue(s, FALSE)) /\ UNCHANGED fanoutQueue
  /\ UNCHANGED <<closing, retainers, subscription, maintenance, serviceVars, logVars>>

\* lease.refresh, asked by the running job: alive, or lost.
LeaseRefreshed(p) ==
  /\ At(p, "lease-refresh")
  /\ Succeeds
  /\ LET s == peer[p]
     IN  \/ /\ Becomes(p, IF Current(s) THEN Continue(ArmLease(s), TRUE) ELSE Continue(s, FALSE))
            /\ UNCHANGED fanoutQueue
         \/ IF Current(s)
            THEN Resets(p, ClosePeer([s EXCEPT !.leaveRequested = TRUE]), TRUE, fanoutQueue)
            ELSE Becomes(p, Continue(s, FALSE)) /\ UNCHANGED fanoutQueue
  /\ UNCHANGED <<closing, retainers, subscription, maintenance, serviceVars, logVars>>

\* Time passes: the cached authorization of p or its lease gets old.
Expires(p) ==
  /\ expiries < host.expiries
  /\ peer[p].phase = "authenticated"
  /\ peer[p].session # "none"
  /\ \/ ~peer[p].authDue /\ Becomes(p, [peer[p] EXCEPT !.authDue = TRUE])
     \/ ~peer[p].leaseDue /\ Becomes(p, [peer[p] EXCEPT !.leaseDue = TRUE])
  /\ expiries' = expiries + 1
  /\ UNCHANGED <<roomVars, serviceVars, logVars, host, messages, faults>>

\* The timer of the authorization: it does nothing but wait when a job has
\* already asked.
AuthTimer(p) ==
  /\ peer[p].authTimer
  /\ peer[p].authDue
  /\ LET s == [peer[p] EXCEPT !.authTimer = FALSE]
     IN  Becomes(p, IF Current(s) /\ ~s.authPromise
                    THEN [s EXCEPT !.authPromise = TRUE, !.authCall = TRUE]
                    ELSE s)
  /\ UNCHANGED <<roomVars, serviceVars, logVars, bounds>>

\* Mutant: the timer is not set again after a background refresh.
AuthCallAnsweredOnce(p) ==
  /\ peer[p].authCall
  /\ LET s == [peer[p] EXCEPT !.authCall = FALSE, !.authPromise = FALSE]
         waits == At(p, "shared-refresh")
     IN  \/ \E role \in Sessions \ {"none"} :
              LET t == IF Current(s) THEN [s EXCEPT !.session = role, !.authDue = FALSE] ELSE s
              IN  Becomes(p, IF ~waits THEN t
                             ELSE IF Current(t) THEN MaintainLease(t) ELSE Continue(t, FALSE))
         \/ LET t == Terminate(s)
            IN  Becomes(p, IF waits THEN Continue(t, FALSE) ELSE t)
  /\ UNCHANGED <<roomVars, serviceVars, logVars, bounds>>

\* The answer of the refresh the timer asked for; a job that shares it goes on
\* after the timer's own continuation.
AuthCallAnswered(p) ==
  /\ peer[p].authCall
  /\ LET s == [peer[p] EXCEPT !.authCall = FALSE, !.authPromise = FALSE]
         waits == At(p, "shared-refresh")
     IN  \/ \E role \in Sessions \ {"none"} :
              LET t == IF Current(s) THEN ArmAuth([s EXCEPT !.session = role]) ELSE s
              IN  Becomes(p, IF ~waits THEN t
                             ELSE IF Current(t) THEN MaintainLease(t) ELSE Continue(t, FALSE))
         \/ LET t == Terminate(s) \* denied, or it threw
            IN  Becomes(p, IF waits THEN Continue(t, FALSE) ELSE t)
  /\ UNCHANGED <<roomVars, serviceVars, logVars, bounds>>

LeaseTimer(p) ==
  /\ peer[p].leaseTimer
  /\ peer[p].leaseDue
  /\ LET s == [peer[p] EXCEPT !.leaseTimer = FALSE]
     IN  Becomes(p, IF Current(s) /\ s.lease /\ ~s.leaseCall
                    THEN [s EXCEPT !.leaseCall = TRUE]
                    ELSE s)
  /\ UNCHANGED <<roomVars, serviceVars, logVars, bounds>>

LeaseCallAnswered(p) ==
  /\ peer[p].leaseCall
  /\ LET s == [peer[p] EXCEPT !.leaseCall = FALSE]
     IN  \/ Becomes(p, IF Current(s) THEN ArmLease(s) ELSE s)
         \/ Becomes(p, Terminate(s))
  /\ UNCHANGED <<roomVars, serviceVars, logVars, bounds>>

-----------------------------------------------------------------------------
(* Events and repair.                                                      *)

\* In on-message mode the session is maintained again after the store has
\* answered; a durable batch is published whatever comes of it.
AfterStore(s) ==
  IF RefreshMode = "on-message" THEN MaintainPeer(s) ELSE Continue(s, TRUE)

\* events.append: saved; rejected; or it threw, and then the batch may be
\* saved all the same, with nobody left to publish it.
Appended(p) ==
  /\ At(p, "append")
  /\ LET data == Running(peer[p]).data
     IN  \/ /\ Succeeds
            /\ durable' = durable \cup data
            /\ Becomes(p, AfterStore(Then(peer[p], "publish")))
            /\ UNCHANGED lost
         \/ /\ Succeeds
            /\ Becomes(p, Done(peer[p]))
            /\ UNCHANGED <<durable, lost>>
         \/ /\ Fails
            /\ Becomes(p, Done(peer[p]))
            /\ durable' = durable \cup data
            /\ lost' = lost \cup (data \ durable)
  /\ UNCHANGED <<roomVars, serviceVars, committed, inflight>>

Publish(data) == inflight' = inflight \cup {[to |-> s, batch |-> b] : s \in live, b \in data}

\* fanout.publish
Published(p) ==
  /\ At(p, "publish")
  /\ \/ /\ Succeeds
        /\ Publish(Running(peer[p]).data)
        /\ UNCHANGED lost
     \/ /\ Fails
        /\ lost' = lost \cup Running(peer[p]).data
        /\ UNCHANGED inflight
  /\ Becomes(p, Done(peer[p]))
  /\ UNCHANGED <<roomVars, serviceVars, durable, committed>>

\* events.read: the history as it is now is sent, unless the peer is no longer
\* an active session, or it threw.
HistoryRead(p) ==
  /\ At(p, "read")
  /\ \/ /\ Succeeds
        /\ LET s == [Then(peer[p], "reply") EXCEPT !.queue[1].data = durable]
           IN  Becomes(p, IF RefreshMode = "on-message"
                          THEN MaintainPeer(s)
                          ELSE Continue(s, Current(s)))
     \/ /\ Fails
        /\ Becomes(p, Done(peer[p]))
  /\ UNCHANGED <<roomVars, serviceVars, logVars>>

\* Another host of the document stores a batch,
RemoteCommit ==
  /\ \E b \in host.batches \ durable :
       durable' = durable \cup {b} /\ committed' = committed \cup {b}
  /\ Sends
  /\ UNCHANGED <<peer, roomVars, serviceVars, inflight, lost>>

\* and publishes it.
RemotePublish ==
  /\ \E b \in committed : Publish({b}) /\ committed' = committed \ {b}
  /\ UNCHANGED <<peer, roomVars, serviceVars, durable, lost, bounds>>

\* Mutant: a host without timers passes over the sessions that are due.
DeliverToFresh ==
  /\ \E m \in inflight :
       /\ inflight' = inflight \ {m}
       /\ peer' = [p \in Peer |->
            LET s == peer[p]
            IN  IF Current(s) /\ s.open /\ ~(RefreshMode = "on-message" /\ (s.authDue \/ s.leaseDue))
                THEN [s EXCEPT !.received = @ \cup {m.batch}]
                ELSE s]
  /\ UNCHANGED <<roomVars, serviceVars, durable, committed, lost, bounds>>

\* The handler of the subscription: every active session gets the batch; a
\* host without timers closes those that are due instead.
Deliver ==
  /\ \E m \in inflight :
       /\ inflight' = inflight \ {m}
       /\ peer' = [p \in Peer |->
            LET s == peer[p]
            IN  CASE ~Current(s) -> s
                  [] Current(s) /\ RefreshMode = "on-message" /\ (s.authDue \/ s.leaseDue) -> Expel(s)
                  [] OTHER -> IF s.open THEN [s EXCEPT !.received = @ \cup {m.batch}] ELSE s]
  /\ UNCHANGED <<roomVars, serviceVars, durable, committed, lost, bounds>>

\* The bus loses a message.
Drop ==
  /\ Fails
  /\ \E m \in inflight : inflight' = inflight \ {m} /\ lost' = lost \cup {m.batch}
  /\ UNCHANGED <<peer, roomVars, serviceVars, durable, committed>>

-----------------------------------------------------------------------------
\* What the job of p that has its turn may do next.
JobStep(p) ==
  \/ StartJob(p)
  \/ Authorized(p)
  \/ Rechecked(p)
  \/ Acquired(p)
  \/ RetainFanout(p)
  \/ StaleDropped(p)
  \/ Subscribed(p)
  \/ ReadySent(p)
  \/ Refreshed(p)
  \/ LeaseRefreshed(p)
  \/ Appended(p)
  \/ Published(p)
  \/ HistoryRead(p)
  \/ ReleaseFanout(p)
  \/ Unsubscribed(p)
  \/ LeaseReleased(p)
  \/ SessionEnded(p)

CloseStep == CloseDrained \/ CloseFanout \/ CloseUnsubscribed

MaintenanceStep == StartMaintenance \/ EndMaintenance

Next ==
  \/ \E p \in Peer :
       \/ Join(p)
       \/ ReceiveAuth(p)
       \/ Resume(p)
       \/ ReceiveMessage(p)
       \/ Leave(p)
       \/ JobStep(p)
       \/ Expires(p)
       \/ AuthTimer(p)
       \/ AuthCallAnswered(p)
       \/ LeaseTimer(p)
       \/ LeaseCallAnswered(p)
  \/ MaintenanceStep
  \/ Close
  \/ CloseStep
  \/ RemoteCommit
  \/ RemotePublish
  \/ Deliver
  \/ Drop

Spec == Init /\ [][Next]_vars

\* Every call to a service is answered in the end, and the promise chains run.
FairSpec ==
  /\ Spec
  /\ \A p \in Peer : WF_vars(JobStep(p)) /\ WF_vars(AuthCallAnswered(p))
  /\ WF_vars(MaintenanceStep)
  /\ WF_vars(CloseStep)

-----------------------------------------------------------------------------
(* Properties. *)

\* The state of the room and of its services is well formed: what is on its way
\* goes to a subscription that exists and carries a batch that is stored, and "a
\* failed append must never be acknowledged or published" (document-room.ts:130).
TypeOK ==
  /\ peer \in [Peer -> PeerState]
  /\ closing \in {"open", "draining", "locking", "unsubscribe", "closed"}
  /\ fanoutQueue \in Seq(Peer \cup {Room})
  /\ retainers \in Nat
  /\ subscription \in Subscription \cup {None}
  /\ maintenance \in Seq([from : Peer, request : Requests, started : BOOLEAN])
  /\ live \subseteq Subscription
  /\ leases \subseteq Peer
  /\ sessions \subseteq Peer
  /\ durable \subseteq Batch
  /\ committed \subseteq durable
  /\ inflight \subseteq [to : live, batch : durable]
  /\ lost \subseteq durable
  /\ \A p \in Peer : peer[p].acked \subseteq durable
  /\ messages \in 0 .. host.messages
  /\ faults \in 0 .. host.faults
  /\ expiries \in 0 .. host.expiries

\* The fan-out is counted right: the count is the number of peers that retain it
\* and of peers that gave it up and wait for the lock, and at most one
\* subscription is alive at the service, the one the room knows, as long as a
\* peer retains it; through every race of setup, removal, failure and close
\* (document-room-implementation.ts:1200-1293).
FanoutCounted ==
  /\ closing \in {"open", "draining"} =>
       retainers = Cardinality({p \in Peer : peer[p].fanoutRetained \/ At(p, "release-lock")})
  /\ live = {subscription} \ {None}
  /\ (\E p \in Peer : peer[p].fanoutRetained) => subscription # None

\* "Leave and close must tolerate partial setup and release room subscriptions,
\* sessions, and connection leases idempotently; ... receive/leave races cannot
\* create duplicate sessions or leak resources" (document-room.ts:126-150): a
\* peer that has left holds nothing at any service, whatever was in progress,
\* and a closed room has nothing left but what could not be unsubscribed.
NothingLeaks ==
  /\ \A p \in Peer : ~InMap(peer[p]) =>
       p \notin leases \cup sessions /\ ~peer[p].fanoutRetained
  /\ closing = "closed" =>
       /\ leases \cup sessions = {}
       /\ live # {} => faults > 0

\* The checks of an authenticated session never silently stop: its timer is
\* set, or the refresh is under way, or the session is being ended
\* (document-room-implementation.ts:1024-1171).
InReset(p) == \E point \in {"release-lock", "unsubscribe", "lease-release", "session-end"} : At(p, point)
RevalidationContinues ==
  \A p \in Peer :
    Current(peer[p]) /\ ~InReset(p) /\ RefreshMode = "background" =>
      /\ peer[p].authTimer \/ peer[p].authCall \/ At(p, "refresh")
      /\ peer[p].leaseTimer \/ peer[p].leaseCall

\* A batch between its append and its publication.
Unpublished(b) ==
  \/ b \in committed
  \/ \E p \in Peer : /\ peer[p].queue # <<>>
                     /\ b \in Running(peer[p]).data
                     /\ Running(peer[p]).kind = "event"
                     /\ Running(peer[p]).next = "publish"

\* A session that has been sent the history once misses no batch after that:
\* each durable batch has reached it, is on its way to the room's subscription,
\* or is yet to be published, unless the bus lost it.  Repair may interleave
\* with live events in any way (document-room.ts:131-133).
NoGap ==
  \A p \in Peer : Current(peer[p]) /\ peer[p].open /\ peer[p].repaired =>
    \A b \in durable :
      \/ b \in peer[p].received \cup lost
      \/ [to |-> subscription, batch |-> b] \in inflight
      \/ Unpublished(b)

\* A peer that has been told to go, or any peer of a room that is closing,
\* never becomes an authenticated session afterwards, whatever answers are
\* still on their way (document-room-implementation.ts:444-566).
NoLateSession ==
  [][\A p \in Peer :
       peer[p].phase # "authenticated" /\ peer'[p].phase = "authenticated" =>
         ~Leaving(peer[p])]_vars

\* Teardown finishes: every peer that is told to go is removed and cleaned up, and
\* close ends, for no queue, lock or shared refresh is held for ever, whatever call
\* failed meanwhile (document-room-implementation.ts:322-332 and :334-370).
TeardownCompletes ==
  /\ \A p \in Peer : peer[p].leaveRequested ~> peer[p].phase = "left"
  /\ (closing = "draining") ~> (closing = "closed")

=============================================================================
