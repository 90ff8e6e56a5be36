---------------------------- MODULE PresenceRoom ----------------------------
(***************************************************************************)
(* RuntimePresenceRoom: who is present in one document, on one host.       *)
(*                                                                         *)
(* As in DocumentRoom every peer has a queue of jobs (enqueue), the job at *)
(* the head runs, and "at" names the await it is suspended in.  Two locks  *)
(* cross the queues: the fan-out lock, and the maintenance lock, which a   *)
(* message of an on-message host takes to sweep, and under which a sweep   *)
(* waits for the removals it queued behind the jobs of other peers.        *)
(*                                                                         *)
(* The services are their answers, with what they remember of this room;   *)
(* neither host gives an end hook.  A viewer is one that hears every       *)
(* publication: "shown" are the connections it shows.  Every peer has a    *)
(* connection id of its own.                                               *)
(***************************************************************************)
EXTENDS Naturals, Sequences, FiniteSets

CONSTANTS
  Peer,   \* PresencePeer objects, and their connection ids
  Room,   \* the place of closeRoom in the fan-out lock
  Alarm,  \* the caller of sweep() in the maintenance lock
  Hosts   \* the hosts considered: see HostAssumption

\* A host is its refresh mode, whether it may close the room and whether it
\* hibernates, whether a heartbeat may run out while a message of its peer waits
\* for the maintenance lock, and the bounds on the messages that clients send, on
\* the calls that fail or are refused, and on heartbeats and records that expire.
\* Only the Durable Object hibernates, and it sweeps on messages and alarms.
ASSUME HostAssumption ==
  /\ Hosts \subseteq
       [refreshMode : {"background", "on-message"}, closes : BOOLEAN, hibernates : BOOLEAN,
        slow : BOOLEAN, messages : Nat, faults : Nat, expiries : Nat]
  /\ \A h \in Hosts : h.hibernates => h.refreshMode = "on-message"
ASSUME RoomAssumption == {Room, Alarm} \cap Peer = {}

Phases == {"absent", "connected", "authenticating", "authenticated", "joined", "left", "asleep"}

\* The kinds of message a session may send.
Requests == {"join", "sync", "heartbeat", "update", "leave"}

Points ==
  {"start", "authorize", "recheck", "acquire", "fanout-lock", "drop-stale", "subscribe",
   "refresh", "maintain", "set-joined", "join-lease", "publish-join", "list",
   "publish-leaves", "refresh-lease", "refresh-member", "get-member", "set-updated",
   "update-lease", "publish-update",
   "release-lock", "unsubscribe", "lease-release", "member-remove", "publish-leave"}

\* A removal is queued by its peer or the host, by a sweep or by close.
Job == [kind : {"auth", "resume", "reset", "swept", "closed"} \cup Requests,
        at : Points, leaves : SUBSET Peer]

PeerState ==
  [phase : Phases, leaveRequested : BOOLEAN, queue : Seq(Job), fanoutRetained : BOOLEAN,
   lease : BOOLEAN, connectionId : BOOLEAN, identity : BOOLEAN, joined : BOOLEAN,
   heartbeat : {"none", "armed", "overdue"}, open : BOOLEAN, released : BOOLEAN]

Sweep == [by : Peer \cup {Alarm}, due : SUBSET Peer, at : {"lock", "resets", "publish"},
          leaves : SUBSET Peer]

VARIABLES
  peer,          \* PeerState of each peer
  closing,       \* how far close has come
  fanoutQueue,   \* fanoutQueue: who holds the lock, then who waits for it
  retainers,     \* fanoutRetainers
  subscription,  \* fanoutSubscription, and whether it is alive
  maintenance,   \* messageMaintenanceQueue: the sweep that holds the lock, then those that wait
  leases,        \* service: connections that hold a lease
  members,       \* service: connections with a record in the store
  lapsed,        \* service: those of them past their TTL
  shown,         \* connections a viewer shows
  lost,          \* connections whose Leave could not be published
  host,          \* the host this room runs on
  messages, faults, expiries  \* what the bounds count

roomVars == <<closing, fanoutQueue, retainers, subscription>>
storeVars == <<members, lapsed>>
viewVars == <<shown, lost>>
bounds == <<host, messages, faults, expiries>>
vars == <<peer, roomVars, maintenance, leases, storeVars, viewVars, bounds>>

RefreshMode == host.refreshMode
OnMessage == RefreshMode = "on-message"

NeverJoined ==
  [phase |-> "absent", leaveRequested |-> FALSE, queue |-> <<>>, fanoutRetained |-> FALSE,
   lease |-> FALSE, connectionId |-> FALSE, identity |-> FALSE, joined |-> FALSE,
   heartbeat |-> "none", open |-> TRUE, released |-> FALSE]

Init ==
  /\ peer = [p \in Peer |-> NeverJoined]
  /\ closing = "open" /\ fanoutQueue = <<>> /\ retainers = 0 /\ subscription = FALSE
  /\ maintenance = <<>>
  /\ leases = {} /\ members = {} /\ lapsed = {}
  /\ shown = {} /\ lost = {}
  /\ host \in Hosts
  /\ messages = 0 /\ faults = 0 /\ expiries = 0

-----------------------------------------------------------------------------
(* The running job of a peer, as functions of its state.                   *)

Running(s) == Head(s.queue)
At(p, point) == peer[p].queue # <<>> /\ Running(peer[p]).at = point
InMap(s) == s.phase \notin {"absent", "left", "asleep"}
Leaving(s) == s.leaveRequested \/ closing # "open"
Active(s) == s.phase \in {"authenticated", "joined"}

\* isPeerLive
Live(s) == ~s.leaveRequested /\ s.phase # "left"

Goto(s, point) == [s EXCEPT !.queue[1].at = point]
Done(s) == [s EXCEPT !.queue = Tail(@)]
Enqueue(s, kind, at) == [s EXCEPT !.queue = Append(@, [kind |-> kind, at |-> at, leaves |-> {}])]
Becomes(p, s) == peer' = [peer EXCEPT ![p] = s]

\* A mutant: the socket is closed and nothing else is done.
CloseOnly(s, kind) == [s EXCEPT !.leaveRequested = TRUE, !.open = FALSE]

\* closePeer, and a removal queued behind what runs.
Expel(s, kind) == Enqueue([s EXCEPT !.leaveRequested = TRUE, !.open = FALSE], kind, "start")

HasJob(p, kind) == \E i \in DOMAIN peer[p].queue : peer[p].queue[i].kind = kind

Succeeds == UNCHANGED bounds

Fails ==
  /\ faults < host.faults
  /\ faults' = faults + 1
  /\ UNCHANGED <<host, messages, expiries>>

Sends ==
  /\ messages < host.messages
  /\ messages' = messages + 1
  /\ UNCHANGED <<host, faults, expiries>>

TimePasses ==
  /\ expiries < host.expiries
  /\ expiries' = expiries + 1
  /\ UNCHANGED <<host, messages, faults>>

-----------------------------------------------------------------------------
(* resetState, from one await to the next.                                 *)

\* The end: the peer leaves the room, and its job is done.
FinishReset(s) == Done([s EXCEPT !.connectionId = FALSE, !.phase = "left"])

\* A mutant: only the record of the store tells that the peer had joined.
AfterRemovalOfRecord(s, removed) ==
  LET gone == [s EXCEPT !.identity = FALSE, !.joined = FALSE, !.heartbeat = "none"]
  IN IF removed /\ s.identity THEN Goto(gone, "publish-leave") ELSE FinishReset(gone)

\* After removeMember: what was joined is announced as gone.
AfterRemoval(s, removed) ==
  LET gone == [s EXCEPT !.identity = FALSE, !.joined = FALSE, !.heartbeat = "none"]
  IN IF (s.joined \/ removed) /\ s.identity
     THEN Goto(gone, "publish-leave") ELSE FinishReset(gone)

RemoveMember(s) == IF s.connectionId THEN Goto(s, "member-remove") ELSE AfterRemoval(s, FALSE)

ReleaseLease(s) ==
  IF s.lease THEN Goto([s EXCEPT !.lease = FALSE], "lease-release") ELSE RemoveMember(s)

\* p's job starts to reset: it gives up the fan-out, for which it needs the lock.
\* lock is the fan-out queue once p has let go of it.
Resets(p, s, lock) ==
  LET leaving == [s EXCEPT !.leaveRequested = TRUE, !.fanoutRetained = FALSE]
  IN /\ Becomes(p, IF s.fanoutRetained THEN Goto(leaving, "release-lock") ELSE ReleaseLease(leaving))
     /\ fanoutQueue' = IF s.fanoutRetained THEN Append(lock, p) ELSE lock

\* The same for a job whose peer is closed too.
Ends(p, s, lock) == Resets(p, [s EXCEPT !.open = FALSE], lock)

HoldsLock(p) == fanoutQueue # <<>> /\ Head(fanoutQueue) = p

\* releaseFanout, once the lock is held: the last one unsubscribes.
FanoutReleased(p) ==
  /\ At(p, "release-lock")
  /\ HoldsLock(p)
  /\ retainers' = IF retainers = 0 THEN 0 ELSE retainers - 1
  /\ IF retainers' = 0 /\ subscription
     THEN Becomes(p, Goto(peer[p], "unsubscribe")) /\ UNCHANGED fanoutQueue
     ELSE Becomes(p, ReleaseLease(peer[p])) /\ fanoutQueue' = Tail(fanoutQueue)
  /\ UNCHANGED <<closing, subscription, maintenance, leases, storeVars, viewVars, bounds>>

\* unsubscribeFanout of a reset; a failure keeps the subscription.
Unsubscribed(p) ==
  /\ At(p, "unsubscribe")
  /\ \/ Succeeds /\ subscription' = FALSE
     \/ Fails /\ UNCHANGED subscription
  /\ fanoutQueue' = Tail(fanoutQueue)
  /\ Becomes(p, ReleaseLease(peer[p]))
  /\ UNCHANGED <<closing, retainers, maintenance, leases, storeVars, viewVars>>

\* A lease that could not be released is left to its TTL.
LeaseReleased(p) ==
  /\ At(p, "lease-release")
  /\ leases' = leases \ {p}
  /\ Becomes(p, RemoveMember(peer[p]))
  /\ UNCHANGED <<roomVars, maintenance, storeVars, viewVars, bounds>>

\* A mutant: the record goes and its expiry stays.
MemberRemovedOnly(p) ==
  /\ At(p, "member-remove")
  /\ \/ /\ Succeeds
        /\ members' = members \ {p} /\ UNCHANGED lapsed
        /\ Becomes(p, AfterRemoval(peer[p], IF OnMessage THEN p \in members \ lapsed ELSE p \in members))
     \/ Fails /\ Becomes(p, AfterRemoval(peer[p], FALSE)) /\ UNCHANGED storeVars
  /\ UNCHANGED <<roomVars, maintenance, leases, viewVars>>

\* removeMember tells whether there was a record; the Durable Object's storage
\* does not count one that has lapsed.
MemberRemoved(p) ==
  /\ At(p, "member-remove")
  /\ \/ /\ Succeeds
        /\ members' = members \ {p} /\ lapsed' = lapsed \ {p}
        /\ Becomes(p, AfterRemoval(peer[p], IF OnMessage THEN p \in members \ lapsed ELSE p \in members))
     \/ Fails /\ Becomes(p, AfterRemoval(peer[p], FALSE)) /\ UNCHANGED storeVars
  /\ UNCHANGED <<roomVars, maintenance, leases, viewVars>>

\* publishLeave of a reset.
LeavePublished(p) ==
  /\ At(p, "publish-leave")
  /\ \/ Succeeds /\ shown' = shown \ {p} /\ UNCHANGED lost
     \/ Fails /\ lost' = lost \cup {p} /\ UNCHANGED shown
  /\ Becomes(p, FinishReset(peer[p]))
  /\ UNCHANGED <<roomVars, maintenance, leases, storeVars>>

ResetStep(p) ==
  \/ FanoutReleased(p)
  \/ Unsubscribed(p)
  \/ LeaseReleased(p)
  \/ MemberRemoved(p)
  \/ LeavePublished(p)

-----------------------------------------------------------------------------
(* The host's calls.                                                       *)

\* A Durable Object that restores its sockets lets nothing else happen.
Restoring == \E p \in Peer : HasJob(p, "resume")

\* It makes one call for a peer at a time, and leaves when the last has returned.
Outstanding(p) == OnMessage /\ \E kind \in Requests \cup {"auth", "resume"} : HasJob(p, kind)

Join(p) ==
  /\ peer[p].phase = "absent"
  /\ ~Restoring
  /\ Becomes(p, [peer[p] EXCEPT !.phase = IF closing = "open" THEN "connected" ELSE "left",
                                !.open = closing = "open"])
  /\ UNCHANGED <<roomVars, maintenance, leases, storeVars, viewVars, bounds>>

Receivable(p) ==
  /\ closing = "open"
  /\ InMap(peer[p]) /\ peer[p].open /\ ~peer[p].leaveRequested
  /\ ~Restoring /\ ~Outstanding(p)

\* receiveAuth: a second one ends the session.
ReceiveAuth(p) ==
  /\ Receivable(p)
  /\ Sends
  /\ Becomes(p, IF peer[p].phase = "connected"
                THEN Enqueue([peer[p] EXCEPT !.phase = "authenticating"], "auth", "authorize")
                ELSE Expel(peer[p], "reset"))
  /\ UNCHANGED <<roomVars, maintenance, leases, storeVars, viewVars>>

\* receive of any other message, queued if the session is authenticated.
ReceiveMessage(p) ==
  /\ Receivable(p)
  /\ Sends
  /\ IF Active(peer[p])
     THEN \E kind \in Requests : Becomes(p, Enqueue(peer[p], kind, "start"))
     ELSE Becomes(p, Expel(peer[p], "reset"))
  /\ UNCHANGED <<roomVars, maintenance, leases, storeVars, viewVars>>

\* leave, once per peer: the connection is gone, or the room closed it.
Leave(p) ==
  /\ InMap(peer[p])
  /\ ~peer[p].released /\ ~Outstanding(p)
  /\ Becomes(p, [Expel(peer[p], "reset") EXCEPT !.released = TRUE])
  /\ UNCHANGED <<roomVars, maintenance, leases, storeVars, viewVars, bounds>>

\* close: every peer is closed and removed, then the fan-out is dropped.
Close ==
  /\ closing = "open"
  /\ host.closes
  /\ closing' = "draining"
  /\ peer' = [p \in Peer |-> IF InMap(peer[p]) THEN Expel(peer[p], "closed") ELSE peer[p]]
  /\ UNCHANGED <<fanoutQueue, retainers, subscription, maintenance, leases, storeVars, viewVars, bounds>>

CloseDrained ==
  /\ closing = "draining"
  /\ \A p \in Peer : ~HasJob(p, "closed")
  /\ closing' = "lock"
  /\ fanoutQueue' = Append(fanoutQueue, Room)
  /\ UNCHANGED <<peer, retainers, subscription, maintenance, leases, storeVars, viewVars, bounds>>

CloseFanout ==
  /\ closing = "lock"
  /\ HoldsLock(Room)
  /\ \/ Succeeds /\ subscription' = FALSE
     \/ subscription /\ Fails /\ UNCHANGED subscription
  /\ retainers' = 0
  /\ fanoutQueue' = Tail(fanoutQueue)
  /\ closing' = "closed"
  /\ UNCHANGED <<peer, maintenance, leases, storeVars, viewVars>>

\* Nothing runs: the object may be evicted.  Its memory, with the leases and the
\* subscription, is gone; sockets keep the snapshots that persistSnapshot left.
Hibernate ==
  /\ host.hibernates
  /\ maintenance = <<>>
  /\ \A p \in Peer : peer[p].queue = <<>>
  /\ \E p \in Peer : InMap(peer[p]) /\ peer[p].open
  /\ peer' = [p \in Peer |->
                CASE ~InMap(peer[p]) -> peer[p]
                  [] InMap(peer[p]) /\ peer[p].open ->
                       [peer[p] EXCEPT !.phase = "asleep", !.lease = FALSE, !.fanoutRetained = FALSE]
                  [] OTHER -> [NeverJoined EXCEPT !.phase = "left", !.open = FALSE]]
  /\ leases' = {} /\ retainers' = 0 /\ subscription' = FALSE
  /\ UNCHANGED <<closing, fanoutQueue, maintenance, storeVars, viewVars, bounds>>

\* restoreAttachedSockets: every socket joins, and those of sessions resume.
Wake ==
  /\ \E p \in Peer : peer[p].phase = "asleep"
  /\ peer' = [p \in Peer |->
                CASE peer[p].phase # "asleep" -> peer[p]
                  [] peer[p].phase = "asleep" /\ peer[p].identity ->
                       Enqueue([peer[p] EXCEPT !.phase = "authenticating", !.identity = FALSE,
                                               !.connectionId = FALSE], "resume", "recheck")
                  [] OTHER -> [peer[p] EXCEPT !.phase = "connected"]]
  /\ UNCHANGED <<roomVars, maintenance, leases, storeVars, viewVars, bounds>>

\* webSocketClose of a hibernating socket: the object knows no peer and does nothing.
SocketGone(p) ==
  /\ peer[p].phase = "asleep"
  /\ Becomes(p, [NeverJoined EXCEPT !.phase = "left", !.open = FALSE])
  /\ UNCHANGED <<roomVars, maintenance, leases, storeVars, viewVars, bounds>>

HostStep ==
  \/ \E p \in Peer : Join(p) \/ ReceiveAuth(p) \/ ReceiveMessage(p) \/ Leave(p) \/ SocketGone(p)
  \/ Close \/ CloseDrained \/ CloseFanout
  \/ Hibernate \/ Wake

-----------------------------------------------------------------------------
(* authenticate and resumeSession.                                         *)

\* The caller's identity is checked; a session that resumes gets its state back.
Authorized(p) ==
  LET s == peer[p]
  IN /\ At(p, "authorize") \/ At(p, "recheck")
     /\ \/ /\ Succeeds
           /\ IF Leaving(s) THEN Resets(p, s, fanoutQueue)
              ELSE /\ Becomes(p, Goto([s EXCEPT !.connectionId = TRUE,
                                                !.identity = At(p, "recheck")], "acquire"))
                   /\ UNCHANGED fanoutQueue
        \/ Fails /\ Ends(p, s, fanoutQueue)
     /\ UNCHANGED <<closing, retainers, subscription, maintenance, leases, storeVars, viewVars>>

\* A lease is admitted or refused.
Acquired(p) ==
  LET held == [peer[p] EXCEPT !.lease = TRUE]
  IN /\ At(p, "acquire")
     /\ \/ /\ Succeeds
           /\ leases' = leases \cup {p}
           /\ IF Leaving(held) THEN Resets(p, held, fanoutQueue)
              ELSE Becomes(p, Goto(held, "fanout-lock")) /\ fanoutQueue' = Append(fanoutQueue, p)
        \/ Fails /\ Ends(p, peer[p], fanoutQueue) /\ UNCHANGED leases
     /\ UNCHANGED <<closing, retainers, subscription, maintenance, storeVars, viewVars>>

\* The last await of the setup is over: the session starts unless it was told to leave.
Starts(p, s, lock) ==
  IF Leaving(s) THEN Resets(p, s, lock)
  ELSE /\ Becomes(p, Done([s EXCEPT !.phase = IF s.joined THEN "joined" ELSE "authenticated",
                                    !.identity = TRUE]))
       /\ fanoutQueue' = lock

\* retainFanout, once the lock is held.
Retains(p) ==
  /\ At(p, "fanout-lock")
  /\ HoldsLock(p)
  /\ IF retainers > 0
     THEN /\ retainers' = retainers + 1
          /\ Starts(p, [peer[p] EXCEPT !.fanoutRetained = TRUE], Tail(fanoutQueue))
     ELSE /\ Becomes(p, Goto(peer[p], IF subscription THEN "drop-stale" ELSE "subscribe"))
          /\ UNCHANGED <<retainers, fanoutQueue>>
  /\ UNCHANGED <<closing, subscription, maintenance, leases, storeVars, viewVars, bounds>>

StaleDropped(p) ==
  /\ At(p, "drop-stale")
  /\ \/ /\ Succeeds
        /\ subscription' = FALSE
        /\ Becomes(p, Goto(peer[p], "subscribe")) /\ UNCHANGED fanoutQueue
     \/ Fails /\ Ends(p, peer[p], Tail(fanoutQueue)) /\ UNCHANGED subscription
  /\ UNCHANGED <<closing, retainers, maintenance, leases, storeVars, viewVars>>

Subscribed(p) ==
  /\ At(p, "subscribe")
  /\ \/ /\ Succeeds
        /\ subscription' = TRUE /\ retainers' = retainers + 1
        /\ Starts(p, [peer[p] EXCEPT !.fanoutRetained = TRUE], Tail(fanoutQueue))
     \/ Fails /\ Ends(p, peer[p], Tail(fanoutQueue)) /\ UNCHANGED <<subscription, retainers>>
  /\ UNCHANGED <<closing, maintenance, leases, storeVars, viewVars>>

SetupStep(p) ==
  \/ Authorized(p)
  \/ Acquired(p)
  \/ Retains(p)
  \/ StaleDropped(p)
  \/ Subscribed(p)

-----------------------------------------------------------------------------
(* A message of a session.                                                 *)

\* The first await of each request; a second Join ends the session.
Dispatch(p, s) ==
  CASE Running(s).kind = "join" /\ s.phase = "authenticated" ->
         Becomes(p, Goto(s, "set-joined")) /\ UNCHANGED fanoutQueue
    [] Running(s).kind = "join" /\ s.phase # "authenticated" -> Ends(p, s, fanoutQueue)
    [] Running(s).kind = "sync" -> Becomes(p, Goto(s, "list")) /\ UNCHANGED fanoutQueue
    [] Running(s).kind = "heartbeat" ->
         Becomes(p, Goto(s, "refresh-lease")) /\ UNCHANGED fanoutQueue
    [] Running(s).kind = "update" -> Becomes(p, Goto(s, "get-member")) /\ UNCHANGED fanoutQueue
    [] Running(s).kind = "leave" -> Ends(p, s, fanoutQueue)

\* rearmHeartbeat: no alarm that was called before finds the peer overdue.
Rearmed(p) ==
  [i \in DOMAIN maintenance |-> [maintenance[i] EXCEPT !.due = @ \ {p}]]

\* A mutant: a heartbeat that ran out while the message waited is not set again.
MaintainOverdue(p, s) ==
  LET armed == [s EXCEPT !.heartbeat = IF @ = "overdue" THEN @ ELSE "armed"]
  IN IF OnMessage
     THEN /\ Becomes(p, Goto(armed, "maintain"))
          /\ maintenance' = Append(maintenance, [by |-> p, due |-> {}, at |-> "lock", leaves |-> {}])
          /\ UNCHANGED fanoutQueue
     ELSE Dispatch(p, armed) /\ UNCHANGED maintenance

\* The authorization is current: rearm, then sweep first in on-message mode.
Maintain(p, s) ==
  LET armed == [s EXCEPT !.heartbeat = "armed"]
  IN IF OnMessage
     THEN /\ Becomes(p, Goto(armed, "maintain"))
          /\ maintenance' = Append(Rearmed(p), [by |-> p, due |-> {}, at |-> "lock", leaves |-> {}])
          /\ UNCHANGED fanoutQueue
     ELSE Dispatch(p, armed) /\ UNCHANGED maintenance

\* The job at the head starts: a removal resets, and a message of a peer that is
\* still there uses the cached authorization or asks for it again.
StartJob(p) ==
  LET s == peer[p]
  IN /\ At(p, "start")
     /\ CASE Running(s).kind \notin Requests ->
               Resets(p, s, fanoutQueue) /\ UNCHANGED maintenance
          [] Running(s).kind \in Requests /\ ~Live(s) ->
               Becomes(p, Done(s)) /\ UNCHANGED <<fanoutQueue, maintenance>>
          [] OTHER ->
               \/ Maintain(p, s)
               \/ Becomes(p, Goto(s, "refresh")) /\ UNCHANGED <<fanoutQueue, maintenance>>
     /\ UNCHANGED <<closing, retainers, subscription, leases, storeVars, viewVars, bounds>>

\* refreshAuthorizationForMessage: valid, or refused or failed.
Refreshed(p) ==
  LET s == peer[p]
  IN /\ At(p, "refresh")
     /\ \/ /\ Succeeds
           /\ IF Live(s) THEN Maintain(p, s)
              ELSE Becomes(p, Done(s)) /\ UNCHANGED <<fanoutQueue, maintenance>>
        \/ Fails /\ Ends(p, s, fanoutQueue) /\ UNCHANGED maintenance
     /\ UNCHANGED <<closing, retainers, subscription, leases, storeVars, viewVars>>

\* setMember of Join and of Update; the memory store of Nitro forgets what lapsed.
MemberSet(p) ==
  LET next == IF At(p, "set-joined") THEN "join-lease" ELSE "update-lease"
  IN /\ At(p, "set-joined") \/ At(p, "set-updated")
     /\ \/ /\ Succeeds
           /\ members' = (IF OnMessage THEN members ELSE members \ lapsed) \cup {p}
           /\ lapsed' = IF OnMessage THEN lapsed \ {p} ELSE {}
           /\ Becomes(p, Goto(peer[p], next)) /\ UNCHANGED fanoutQueue
        \/ Fails /\ Ends(p, peer[p], fanoutQueue) /\ UNCHANGED storeVars
     /\ UNCHANGED <<closing, retainers, subscription, maintenance, leases, viewVars>>

\* lease.refresh of Join and of Update: the peer is Joined from here on.
LeaseChecked(p) ==
  LET s == peer[p]
  IN /\ At(p, "join-lease") \/ At(p, "update-lease")
     /\ \/ /\ Succeeds
           /\ Becomes(p, IF At(p, "join-lease")
                         THEN Goto([s EXCEPT !.joined = TRUE, !.phase = "joined"], "publish-join")
                         ELSE Goto(s, "publish-update"))
           /\ UNCHANGED fanoutQueue
        \/ Fails /\ Ends(p, s, fanoutQueue)
     /\ UNCHANGED <<closing, retainers, subscription, maintenance, leases, storeVars, viewVars>>

\* publish of Join and of Update; only a Join makes viewers show a connection.
Published(p) ==
  /\ At(p, "publish-join") \/ At(p, "publish-update")
  /\ \/ /\ Succeeds
        /\ shown' = IF At(p, "publish-join") THEN shown \cup {p} ELSE shown
        /\ Becomes(p, Done(peer[p])) /\ UNCHANGED fanoutQueue
     \/ Fails /\ Ends(p, peer[p], fanoutQueue) /\ UNCHANGED shown
  /\ UNCHANGED <<closing, retainers, subscription, maintenance, leases, storeVars, lost>>

\* receiveSync: listMembers takes the lapsed records out of the store.
Listed(p) ==
  /\ At(p, "list")
  /\ \/ /\ Succeeds
        /\ members' = members \ lapsed /\ lapsed' = {}
        /\ Becomes(p, Goto([peer[p] EXCEPT !.queue[1].leaves = lapsed], "publish-leaves"))
        /\ UNCHANGED fanoutQueue
     \/ Fails /\ Ends(p, peer[p], fanoutQueue) /\ UNCHANGED storeVars
  /\ UNCHANGED <<closing, retainers, subscription, maintenance, leases, viewVars>>

\* The lapsed are announced one after the other; a failure loses those that are left.
LeavesPublished(p) ==
  LET leaves == Running(peer[p]).leaves
  IN /\ At(p, "publish-leaves")
     /\ \/ leaves = {} /\ Succeeds /\ Becomes(p, Done(peer[p])) /\ UNCHANGED <<fanoutQueue, viewVars>>
        \/ /\ Succeeds
           /\ \E c \in leaves :
                /\ shown' = shown \ {c}
                /\ Becomes(p, [peer[p] EXCEPT !.queue[1].leaves = @ \ {c}])
           /\ UNCHANGED <<fanoutQueue, lost>>
        \/ /\ leaves # {} /\ Fails
           /\ lost' = lost \cup leaves
           /\ Ends(p, peer[p], fanoutQueue)
           /\ UNCHANGED shown
     /\ UNCHANGED <<closing, retainers, subscription, maintenance, leases, storeVars>>

\* receiveHeartbeat: the lease and then the record; both must be alive.
HeartbeatLease(p) ==
  /\ At(p, "refresh-lease")
  /\ \/ Succeeds /\ Becomes(p, Goto(peer[p], "refresh-member")) /\ UNCHANGED fanoutQueue
     \/ Fails /\ Ends(p, peer[p], fanoutQueue)
  /\ UNCHANGED <<closing, retainers, subscription, maintenance, leases, storeVars, viewVars>>

\* A store that is asked for a record forgets it if it has lapsed, and the memory
\* store of Nitro whatever has.
Forget(p) == IF OnMessage THEN lapsed \cap {p} ELSE lapsed

\* refreshMember
HeartbeatMember(p) ==
  LET s == peer[p]
  IN /\ At(p, "refresh-member")
     /\ \/ /\ Succeeds
           /\ members' = members \ Forget(p) /\ lapsed' = lapsed \ Forget(p)
           /\ IF s.joined /\ p \notin members'
              THEN Ends(p, s, fanoutQueue)
              ELSE Becomes(p, Done(s)) /\ UNCHANGED fanoutQueue
        \/ Fails /\ Ends(p, s, fanoutQueue) /\ UNCHANGED storeVars
     /\ UNCHANGED <<closing, retainers, subscription, maintenance, leases, viewVars>>

\* getMember of Update: without a record the session ends; a stale patch is dropped.
MemberRead(p) ==
  LET s == peer[p]
  IN /\ At(p, "get-member")
     /\ \/ /\ Succeeds
           /\ members' = members \ Forget(p) /\ lapsed' = lapsed \ Forget(p)
           /\ IF p \notin members'
              THEN Ends(p, s, fanoutQueue)
              ELSE /\ Becomes(p, Goto(s, "set-updated")) \/ Becomes(p, Done(s))
                   /\ UNCHANGED fanoutQueue
        \/ Fails /\ Ends(p, s, fanoutQueue) /\ UNCHANGED storeVars
     /\ UNCHANGED <<closing, retainers, subscription, maintenance, leases, viewVars>>

MessageStep(p) ==
  \/ StartJob(p)
  \/ Refreshed(p)
  \/ MemberSet(p)
  \/ LeaseChecked(p)
  \/ Published(p)
  \/ Listed(p)
  \/ LeavesPublished(p)
  \/ HeartbeatLease(p)
  \/ HeartbeatMember(p)
  \/ MemberRead(p)

-----------------------------------------------------------------------------
(* Heartbeats, records and sweeps.                                         *)

\* Time passes, but for a lock that is free to be taken.  Background: the timer
\* fires and closeExpiredHeartbeatPeer runs.
HeartbeatExpires(p) ==
  /\ peer[p].heartbeat = "armed"
  /\ Active(peer[p]) /\ ~peer[p].leaveRequested
  /\ maintenance # <<>> => Head(maintenance).at # "lock"
  /\ host.slow \/ ~At(p, "maintain")
  /\ TimePasses
  /\ Becomes(p, IF OnMessage THEN [peer[p] EXCEPT !.heartbeat = "overdue"]
                ELSE Expel([peer[p] EXCEPT !.heartbeat = "none"], "reset"))
  /\ UNCHANGED <<roomVars, maintenance, leases, storeVars, viewVars>>

\* Time passes: a record gets older than its TTL, and no Join takes that long.
MemberLapses(p) ==
  /\ p \in members \ lapsed
  /\ ~At(p, "join-lease") /\ ~At(p, "publish-join")
  /\ TimePasses
  /\ lapsed' = lapsed \cup {p}
  /\ UNCHANGED <<peer, roomVars, maintenance, leases, members, viewVars>>

Overdue == {p \in Peer : Active(peer[p]) /\ ~peer[p].leaveRequested /\ peer[p].heartbeat = "overdue"}

\* alarm calls sweep with the time of the call.
SweepCalled ==
  /\ OnMessage
  /\ ~Restoring
  /\ \E p \in Peer : InMap(peer[p])
  /\ \A i \in DOMAIN maintenance : maintenance[i].by # Alarm
  /\ maintenance' = Append(maintenance, [by |-> Alarm, due |-> Overdue, at |-> "lock", leaves |-> {}])
  /\ UNCHANGED <<peer, roomVars, leases, storeVars, viewVars, bounds>>

\* sweepLocked begins: whoever is overdue, but for the caller, is closed and removed.
SweepStarts ==
  LET sweep == Head(maintenance)
      expired == IF sweep.by = Alarm THEN Overdue \cap sweep.due ELSE Overdue \ {sweep.by}
  IN /\ maintenance # <<>>
     /\ sweep.at = "lock"
     /\ peer' = [p \in Peer |-> IF p \in expired THEN Expel(peer[p], "swept") ELSE peer[p]]
     /\ maintenance' = [maintenance EXCEPT ![1].at = "resets"]
     /\ UNCHANGED <<roomVars, leases, storeVars, viewVars, bounds>>

\* The lock is released; the message that swept is served, if its peer is still there.
EndSweep(by) ==
  /\ maintenance' = Tail(maintenance)
  /\ IF by = Alarm THEN UNCHANGED <<peer, fanoutQueue>>
     ELSE IF Live(peer[by]) THEN Dispatch(by, peer[by])
          ELSE Becomes(by, Done(peer[by])) /\ UNCHANGED fanoutQueue

\* The removals are over: the lapsed records are taken out of the store.
SweepListed ==
  LET sweep == Head(maintenance)
  IN /\ maintenance # <<>>
     /\ sweep.at = "resets"
     /\ \A p \in Peer : ~HasJob(p, "swept")
     /\ \/ /\ Succeeds
           /\ members' = members \ lapsed /\ lapsed' = {}
           /\ maintenance' = [maintenance EXCEPT ![1].at = "publish", ![1].leaves = lapsed]
           /\ UNCHANGED <<peer, fanoutQueue>>
        \/ Fails /\ EndSweep(sweep.by) /\ UNCHANGED storeVars
     /\ UNCHANGED <<closing, retainers, subscription, leases, viewVars>>

\* Each of them is announced; a failure ends the sweep and loses those that are left.
SweepPublished ==
  LET sweep == Head(maintenance)
  IN /\ maintenance # <<>>
     /\ sweep.at = "publish"
     /\ \/ sweep.leaves = {} /\ Succeeds /\ EndSweep(sweep.by) /\ UNCHANGED viewVars
        \/ /\ Succeeds
           /\ \E c \in sweep.leaves :
                /\ shown' = shown \ {c}
                /\ maintenance' = [maintenance EXCEPT ![1].leaves = @ \ {c}]
           /\ UNCHANGED <<peer, fanoutQueue, lost>>
        \/ /\ sweep.leaves # {} /\ Fails
           /\ lost' = lost \cup sweep.leaves
           /\ EndSweep(sweep.by)
           /\ UNCHANGED shown
     /\ UNCHANGED <<closing, retainers, subscription, leases, storeVars>>

SweepStep ==
  \/ \E p \in Peer : HeartbeatExpires(p) \/ MemberLapses(p)
  \/ SweepCalled
  \/ SweepStarts
  \/ SweepListed
  \/ SweepPublished

Next ==
  \/ HostStep
  \/ \E p \in Peer : SetupStep(p) \/ MessageStep(p) \/ ResetStep(p)
  \/ SweepStep

Spec == Init /\ [][Next]_vars

-----------------------------------------------------------------------------
(* Properties.                                                             *)

TypeOK ==
  /\ peer \in [Peer -> PeerState]
  /\ closing \in {"open", "draining", "lock", "closed"}
  /\ fanoutQueue \in Seq(Peer \cup {Room})
  /\ retainers \in Nat
  /\ subscription \in BOOLEAN
  /\ maintenance \in Seq(Sweep)
  /\ leases \subseteq Peer
  /\ lapsed \subseteq members /\ members \subseteq Peer
  /\ shown \subseteq Peer /\ lost \subseteq Peer
  /\ host \in Hosts

\* "Leave and close must tolerate partial setup and release room subscriptions,
\* sessions, and connection leases idempotently; ... receive/leave races cannot
\* create duplicate sessions or leak resources" (presence-room.ts:131-137): a peer
\* that has left holds nothing, the fan-out count is that of the peers that hold
\* it, and a closed room keeps only what could not be unsubscribed.
NothingLeaks ==
  /\ \A p \in Peer : ~InMap(peer[p]) => p \notin leases /\ ~peer[p].fanoutRetained
  /\ closing \in {"open", "draining"} =>
       retainers = Cardinality({p \in Peer : peer[p].fanoutRetained \/ At(p, "release-lock")})
  /\ closing = "closed" => leases = {} /\ (subscription => faults > 0)

\* The Leave of c is still to be published.
LeavePending(c) ==
  \/ At(c, "publish-leave")
  \/ \E p \in Peer : \E i \in DOMAIN peer[p].queue : c \in peer[p].queue[i].leaves
  \/ \E i \in DOMAIN maintenance : c \in maintenance[i].leaves

\* Nobody stays on the screens of others for ever: a connection that is shown has
\* a session, or a record in the store that a sweep will find lapsed, or its Leave
\* is on its way or could not be published (resetState, sweepLocked, hibernation).
NoGhosts ==
  \A c \in shown \ lost : peer[c].identity \/ c \in members \/ LeavePending(c)

\* "By rearming first, the calling peer is guaranteed never to appear in the
\* expired-heartbeats list" (presence-room-implementation.ts:281-285): the sweep
\* that holds the maintenance lock never waits for a peer that waits for the lock.
NoCircularWait ==
  \A p \in Peer : HasJob(p, "swept") => ~At(p, "maintain")

=============================================================================
