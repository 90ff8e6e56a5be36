---------------------------- MODULE ClientSession ----------------------------
(***************************************************************************)
(* Browser sessions of one document, and what the server does for them.    *)
(*                                                                         *)
(* A session (createSessionController of use-document-session.ts) keeps    *)
(* the batches of its user's edits pending until the server says they are  *)
(* durable.  It writes over HTTP while the document is private and over a  *)
(* WebSocket while it is shared, repairs after each connect, and keeps the *)
(* pending batches of its user in local storage.                           *)
(*                                                                         *)
(* The server is its promises: an append is atomic, all or nothing and     *)
(* idempotent (EventStore shows it), an acknowledged batch is published to *)
(* every authenticated connection (DocumentRoom shows it).  Authentication *)
(* of a user always succeeds here, and sessions may write.                 *)
(***************************************************************************)
EXTENDS Queues

CONSTANTS
  Client,        \* browser sessions
  User,          \* signed-in users; sessions of one user share local storage
  UserOf,        \* the user of each session
  Transports,    \* transports a session may be told to use
  ChunkSize,     \* WS_MAX_BATCHES_PER_SEND, 64 in the code
  PageSize,      \* REPAIR_PAGE_SIZE, 100 in the code
  Budgets        \* the bounds considered: see BudgetAssumption

ASSUME ClientAssumption ==
  /\ UserOf \in [Client -> User]
  /\ Transports \subseteq {"http", "ws"}
  /\ Transports # {}
  /\ {ChunkSize, PageSize} \subseteq Nat \ {0}

\* A budget bounds the edits of each session, the calls of each page to setShared
\* and flush, the connections, messages and requests that fail, the pages that
\* are reloaded and the writes to local storage that throw.
ASSUME BudgetAssumption ==
  Budgets \subseteq [edits : [Client -> Nat], calls : [Client -> Nat],
                     faults : Nat, reloads : Nat, storageFaults : Nat]

\* The batch of the n-th edit of a session.
Batches == UNION {{c} \X (1 .. b.edits[c]) : c \in Client, b \in Budgets}

VARIABLES
  session,   \* the state of each session, with the two directions of its socket
  edits,     \* edits each session has made
  parents,   \* what its author knew of, for each batch made
  stored,    \* local storage: the pending batches of each user
  unsaved,   \* batches that could not be written to local storage
  log,       \* server: the durable batches of the document, in cursor order
  orphans,   \* server: writes under way whose session no longer waits for them
  bus,       \* server: batches on their way to a connection
  missed,    \* server: batches that were not published to every connection
  budget,    \* the bounds of this behaviour
  calls, faults, reloads, storageFaults  \* what the bounds count

bounds == <<budget, calls, faults, reloads, storageFaults>>
vars == <<session, edits, parents, stored, unsaved, log, orphans, bus, missed, bounds>>

\* socket is null, not yet Ready, or Ready; saves are the queued runs of the
\* save coordinator, of which "share" is the flush of setShared.
NewSession ==
  [transport |-> "none", socket |-> "none", synced |-> FALSE, fatal |-> FALSE,
   loading |-> FALSE, restored |-> FALSE, shown |-> FALSE, failed |-> FALSE,
   pending |-> <<>>, inFlight |-> {}, known |-> {}, cursor |-> 0,
   saveTimer |-> FALSE, saves |-> <<>>, http |-> "idle", carried |-> <<>>,
   status |-> "idle", up |-> <<>>, down |-> <<>>, authenticated |-> "no"]

Init ==
  /\ session = [c \in Client |-> NewSession]
  /\ edits = [c \in Client |-> 0]
  /\ parents = [b \in Batches |-> {}]
  /\ stored = [u \in User |-> <<>>]
  /\ unsaved = {}
  /\ log = <<>>
  /\ orphans = {}
  /\ bus = {}
  /\ missed = {}
  /\ budget \in Budgets
  /\ calls = [c \in Client |-> 0]
  /\ faults = 0
  /\ reloads = 0
  /\ storageFaults = 0

Becomes(c, s) == session' = [session EXCEPT ![c] = s]

Succeeds == UNCHANGED bounds

Fails ==
  /\ faults < budget.faults
  /\ faults' = faults + 1
  /\ UNCHANGED <<budget, calls, reloads, storageFaults>>

\* Mutant: a tab writes its own queue over what another tab has stored.
RememberOwn(c, b) == [stored EXCEPT ![UserOf[c]] = Append(session[c].pending, b)]

\* addPendingBatches and acknowledgePendingBatches, on what is stored by now.
Remember(c, b) == [stored EXCEPT ![UserOf[c]] = Append(@, b)]

Forget(c, ids) == [stored EXCEPT ![UserOf[c]] = Without(@, ids)]

-----------------------------------------------------------------------------
(* The outgoing queue.                                                     *)

\* The oldest pending batches.
Chunk(s) == SubSeq(s.pending, 1, IF Len(s.pending) < ChunkSize THEN Len(s.pending) ELSE ChunkSize)

\* Mutant: a new write does not wait for the one in flight.
FlushAlways(s) ==
  LET chunk == Chunk([s EXCEPT !.pending = Without(@, s.inFlight)])
  IN  IF chunk # <<>> /\ s.socket # "none"
      THEN [s EXCEPT !.inFlight = @ \cup ToSet(chunk),
                     !.up = Append(@, [type |-> "event", batches |-> chunk, after |-> 0])]
      ELSE s

\* flush: one write at a time, and only on an open socket.
Flush(s) ==
  IF s.inFlight = {} /\ s.pending # <<>> /\ s.socket # "none"
  THEN [s EXCEPT !.inFlight = ToSet(Chunk(s)),
                 !.up = Append(@, [type |-> "event", batches |-> Chunk(s), after |-> 0])]
  ELSE s

\* acknowledge: what is durable goes, the rest is offered to the socket.
Acknowledge(s, ids) ==
  Flush([s EXCEPT !.pending = Without(@, ids), !.inFlight = @ \ ids])

\* publishWsPending, and the status it shows if it sent something.
Publish(s) ==
  IF ~s.synced THEN s
  ELSE LET t == Flush(s)
       IN  IF t # s /\ ~s.failed THEN [t EXCEPT !.status = "saving"] ELSE t

\* persistHttp sends all that is pending.
SendHttp(s) == [s EXCEPT !.http = "sent", !.carried = s.pending]

\* startWsTransport
StartWs(s) == [s EXCEPT !.transport = "ws", !.fatal = FALSE]

\* The runs of the save coordinator are chained promises: the next one starts as
\* soon as there is none under way, and ends at once if nothing is pending, or
\* if there is no user yet.  The run of setShared goes on to the WebSocket.
Run(s) ==
  IF s.saves = <<>> \/ s.http # "idle" THEN s
  ELSE IF s.restored /\ s.pending # <<>> THEN SendHttp(s)
  ELSE LET t == [s EXCEPT !.saves = <<>>, !.status = IF s.restored THEN "saved" ELSE "error"]
       IN  IF "share" \in ToSet(s.saves) THEN StartWs(t) ELSE t

\* requestSave and flush of the save coordinator.
RequestSave(s, kind) == Run([s EXCEPT !.saves = Append(@, kind), !.status = "saving"])

\* A run ends: only the latest one sets the status, and setShared goes on to the
\* WebSocket whatever the outcome was.
EndSave(s, status) ==
  LET t == [s EXCEPT !.saves = Tail(@), !.http = "idle", !.carried = <<>>,
                     !.status = IF Len(s.saves) = 1 THEN status ELSE @]
  IN  Run(IF Head(s.saves) = "share" THEN StartWs(t) ELSE t)

\* Mutant: a write stays in flight when its connection is gone.
DisconnectedInFlight(s) ==
  [s EXCEPT !.socket = "none", !.synced = FALSE,
            !.up = <<>>, !.down = <<>>, !.authenticated = "no"]

\* stopWs, and the close event: pending batches stay, in-flight marks go.
Disconnected(s) ==
  [s EXCEPT !.socket = "none", !.synced = FALSE, !.inFlight = {},
            !.up = <<>>, !.down = <<>>, !.authenticated = "no"]

\* The first ensureAuth restores what local storage has for the user.
Restored(c, s) ==
  IF s.restored THEN s
  ELSE LET saved == stored[UserOf[c]]
       IN  [s EXCEPT !.restored = TRUE, !.known = @ \cup ToSet(saved),
                     !.pending = With(@, saved)]

\* A write that may still take place; only a room publishes what it stores.
Write(batches, published) == [batches |-> batches, published |-> published]

\* The writes the server may have received on the connection of c.
Unanswered(c) ==
  {Write(m.batches, TRUE) : m \in
     {x \in ToSet(session[c].up) : x.type = "event" /\ session[c].authenticated = "yes"}}

\* The connection of c is gone, and with it what was on its way to c.
CutOff(c) ==
  /\ bus' = {m \in bus : m.to # c}
  /\ orphans' = orphans \cup Unanswered(c)

-----------------------------------------------------------------------------
(* The durable log.                                                        *)

\* No batch is stored before its parents, within a request or across requests.
Acceptable(chunk) ==
  \A i \in DOMAIN chunk :
    parents[chunk[i]] \subseteq ToSet(log) \cup {chunk[j] : j \in 1 .. (i - 1)}

Store(chunk) == log' = With(log, chunk)

\* The room publishes what it stored to every authenticated connection.
Announce(chunk) ==
  bus' = bus \cup
    {[to |-> c, batch |-> b] : c \in {x \in Client : session[x].authenticated = "yes"},
                               b \in ToSet(chunk)}

Message(type, batches, next, flag) ==
  [type |-> type, batches |-> batches, next |-> next, flag |-> flag]

\* A page of the history, and whether it is the last.
Page(after) ==
  LET last == IF after + PageSize < Len(log) THEN after + PageSize ELSE Len(log)
  IN  Message("page", SubSeq(log, after + 1, last), last, last = Len(log))

Reply(s, message) == [s EXCEPT !.up = Tail(@), !.down = Append(@, message)]

-----------------------------------------------------------------------------
(* The session: transports and local edits.                                *)

\* setShared starts the first transport, or leaves one for the other; calls
\* are chained, so the next one waits for the flush or the load of this one.
SetShared(c, transport) ==
  /\ LET s == session[c]
     IN  /\ s.transport # transport
         /\ ~s.loading
         /\ "share" \notin ToSet(s.saves)
         /\ calls[c] < budget.calls[c]
         /\ CASE transport = "ws" /\ s.transport = "none" ->
                   /\ Becomes(c, StartWs(s))
                   /\ UNCHANGED <<orphans, bus>>
              [] transport = "ws" /\ s.transport = "http" ->
                   /\ Becomes(c, RequestSave([s EXCEPT !.saveTimer = FALSE], "share"))
                   /\ UNCHANGED <<orphans, bus>>
              [] transport = "http" ->
                   /\ Becomes(c, [Disconnected(s) EXCEPT !.transport = "http",
                                              !.loading = TRUE, !.status = "saving"])
                   /\ CutOff(c)
  /\ calls' = [calls EXCEPT ![c] = @ + 1]
  /\ UNCHANGED <<edits, parents, stored, unsaved, log, missed, budget, faults, reloads, storageFaults>>

\* startHttpTransport: the whole history is loaded, or that fails.
LoadHistory(c) ==
  /\ session[c].loading
  /\ LET s == [Restored(c, session[c]) EXCEPT !.loading = FALSE, !.shown = TRUE]
     IN  \/ /\ Succeeds
            /\ Becomes(c, IF s.pending = <<>>
                          THEN [s EXCEPT !.known = @ \cup ToSet(log), !.status = "saved"]
                          ELSE RequestSave([s EXCEPT !.known = @ \cup ToSet(log)], "save"))
         \/ /\ Fails
            /\ Becomes(c, [s EXCEPT !.status = "error"])
  /\ UNCHANGED <<edits, parents, stored, unsaved, log, orphans, bus, missed>>

\* connectWs: the socket opens and sends Auth.
Connect(c) ==
  /\ session[c].transport = "ws"
  /\ session[c].socket = "none"
  /\ ~session[c].fatal
  /\ Becomes(c, [Restored(c, session[c]) EXCEPT !.socket = "open",
                   !.up = <<[type |-> "auth", batches |-> <<>>, after |-> 0]>>])
  /\ UNCHANGED <<edits, parents, stored, unsaved, log, orphans, bus, missed, bounds>>

\* The socket closes by itself; scheduleReconnect leads to another Connect.
Disconnect(c) ==
  /\ session[c].socket # "none"
  /\ Fails
  /\ Becomes(c, Disconnected(session[c]))
  /\ CutOff(c)
  /\ UNCHANGED <<edits, parents, stored, unsaved, log, missed>>

\* An edit: its batch goes to local storage first, then to the queue.  If local
\* storage throws, the edit stays in the replica and nowhere else.
LocalEdit(c) ==
  /\ session[c].shown
  /\ edits[c] < budget.edits[c]
  /\ edits' = [edits EXCEPT ![c] = @ + 1]
  /\ LET b == <<c, edits'[c]>>
         s == [session[c] EXCEPT !.known = @ \cup {b}]
         queued == [s EXCEPT !.pending = Append(@, b)]
     IN  /\ parents' = [parents EXCEPT ![b] = session[c].known]
         /\ \/ /\ Succeeds
               /\ stored' = Remember(c, b)
               /\ Becomes(c, IF s.transport = "ws"
                             THEN Publish(queued)
                             ELSE [queued EXCEPT !.saveTimer = @ \/ ~s.failed])
               /\ UNCHANGED unsaved
            \/ /\ storageFaults < budget.storageFaults
               /\ storageFaults' = storageFaults + 1
               /\ unsaved' = unsaved \cup {b}
               /\ Becomes(c, [s EXCEPT !.failed = TRUE, !.status = "error"])
               /\ UNCHANGED <<stored, budget, calls, faults, reloads>>
  /\ UNCHANGED <<log, orphans, bus, missed>>

\* The page is reloaded or crashes: only local storage survives.
Reload(c) ==
  /\ session[c].transport # "none"
  /\ reloads < budget.reloads
  /\ reloads' = reloads + 1
  /\ Becomes(c, NewSession)
  /\ bus' = {m \in bus : m.to # c}
  /\ orphans' = orphans \cup Unanswered(c)
       \cup (IF session[c].http = "sent" THEN {Write(session[c].carried, FALSE)} ELSE {})
  /\ calls' = [calls EXCEPT ![c] = 0]
  /\ UNCHANGED <<edits, parents, stored, unsaved, log, missed, budget, faults, storageFaults>>

-----------------------------------------------------------------------------
(* The save coordinator and HTTP.                                          *)

\* The debounce timer fires, whatever the transport is by now.
SaveTimer(c) ==
  /\ session[c].saveTimer
  /\ Becomes(c, RequestSave([session[c] EXCEPT !.saveTimer = FALSE], "save"))
  /\ UNCHANGED <<edits, parents, stored, unsaved, log, orphans, bus, missed, bounds>>

\* flush: the page wants its edits saved before it shares the document.
SaveNow(c) ==
  /\ session[c].transport # "none"
  /\ calls[c] < budget.calls[c]
  /\ calls' = [calls EXCEPT ![c] = @ + 1]
  /\ LET s == [session[c] EXCEPT !.saveTimer = FALSE]
     IN  Becomes(c, IF s.transport = "http" THEN RequestSave(s, "save") ELSE Publish(s))
  /\ UNCHANGED <<edits, parents, stored, unsaved, log, orphans, bus, missed>>
  /\ UNCHANGED <<budget, faults, reloads, storageFaults>>

\* The server appends what it was sent or refuses it; or the request fails or
\* times out, and nobody knows whether it is still carried out.
ServeHttp(c) ==
  /\ session[c].http = "sent"
  /\ LET s == session[c]
     IN  \/ /\ Succeeds
            /\ Acceptable(s.carried)
            /\ Store(s.carried)
            /\ missed' = missed \cup (ToSet(s.carried) \ ToSet(log))
            /\ Becomes(c, [s EXCEPT !.http = "done"])
            /\ UNCHANGED orphans
         \/ /\ Succeeds
            /\ ~Acceptable(s.carried)
            /\ Becomes(c, [s EXCEPT !.http = "failed"])
            /\ UNCHANGED <<log, missed, orphans>>
         \/ /\ Fails
            /\ Becomes(c, [s EXCEPT !.http = "failed"])
            /\ orphans' = orphans \cup {Write(s.carried, FALSE)}
            /\ UNCHANGED <<log, missed>>
  /\ UNCHANGED <<edits, parents, stored, unsaved, bus>>

\* Mutant: the run ends although edits were made while the request was out.
HttpAnsweredOnce(c) ==
  /\ \/ /\ session[c].http = "done"
        /\ LET ids == ToSet(session[c].carried)
           IN  /\ Becomes(c, EndSave(Acknowledge(session[c], ids), "saved"))
               /\ stored' = Forget(c, ids)
     \/ /\ session[c].http = "failed"
        /\ Becomes(c, EndSave(session[c], "error"))
        /\ UNCHANGED stored
  /\ UNCHANGED <<edits, parents, unsaved, log, orphans, bus, missed, bounds>>

\* The answer: what is durable leaves the queue, which offers the rest to the
\* socket if there is one, and the run goes on until nothing is pending.
HttpAnswered(c) ==
  /\ \/ /\ session[c].http = "done"
        /\ LET ids == ToSet(session[c].carried)
               s == Acknowledge(session[c], ids)
           IN  /\ Becomes(c, IF s.pending = <<>> THEN EndSave(s, "saved")
                             ELSE SendHttp(s))
               /\ stored' = Forget(c, ids)
     \/ /\ session[c].http = "failed"
        /\ Becomes(c, EndSave(session[c], "error"))
        /\ UNCHANGED stored
  /\ UNCHANGED <<edits, parents, unsaved, log, orphans, bus, missed, bounds>>

-----------------------------------------------------------------------------
(* The server's side of a socket.                                          *)

\* A message before Ready is refused for good; Auth takes its time.
ServeAuth(c) ==
  /\ LET s == session[c]
     IN  \/ /\ s.up # <<>>
            /\ Head(s.up).type = "auth"
            /\ Becomes(c, [s EXCEPT !.up = Tail(@), !.authenticated = "pending"])
         \/ /\ s.authenticated = "pending"
            /\ Becomes(c, [s EXCEPT !.authenticated = "yes",
                             !.down = Append(@, Message("ready", <<>>, 0, FALSE))])
         \/ /\ s.up # <<>>
            /\ Head(s.up).type # "auth"
            /\ s.authenticated = "pending"
            /\ Becomes(c, Reply(s, Message("error", <<>>, 0, TRUE)))
  /\ UNCHANGED <<edits, parents, stored, unsaved, log, orphans, bus, missed, bounds>>

ServeEvent(c) ==
  /\ session[c].up # <<>>
  /\ session[c].authenticated = "yes"
  /\ Head(session[c].up).type = "event"
  /\ LET chunk == Head(session[c].up).batches
         s == session[c]
     IN  \/ /\ Succeeds
            /\ Acceptable(chunk)
            /\ Store(chunk)
            /\ Announce(chunk)
            /\ Becomes(c, Reply(s, Message("ack", chunk, 0, FALSE)))
            /\ UNCHANGED orphans
         \/ /\ Succeeds
            /\ ~Acceptable(chunk)
            /\ Becomes(c, Reply(s, Message("error", <<>>, 0, TRUE)))
            /\ UNCHANGED <<log, bus, orphans>>
         \/ /\ Fails
            /\ Becomes(c, Reply(s, Message("error", <<>>, 0, FALSE)))
            /\ orphans' = orphans \cup {Write(chunk, FALSE)}
            /\ UNCHANGED <<log, bus>>
  /\ UNCHANGED <<edits, parents, stored, unsaved, missed>>

ServeRepair(c) ==
  /\ session[c].up # <<>>
  /\ session[c].authenticated = "yes"
  /\ Head(session[c].up).type = "repair"
  /\ Becomes(c, Reply(session[c], Page(Head(session[c].up).after)))
  /\ UNCHANGED <<edits, parents, stored, unsaved, log, orphans, bus, missed, bounds>>

\* A write nobody waits for takes place after all, if its parents are there.
ServeOrphan ==
  \E w \in orphans :
    /\ orphans' = orphans \ {w}
    /\ \/ /\ Acceptable(w.batches)
          /\ Store(w.batches)
          /\ IF w.published
             THEN Announce(w.batches) /\ UNCHANGED missed
             ELSE missed' = missed \cup (ToSet(w.batches) \ ToSet(log)) /\ UNCHANGED bus
       \/ /\ ~Acceptable(w.batches)
          /\ UNCHANGED <<log, bus, missed>>
    /\ UNCHANGED <<session, edits, parents, stored, unsaved, bounds>>

\* A published batch reaches a connection, or is lost on the bus.
Deliver ==
  \E m \in bus :
    /\ bus' = bus \ {m}
    /\ \/ /\ Succeeds
          /\ Becomes(m.to, [session[m.to] EXCEPT
                              !.down = Append(@, Message("event", <<m.batch>>, 0, FALSE))])
          /\ UNCHANGED missed
       \/ /\ Fails
          /\ missed' = missed \cup {m.batch}
          /\ UNCHANGED session
    /\ UNCHANGED <<edits, parents, stored, unsaved, log, orphans>>

-----------------------------------------------------------------------------
(* The session: messages of the server.                                    *)

RequestRepair(s, after) ==
  [s EXCEPT !.up = Append(@, [type |-> "repair", batches |-> <<>>, after |-> after])]

\* applyBatches: a batch that is known already is skipped.
Apply(s, batches) == [s EXCEPT !.known = @ \cup ToSet(batches)]

\* Mutant: repair is taken to be complete with its first page.
ReceivePageOnce(s, m) ==
  LET t == Publish([Apply(s, m.batches) EXCEPT !.cursor = m.next, !.synced = TRUE, !.shown = TRUE])
  IN  IF t.pending = <<>> /\ ~t.failed THEN [t EXCEPT !.status = "saved"] ELSE t

\* The next page is asked for until the last; then what is pending is sent.
ReceivePage(s, m) ==
  LET t == [Apply(s, m.batches) EXCEPT !.cursor = IF m.next > @ THEN m.next ELSE @]
      u == Publish([t EXCEPT !.synced = TRUE, !.shown = TRUE])
  IN  IF ~m.flag THEN RequestRepair(t, m.next)
      ELSE IF u.pending = <<>> /\ ~u.failed THEN [u EXCEPT !.status = "saved"] ELSE u

\* Mutant: the session starts to send as soon as it is Ready.
ReceiveReadySends(s) ==
  RequestRepair(Publish([s EXCEPT !.socket = "ready", !.synced = TRUE]), s.cursor)

\* Ready: the session repairs from its cursor before it sends anything.
ReceiveReady(s) ==
  RequestRepair([s EXCEPT !.socket = "ready", !.fatal = FALSE, !.synced = FALSE], s.cursor)

\* DurableAck
ReceiveAck(s, m) ==
  LET t == Acknowledge(s, ToSet(m.batches))
  IN  CASE t.synced /\ t.pending = <<>> /\ ~t.failed -> [t EXCEPT !.status = "saved"]
        [] t.synced /\ t.inFlight # {} /\ ~t.failed -> [t EXCEPT !.status = "saving"]
        [] OTHER -> t

\* The session handles the next message; an Error closes the socket, for good
\* if the server said so.
Receive(c) ==
  /\ session[c].down # <<>>
  /\ LET m == Head(session[c].down)
         s == [session[c] EXCEPT !.down = Tail(@)]
     IN  /\ Becomes(c, CASE m.type = "ready" -> ReceiveReady(s)
                          [] m.type = "page" -> ReceivePage(s, m)
                          [] m.type = "event" -> Apply(s, m.batches)
                          [] m.type = "ack" -> ReceiveAck(s, m)
                          [] m.type = "error" -> [Disconnected(s) EXCEPT !.fatal = m.flag])
         /\ stored' = IF m.type = "ack" THEN Forget(c, ToSet(m.batches)) ELSE stored
         /\ IF m.type = "error" THEN CutOff(c) ELSE UNCHANGED <<orphans, bus>>
  /\ UNCHANGED <<edits, parents, unsaved, log, missed, bounds>>

-----------------------------------------------------------------------------
SessionStep(c) ==
  \/ LoadHistory(c)
  \/ Connect(c)
  \/ SaveTimer(c)
  \/ HttpAnswered(c)
  \/ Receive(c)

ServerStep(c) == ServeHttp(c) \/ ServeAuth(c) \/ ServeEvent(c) \/ ServeRepair(c)

Next ==
  \/ \E c \in Client :
       \/ \E transport \in Transports : SetShared(c, transport)
       \/ LocalEdit(c)
       \/ SaveNow(c)
       \/ Disconnect(c)
       \/ Reload(c)
       \/ SessionStep(c)
       \/ ServerStep(c)
  \/ ServeOrphan
  \/ Deliver

Spec == Init /\ [][Next]_vars

\* Timers fire, promises go on, and the server serves what it has received.
FairSpec ==
  /\ Spec
  /\ \A c \in Client : WF_vars(SessionStep(c)) /\ WF_vars(ServerStep(c))
  /\ WF_vars(Deliver)

-----------------------------------------------------------------------------
(* Properties. *)

Durable == ToSet(log)

Made == {b \in Batches : b[2] <= edits[b[1]]}

\* The state of the sessions and of the server is well formed.
TypeOK ==
  /\ \A c \in Client :
       LET s == session[c]
       IN  /\ s.transport \in {"none", "http", "ws"}
           /\ s.socket \in {"none", "open", "ready"}
           /\ ToSet(s.pending) \cup s.inFlight \cup s.known \subseteq Made
           /\ IsInjective(s.pending)
           /\ s.cursor <= Len(log)
           /\ s.socket = "none" => s.up = <<>> /\ s.down = <<>> /\ s.inFlight = {}
  /\ \A u \in User : ToSet(stored[u]) \subseteq Made
  /\ IsInjective(log)
  /\ bus \subseteq [to : {c \in Client : session[c].authenticated = "yes"}, batch : Durable]

\* "The outgoing queue preserves exact batch identity across disconnect"
\* (collaboration-consistency.md:30): an edit is durable, or it is in its user's
\* local storage, through acknowledgements, reconnects and reloads of the page.
NoEditLost ==
  \A b \in Made \ unsaved : b \in Durable \/ b \in ToSet(stored[UserOf[b[1]]])

\* The server always knows the parents of what it is sent: "transient races from
\* overlapping in-flight dependent writes should no longer reach this path"
\* (collaboration-consistency.md:109).
NoMissingParents ==
  \A c \in Client :
    /\ session[c].up # <<>> /\ Head(session[c].up).type = "event" =>
         Acceptable(Head(session[c].up).batches)
    /\ session[c].http = "sent" => Acceptable(session[c].carried)

\* "After reconnect, the session repairs first, then exact-resends pending
\* batches" (collaboration-consistency.md:31): while a write is on its way, the
\* socket is Ready and no page of the history is asked for or yet to be read.
RepairsFirst ==
  \A c \in Client : session[c].inFlight # {} =>
    /\ session[c].socket = "ready"
    /\ \A m \in ToSet(session[c].up) : m.type # "repair"
    /\ \A m \in ToSet(session[c].down) : m.type # "page"

\* "If fan-out fails after commit, peers recover through repair/resync"
\* (collaboration-consistency.md:50-51): a session knows all history before its
\* cursor, and once synced also what came after it, or that is on its way,
\* unless it was not published.
SyncedSeesAll ==
  \A c \in Client :
    LET s == session[c]
    IN  /\ ToSet(SubSeq(log, 1, s.cursor)) \subseteq s.known
        /\ s.synced => \A b \in Durable :
             \/ b \in s.known \cup missed
             \/ [to |-> c, batch |-> b] \in bus
             \/ \E i \in DOMAIN s.down : b \in ToSet(s.down[i].batches)

\* "a storage failure ... cannot flip flush/saved state for unsent batches"
\* (use-document-session.ts:193-194): when the status becomes "saved", all the
\* document shows is durable, edits made while the last save ran included.
SavedIsDurable ==
  [][\A c \in Client :
       session[c].status # "saved" /\ session'[c].status = "saved" =>
         session'[c].known \subseteq ToSet(log')]_vars

\* Pending batches are resent until they are durable: a shared session need not
\* be edited again for an edit to survive a lost connection or a failed append.
EditsBecomeDurable ==
  \A b \in Batches :
    (b \in Made /\ session[b[1]].transport = "ws") ~>
      (b \in Durable \/ session[b[1]].transport # "ws")

\* A shared session learns of every durable batch that was published at all.
SessionsConverge ==
  \A c \in Client, b \in Batches :
    (b \in Durable \ missed /\ session[c].transport = "ws") ~>
      (b \in session[c].known \cup missed \/ session[c].transport # "ws")

=============================================================================
