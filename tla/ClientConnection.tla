-------------------------- MODULE ClientConnection --------------------------
(***************************************************************************)
(* How a browser session keeps one WebSocket: connectWs, stopWs and the    *)
(* reconnect logic of createSessionController (use-document-session.ts).   *)
(*                                                                         *)
(* A connection starts as an attempt that reads the signed-in session,     *)
(* gets a socket, and becomes Ready.  Timers, browser signals, the socket's *)
(* events, calls to setShared and dispose come in any order, and what an   *)
(* older generation started may still be answered.  ClientSession has the  *)
(* edits and messages of the session, and one Connect for all of this.     *)
(*                                                                         *)
(* Time is left out: a timer that is set fires at some time.  The status   *)
(* is what the page is told when local storage works.                      *)
(***************************************************************************)
EXTENDS Naturals, Sequences

CONSTANTS
  Connections,   \* bound: attempts and sockets that exist at a time
  None,          \* null
  Modes,         \* sessionMode: "authenticated" or "public"
  MaxCalls,      \* bound: calls of the page to setShared
  MaxFaults,     \* bound: failed session reads, refused and lost connections
  MaxOutages     \* bound: times the browser goes offline

ASSUME ConnectionAssumption ==
  /\ Connections \in Nat \ {0}
  /\ None \notin Nat
  /\ Modes \subseteq {"authenticated", "public"}
  /\ {MaxCalls, MaxFaults, MaxOutages} \subseteq Nat

Conns == 1 .. Connections

\* An attempt reads the session; a socket opens, is open, has received Ready,
\* or has been closed and has not reported it yet.
Stages == {"free", "auth", "opening", "open", "ready", "closing"}

VARIABLES
  client,      \* the variables of the closure
  conn,        \* every attempt and socket, with the wsGeneration it captured
  mode,        \* sessionMode
  usable,      \* whether documentUrl is one that a WebSocket can be made for
  online,      \* navigator.onLine
  signal,      \* an online event is about to be handled
  shares,      \* shareSwitch: the transports asked for and not yet dealt with
  run,         \* the call of setShared under way, and the attempt it waits for
  calls, faults, outages  \* what the bounds count

bounds == <<calls, faults, outages>>
vars == <<client, conn, mode, usable, online, signal, shares, run, bounds>>

Idle == [at |-> "idle", conn |-> None]

Init ==
  /\ client = [transport |-> "none", cancelled |-> FALSE, fatal |-> FALSE, generation |-> 0,
               connectPending |-> FALSE, timer |-> None, socket |-> None,
               accelerated |-> FALSE, status |-> "disabled"]
  /\ conn = [i \in Conns |-> [stage |-> "free", generation |-> 0]]
  /\ mode \in Modes
  /\ usable \in BOOLEAN
  /\ online = TRUE
  /\ signal = FALSE
  /\ shares = <<>>
  /\ run = Idle
  /\ calls = 0
  /\ faults = 0
  /\ outages = 0

-----------------------------------------------------------------------------
(* The state of the closure and its connections, as one record [c, conn].  *)

State(c, connections) == [c |-> c, conn |-> connections]

Now == State(client, conn)

Becomes(s) == client' = s.c /\ conn' = s.conn

Wanted(c) == ~c.cancelled /\ c.transport = "ws" /\ ~c.fatal

Staged(connections, i, stage) == [connections EXCEPT ![i].stage = stage]

\* The listeners of a socket act for the live session only.
Live(i) ==
  /\ conn[i].generation = client.generation
  /\ ~client.cancelled
  /\ client.socket = i
  /\ client.transport = "ws"

\* The WebSocket constructor throws for an unusable endpoint, and the session
\* gives up.
Open(s, i) ==
  IF usable
  THEN State([s.c EXCEPT !.socket = i, !.connectPending = FALSE],
             Staged(s.conn, i, "opening"))
  ELSE State([s.c EXCEPT !.connectPending = FALSE, !.fatal = TRUE, !.status = "error"],
             Staged(s.conn, i, "free"))

FreeConn(s) == CHOOSE i \in Conns : s.conn[i].stage = "free"

\* The bound on connections, in the guards of what may start one.
Room == {i \in Conns : conn[i].stage = "free"} # {}

\* An attempt of the current generation.
Begin(s, i) ==
  State([s.c EXCEPT !.connectPending = TRUE, !.timer = None, !.status = "connecting"],
        [s.conn EXCEPT ![i] = [stage |-> "auth", generation |-> s.c.generation]])

\* connectWs: one attempt and one socket per session.  A public session has no
\* session to read and opens its socket at once.
Connect(s) ==
  IF ~Wanted(s.c) \/ s.c.connectPending \/ s.c.socket # None THEN s
  ELSE IF mode = "public" THEN Open(Begin(s, FreeConn(s)), FreeConn(s))
  ELSE Begin(s, FreeConn(s))

\* scheduleReconnect: nothing if a timer, an attempt or a socket has it covered,
\* or while the browser is offline.
ScheduleReconnect(c) ==
  IF /\ Wanted(c)
     /\ c.timer = None /\ ~c.connectPending /\ c.socket = None
     /\ online
  THEN [c EXCEPT !.timer = c.generation]
  ELSE c

Accelerated(c) == [c EXCEPT !.accelerated = TRUE, !.timer = None]

\* Mutant: a signal that comes too soon after another is dropped.
ReconnectNowOrNever ==
  IF /\ Wanted(client) /\ client.socket = None /\ ~client.connectPending
     /\ online /\ ~client.accelerated
  THEN Connect(State(Accelerated(client), conn))
  ELSE Now

\* reconnectNow: a signal connects at once, or within
\* RECONNECT_ACCELERATION_INTERVAL_MS of the last one leaves it to the timer.
ReconnectNow ==
  IF ~Wanted(client) \/ client.socket # None \/ client.connectPending \/ ~online THEN Now
  ELSE IF client.accelerated THEN State(ScheduleReconnect(client), conn)
  ELSE Connect(State(Accelerated(client), conn))

\* Mutant: the socket is closed, and stays the session's.
StoppedKeepsSocket ==
  [client EXCEPT !.generation = @ + 1, !.connectPending = FALSE, !.timer = None]

\* stopWs retires what the current generation has started,
Stopped ==
  [client EXCEPT !.generation = @ + 1, !.connectPending = FALSE, !.timer = None, !.socket = None]

\* and closes its socket.
Abandoned == IF client.socket = None THEN conn ELSE Staged(conn, client.socket, "closing")

\* startWsTransport
StartWs ==
  Connect(State([client EXCEPT !.transport = "ws", !.accelerated = FALSE, !.fatal = FALSE,
                               !.status = "connecting"], conn))

Succeeds == UNCHANGED bounds

Fails == faults < MaxFaults /\ faults' = faults + 1 /\ UNCHANGED <<calls, outages>>

-----------------------------------------------------------------------------
(* Calls of the page.                                                      *)

SetShared(transport) ==
  /\ ~client.cancelled
  /\ calls < MaxCalls
  /\ mode = "public" => transport = "ws"
  /\ shares' = Append(shares, transport)
  /\ calls' = calls + 1
  /\ UNCHANGED <<client, conn, mode, usable, online, signal, run, faults, outages>>

\* run goes on to the WebSocket, and waits until its attempt has ended.
RunWs ==
  /\ Room
  /\ Becomes(StartWs)
  /\ run' = IF \E i \in Conns : conn'[i].stage = "auth" /\ conn[i].stage = "free"
            THEN [at |-> "connect",
                  conn |-> CHOOSE i \in Conns : conn'[i].stage = "auth" /\ conn[i].stage = "free"]
            ELSE Idle

\* The next call to setShared: the calls are chained.
StartRun ==
  /\ run = Idle
  /\ shares # <<>>
  /\ shares' = Tail(shares)
  /\ \/ /\ client.cancelled \/ client.transport = Head(shares)
        /\ UNCHANGED <<client, conn, run>>
     \/ /\ ~client.cancelled
        /\ client.transport # Head(shares)
        /\ CASE Head(shares) = "ws" /\ client.transport = "none" -> RunWs
             [] Head(shares) = "ws" /\ client.transport = "http" ->
                  run' = [Idle EXCEPT !.at = "stop-http"] /\ UNCHANGED <<client, conn>>
             [] Head(shares) = "http" ->
                  /\ Becomes(State([Stopped EXCEPT !.transport = "http", !.status = "disabled"], Abandoned))
                  /\ run' = [Idle EXCEPT !.at = "start-http"]
  /\ UNCHANGED <<mode, usable, online, signal, bounds>>

\* The last save over HTTP has ended; or the history has been loaded, or not.
HttpEnds ==
  /\ \/ run.at = "stop-http" /\ ~client.cancelled /\ RunWs
     \/ /\ run.at = "start-http" \/ (run.at = "stop-http" /\ client.cancelled)
        /\ run' = Idle
        /\ UNCHANGED <<client, conn>>
  /\ UNCHANGED <<mode, usable, online, signal, shares, bounds>>

Dispose ==
  /\ ~client.cancelled
  /\ Becomes(State([Stopped EXCEPT !.cancelled = TRUE, !.transport = "none"], Abandoned))
  /\ UNCHANGED <<mode, usable, online, signal, shares, run, bounds>>

-----------------------------------------------------------------------------
(* An attempt and its socket.                                              *)

\* The attempt is over, and no socket comes of it.
AttemptEnds(i) == State([client EXCEPT !.connectPending = FALSE], Staged(conn, i, "free"))

\* Mutant: an attempt does not ask whether it has been retired.
AuthAnsweredLate(i) ==
  /\ conn[i].stage = "auth"
  /\ \/ /\ client.cancelled \/ client.transport # "ws"
        /\ Succeeds
        /\ Becomes(AttemptEnds(i))
     \/ ~client.cancelled /\ client.transport = "ws" /\ Succeeds /\ Becomes(Open(Now, i))
     \/ Fails /\ Becomes(State(ScheduleReconnect(AttemptEnds(i).c), AttemptEnds(i).conn))
  /\ run' = IF run.conn = i THEN Idle ELSE run
  /\ UNCHANGED <<mode, usable, online, signal, shares>>

\* ensureAuth resolves: a retired attempt ends and touches nothing; a session
\* that could not be read is tried again later.
AuthAnswered(i) ==
  /\ conn[i].stage = "auth"
  /\ LET retired == conn[i].generation # client.generation
         over == client.cancelled \/ client.transport # "ws"
     IN  \/ /\ retired \/ over
            /\ Succeeds
            /\ Becomes(IF retired THEN State(client, Staged(conn, i, "free")) ELSE AttemptEnds(i))
         \/ ~retired /\ ~over /\ Succeeds /\ Becomes(Open(Now, i))
         \/ /\ ~retired /\ ~over
            /\ Fails
            /\ Becomes(State(ScheduleReconnect(AttemptEnds(i).c), AttemptEnds(i).conn))
  /\ run' = IF run.conn = i THEN Idle ELSE run
  /\ UNCHANGED <<mode, usable, online, signal, shares>>

\* The socket opens and sends Auth.
Opened(i) ==
  /\ conn[i].stage = "opening"
  /\ Becomes(State(client, Staged(conn, i, "open")))
  /\ UNCHANGED <<mode, usable, online, signal, shares, run, bounds>>

\* Ready: the connection is proven usable.
Ready(i) ==
  /\ conn[i].stage = "open"
  /\ Live(i)
  /\ Becomes(State([client EXCEPT !.timer = None, !.fatal = FALSE, !.status = "connected"],
                   Staged(conn, i, "ready")))
  /\ UNCHANGED <<mode, usable, online, signal, shares, run, bounds>>

\* An Error, or a message that cannot be read or applied: the session closes the
\* socket, for good if the server says so or sent no message of the protocol.
Refused(i) ==
  /\ conn[i].stage \in {"open", "ready"}
  /\ Live(i)
  /\ Fails
  /\ \/ Becomes(State(client, Staged(conn, i, "closing")))
     \/ Becomes(State([client EXCEPT !.fatal = TRUE, !.status = "error"],
                      Staged(conn, i, "closing")))
  /\ UNCHANGED <<mode, usable, online, signal, shares, run>>

\* Mutant: the close event does not look at why the socket was closed.
CloseEventOffline(i) ==
  IF Live(i)
  THEN ScheduleReconnect([client EXCEPT !.socket = None, !.status = "offline"])
  ELSE client

\* The listener of the close event.
CloseEvent(i) ==
  IF ~Live(i) THEN client
  ELSE IF client.fatal THEN [client EXCEPT !.socket = None]
  ELSE ScheduleReconnect([client EXCEPT !.socket = None, !.status = "offline"])

\* The socket has been closed by the session; or the network or the server
\* closes it, or it cannot be opened.
Closed(i) ==
  /\ \/ conn[i].stage = "closing" /\ Succeeds
     \/ conn[i].stage = "opening" /\ ~online /\ Succeeds
     \/ conn[i].stage \in {"opening", "open", "ready"} /\ Fails
  /\ Becomes(State(CloseEvent(i), Staged(conn, i, "free")))
  /\ UNCHANGED <<mode, usable, online, signal, shares, run>>

-----------------------------------------------------------------------------
(* Timers and the browser.                                                 *)

TimerFires ==
  /\ client.timer # None
  /\ Room
  /\ LET s == State([client EXCEPT !.timer = None], conn)
     IN  Becomes(IF client.timer = client.generation THEN Connect(s) ELSE s)
  /\ UNCHANGED <<mode, usable, online, signal, shares, run, bounds>>

\* RECONNECT_ACCELERATION_INTERVAL_MS have passed.
IntervalEnds ==
  /\ client.accelerated
  /\ client' = [client EXCEPT !.accelerated = FALSE]
  /\ UNCHANGED <<conn, mode, usable, online, signal, shares, run, bounds>>

GoOffline ==
  /\ online
  /\ outages < MaxOutages
  /\ online' = FALSE
  /\ outages' = outages + 1
  /\ UNCHANGED <<client, conn, mode, usable, signal, shares, run, calls, faults>>

\* The event is a task of its own: the browser is online before it is handled.
GoOnline ==
  /\ ~online
  /\ online' = TRUE
  /\ signal' = TRUE
  /\ UNCHANGED <<client, conn, mode, usable, shares, run, bounds>>

\* handleOnline; dispose has removed the listener.
HandleOnline ==
  /\ signal
  /\ Room
  /\ signal' = FALSE
  /\ IF client.cancelled THEN UNCHANGED <<client, conn>> ELSE Becomes(ReconnectNow)
  /\ UNCHANGED <<mode, usable, online, shares, run, bounds>>

\* handleVisibilityChange, when the page becomes visible.
HandleVisible ==
  /\ ~client.cancelled
  /\ Room
  /\ Becomes(ReconnectNow)
  /\ UNCHANGED <<mode, usable, online, signal, shares, run, bounds>>

-----------------------------------------------------------------------------
ConnStep(i) == AuthAnswered(i) \/ Opened(i) \/ Ready(i) \/ Closed(i)

RunStep == StartRun \/ HttpEnds

Next ==
  \/ \E transport \in {"http", "ws"} : SetShared(transport)
  \/ RunStep
  \/ Dispose
  \/ \E i \in Conns : ConnStep(i) \/ Refused(i)
  \/ TimerFires
  \/ IntervalEnds
  \/ GoOffline
  \/ GoOnline
  \/ HandleOnline
  \/ HandleVisible

Spec == Init /\ [][Next]_vars

\* Promises settle, sockets open or close, timers fire and events are handled;
\* nobody has to look at the page, or to call setShared again.
FairSpec ==
  /\ Spec
  /\ \A i \in Conns : WF_vars(ConnStep(i))
  /\ WF_vars(RunStep)
  /\ WF_vars(TimerFires)
  /\ WF_vars(HandleOnline)

-----------------------------------------------------------------------------
(* Properties. *)

\* The state is well formed; the session's socket and the attempt that a call of
\* setShared waits for are ones that exist.
TypeOK ==
  /\ client \in [transport : {"none", "http", "ws"}, cancelled : BOOLEAN, fatal : BOOLEAN,
                 generation : Nat, connectPending : BOOLEAN, timer : Nat \cup {None},
                 socket : Conns \cup {None}, accelerated : BOOLEAN,
                 status : {"disabled", "connecting", "connected", "offline", "error"}]
  /\ conn \in [Conns -> [stage : Stages, generation : 0 .. client.generation]]
  /\ mode \in {"authenticated", "public"}
  /\ {usable, online, signal} \subseteq BOOLEAN
  /\ shares \in Seq({"http", "ws"})
  /\ run \in [at : {"idle", "connect", "stop-http", "start-http"}, conn : Conns \cup {None}]
  /\ client.socket # None => conn[client.socket].stage \notin {"free", "auth"}
  /\ run.at = "connect" => run.conn # None
  /\ run.conn # None => conn[run.conn].stage = "auth"

\* "Callbacks captured under an older generation ... must never touch the live
\* session or open a socket for a session that has already been retired", "that
\* is how two sockets would end up open at once", and "at most one timer exists"
\* (use-document-session.ts:139-142, 450-452, 360-362): a socket that is not being
\* closed is the session's own, a session that is private or disposed has none, the
\* pending attempt is the only one of its generation, and no two of a timer, an
\* attempt and a socket are there at once.
Pending(i) == conn[i].stage = "auth" /\ conn[i].generation = client.generation
OneConnection ==
  /\ \A i \in Conns : conn[i].stage \in {"opening", "open", "ready"} => client.socket = i
  /\ client.socket # None =>
       /\ conn[client.socket].generation = client.generation
       /\ client.transport = "ws"
       /\ ~client.cancelled
       /\ ~client.connectPending
  /\ client.connectPending <=> \E i \in Conns : Pending(i)
  /\ \A i, j \in Conns : Pending(i) /\ Pending(j) => i = j
  /\ client.timer # None => client.socket = None /\ ~client.connectPending

\* The page is told what the connection is like: "connected" only while a Ready
\* socket is there, however it came to be replaced, and an error that ended the
\* session is not covered up by the close event that follows it
\* (use-document-session.ts:573-613).
StatusIsTrue ==
  /\ client.status = "connected" /\ ~client.cancelled =>
       client.socket # None /\ conn[client.socket].stage \in {"ready", "closing"}
  /\ client.fatal /\ client.transport = "ws" => client.status = "error"

\* "Fall back to the jittered schedule rather than dropping the signal, so a loop
\* suppressed while offline still resumes" (use-document-session.ts:401-402): a shared session of a browser that is
\* online connects, without anybody looking at the page, unless it is ended.
Reconnects ==
  (Wanted(client) /\ online) ~> (client.status = "connected" \/ ~Wanted(client) \/ ~online)
=============================================================================
