----------------------- MODULE ClientConnectionProofs -----------------------
(***************************************************************************)
(* Proofs about ClientConnection, for any number of connections, calls,    *)
(* faults and outages.  The invariant is stated of the variables of the    *)
(* closure and of its connections as parameters, because the operators of  *)
(* the module are functions of them: each operator is shown to keep it,    *)
(* and the actions follow.                                                 *)
(***************************************************************************)
EXTENDS ClientConnection, TLAPS

Statuses == {"disabled", "connecting", "connected", "offline", "error"}

Client == [transport : {"none", "http", "ws"}, cancelled : BOOLEAN, fatal : BOOLEAN,
           generation : Nat, connectPending : BOOLEAN, timer : Nat \cup {None},
           socket : Conns \cup {None}, accelerated : BOOLEAN, status : Statuses]

Typed(c, k) ==
  /\ c \in Client
  /\ k \in [Conns -> [stage : Stages, generation : Nat]]
  /\ \A i \in Conns : k[i].generation <= c.generation

PendingOf(c, k, i) == k[i].stage = "auth" /\ k[i].generation = c.generation

Attempts(c, k) ==
  /\ c.connectPending => \E i \in Conns : PendingOf(c, k, i)
  /\ \A i \in Conns : PendingOf(c, k, i) => c.connectPending
  /\ \A i, j \in Conns : PendingOf(c, k, i) /\ PendingOf(c, k, j) => i = j

Sockets(c, k) ==
  /\ \A i \in Conns : k[i].stage \in {"opening", "open", "ready"} => c.socket = i
  /\ c.socket # None =>
       /\ k[c.socket].stage \notin {"free", "auth"}
       /\ k[c.socket].generation = c.generation
       /\ c.transport = "ws"
       /\ ~c.cancelled
       /\ ~c.connectPending
  /\ c.timer # None => c.socket = None /\ ~c.connectPending

Shown(c, k) ==
  /\ c.status = "connected" /\ ~c.cancelled =>
       c.socket # None /\ k[c.socket].stage \in {"ready", "closing"}
  /\ c.fatal /\ c.transport = "ws" => c.status = "error"

Good(c, k) == Typed(c, k) /\ Attempts(c, k) /\ Sockets(c, k) /\ Shown(c, k)

USE DEF Stages, Statuses

-----------------------------------------------------------------------------
(* What the operators keep.                                                *)

\* No connection is null.
LEMMA NoneIsNoConn == None \notin Conns /\ Conns \subseteq Nat
BY ConnectionAssumption DEF Conns

\* scheduleReconnect sets a timer only where there is nothing else.
LEMMA ScheduleGood ==
  ASSUME NEW c, NEW k, Good(c, k)
  PROVE  Good(ScheduleReconnect(c), k)
<1>1. CASE ScheduleReconnect(c) = c
  BY <1>1
<1>2. CASE ScheduleReconnect(c) # c
  <2> DEFINE d == ScheduleReconnect(c)
  <2>1. d = [c EXCEPT !.timer = c.generation] /\ c.socket = None /\ ~c.connectPending
    BY <1>2 DEF ScheduleReconnect
  <2>2. c \in Client
    BY DEF Good, Typed
  <2>3. /\ d \in Client
        /\ d.transport = c.transport /\ d.cancelled = c.cancelled /\ d.fatal = c.fatal
        /\ d.generation = c.generation /\ d.connectPending = c.connectPending
        /\ d.socket = c.socket /\ d.status = c.status
    BY <2>1, <2>2 DEF Client
  <2> HIDE DEF d
  <2>4. Typed(d, k)
    BY <2>3 DEF Good, Typed
  <2>5. Attempts(d, k)
    BY <2>3 DEF Good, Attempts, PendingOf
  <2>6. Sockets(d, k)
    BY <2>1, <2>3 DEF Good, Sockets
  <2>7. Shown(d, k)
    BY <2>3 DEF Good, Shown
  <2> QED BY <2>4, <2>5, <2>6, <2>7 DEF Good, d
<1> QED BY <1>1, <1>2

\* An attempt begins where there is neither an attempt nor a socket.
LEMMA BeginGood ==
  ASSUME NEW c, NEW k, NEW i \in Conns, Good(c, k),
         Wanted(c), ~c.connectPending, c.socket = None, k[i].stage = "free"
  PROVE  LET s == Begin(State(c, k), i)
         IN  /\ Good(s.c, s.conn) /\ s.c.connectPending /\ PendingOf(s.c, s.conn, i)
             /\ s.c.transport = "ws" /\ ~s.c.cancelled
<1> DEFINE d == Begin(State(c, k), i).c
           l == Begin(State(c, k), i).conn
<1>1. /\ d = [c EXCEPT !.connectPending = TRUE, !.timer = None, !.status = "connecting"]
      /\ l = [k EXCEPT ![i] = [stage |-> "auth", generation |-> c.generation]]
  BY DEF Begin, State
<1>2. c \in Client /\ k \in [Conns -> [stage : Stages, generation : Nat]]
  BY DEF Good, Typed
<1>3. /\ d \in Client /\ d.connectPending /\ d.timer = None /\ d.status = "connecting"
      /\ d.transport = c.transport /\ d.cancelled = c.cancelled /\ d.fatal = c.fatal
      /\ d.generation = c.generation /\ d.socket = c.socket
  BY <1>1, <1>2 DEF Client
<1>4. /\ l \in [Conns -> [stage : Stages, generation : Nat]]
      /\ l[i].stage = "auth" /\ l[i].generation = c.generation
      /\ \A j \in Conns \ {i} : l[j] = k[j]
  BY <1>1, <1>2, <1>3 DEF Client
<1> HIDE DEF d, l
<1>5. Typed(d, l)
  BY <1>3, <1>4 DEF Good, Typed, Client
<1>6. Attempts(d, l)
  BY <1>3, <1>4 DEF Good, Attempts, PendingOf
<1>7. Sockets(d, l)
  BY <1>3, <1>4 DEF Good, Sockets
<1>8. Shown(d, l)
  BY <1>3, <1>4 DEF Good, Shown, Wanted
<1> QED BY <1>3, <1>4, <1>5, <1>6, <1>7, <1>8 DEF Good, PendingOf, Wanted, d, l

\* The pending attempt becomes the session's socket, or the session gives up.
LEMMA OpenGood ==
  ASSUME NEW c, NEW k, NEW i \in Conns, Good(c, k),
         PendingOf(c, k, i), c.transport = "ws", ~c.cancelled
  PROVE  LET s == Open(State(c, k), i) IN Good(s.c, s.conn)
<1>0. /\ c \in Client /\ k \in [Conns -> [stage : Stages, generation : Nat]]
      /\ c.connectPending /\ c.socket = None /\ c.timer = None
      /\ \A j \in Conns \ {i} : ~PendingOf(c, k, j)
  BY DEF Good, Typed, Attempts, Sockets
<1> DEFINE d == Open(State(c, k), i).c
           l == Open(State(c, k), i).conn
<1>1. CASE usable
  <2>1. /\ d = [c EXCEPT !.socket = i, !.connectPending = FALSE]
        /\ l = [k EXCEPT ![i].stage = "opening"]
    BY <1>1 DEF Open, State, Staged
  <2>2. /\ d \in Client /\ ~d.connectPending /\ d.socket = i
        /\ d.transport = c.transport /\ d.cancelled = c.cancelled /\ d.fatal = c.fatal
        /\ d.generation = c.generation /\ d.timer = c.timer /\ d.status = c.status
    BY <1>0, <2>1 DEF Client
  <2>3. /\ l \in [Conns -> [stage : Stages, generation : Nat]]
        /\ l[i].stage = "opening" /\ l[i].generation = k[i].generation
        /\ \A j \in Conns \ {i} : l[j] = k[j]
    BY <1>0, <2>1
  <2> HIDE DEF d, l
  <2>4. Typed(d, l)
    BY <2>2, <2>3 DEF Good, Typed
  <2>5. Attempts(d, l)
    BY <1>0, <2>2, <2>3 DEF Attempts, PendingOf
  <2>6. Sockets(d, l)
    BY <1>0, <2>2, <2>3, NoneIsNoConn DEF Good, Sockets, PendingOf
  <2>7. Shown(d, l)
    BY <1>0, <2>2, <2>3 DEF Good, Shown
  <2> QED BY <2>4, <2>5, <2>6, <2>7 DEF Good, d, l
<1>2. CASE ~usable
  <2>1. /\ d = [c EXCEPT !.connectPending = FALSE, !.fatal = TRUE, !.status = "error"]
        /\ l = [k EXCEPT ![i].stage = "free"]
    BY <1>2 DEF Open, State, Staged
  <2>2. /\ d \in Client /\ ~d.connectPending /\ d.fatal /\ d.status = "error"
        /\ d.transport = c.transport /\ d.cancelled = c.cancelled
        /\ d.generation = c.generation /\ d.timer = c.timer /\ d.socket = c.socket
    BY <1>0, <2>1 DEF Client
  <2>3. /\ l \in [Conns -> [stage : Stages, generation : Nat]]
        /\ l[i].stage = "free" /\ l[i].generation = k[i].generation
        /\ \A j \in Conns \ {i} : l[j] = k[j]
    BY <1>0, <2>1
  <2> HIDE DEF d, l
  <2>4. Typed(d, l)
    BY <2>2, <2>3 DEF Good, Typed
  <2>5. Attempts(d, l)
    BY <1>0, <2>2, <2>3 DEF Attempts, PendingOf
  <2>6. Sockets(d, l)
    <3>1. \A j \in Conns : l[j].stage \in {"opening", "open", "ready"} => d.socket = j
      BY <2>2, <2>3 DEF Good, Sockets
    <3>2. d.socket = None
      BY <1>0, <2>2
    <3> QED BY <2>2, <3>1, <3>2 DEF Sockets
  <2>7. Shown(d, l)
    BY <2>2 DEF Shown
  <2> QED BY <2>4, <2>5, <2>6, <2>7 DEF Good, d, l
<1> QED BY <1>1, <1>2

\* connectWs
LEMMA ConnectGood ==
  ASSUME NEW c, NEW k, Good(c, k), \E i \in Conns : k[i].stage = "free"
  PROVE  LET s == Connect(State(c, k)) IN Good(s.c, s.conn)
<1> DEFINE i == FreeConn(State(c, k))
<1>1. State(c, k).c = c /\ State(c, k).conn = k
  BY DEF State
<1>2. i \in Conns /\ k[i].stage = "free"
  BY <1>1 DEF FreeConn
<1> HIDE DEF i
<1>3. CASE ~Wanted(c) \/ c.connectPending \/ c.socket # None
  BY <1>1, <1>3 DEF Connect
<1>4. CASE ~(~Wanted(c) \/ c.connectPending \/ c.socket # None)
  <2> DEFINE s == Begin(State(c, k), i)
  <2>1. /\ Good(s.c, s.conn) /\ PendingOf(s.c, s.conn, i)
        /\ s.c.transport = "ws" /\ ~s.c.cancelled
    BY <1>2, <1>4, BeginGood
  <2>2. s = State(s.c, s.conn)
    BY DEF Begin, State
  <2>3. Connect(State(c, k)) = IF mode = "public" THEN Open(s, i) ELSE s
    BY <1>1, <1>4 DEF Connect, i
  <2> HIDE DEF s
  <2>4. Good(Open(s, i).c, Open(s, i).conn)
    BY <1>2, <2>1, <2>2, OpenGood
  <2> QED BY <2>1, <2>3, <2>4
<1> QED BY <1>3, <1>4

\* stopWs retires the attempts and closes the socket of the generation.
LEMMA StopGood ==
  ASSUME Good(client, conn)
  PROVE  /\ Good([Stopped EXCEPT !.transport = "http", !.status = "disabled"], Abandoned)
         /\ Good([Stopped EXCEPT !.cancelled = TRUE, !.transport = "none"], Abandoned)
<1>0. client \in Client /\ conn \in [Conns -> [stage : Stages, generation : Nat]]
  BY DEF Good, Typed
<1>1. /\ Stopped \in Client
      /\ Stopped.generation = client.generation + 1 /\ ~Stopped.connectPending
      /\ Stopped.timer = None /\ Stopped.socket = None
  <2>1. client.generation \in Nat /\ client.generation + 1 \in Nat
    BY <1>0 DEF Client
  <2> QED BY <1>0, <2>1 DEF Stopped, Client
<1> DEFINE l == Abandoned
<1>2. /\ l \in [Conns -> [stage : Stages, generation : Nat]]
      /\ \A j \in Conns : l[j].generation = conn[j].generation
      /\ \A j \in Conns : l[j].stage \notin {"opening", "open", "ready"}
  <2>1. CASE client.socket = None
    BY <1>0, <2>1, NoneIsNoConn DEF Abandoned, Good, Sockets
  <2>2. CASE client.socket # None
    <3>1. client.socket \in Conns
      BY <1>0, <2>2 DEF Client
    <3>2. l = [conn EXCEPT ![client.socket].stage = "closing"]
      BY <2>2 DEF Abandoned, Staged
    <3> QED BY <1>0, <3>1, <3>2 DEF Good, Sockets
  <2> QED BY <2>1, <2>2
<1> HIDE DEF l
<1>3. ASSUME NEW d \in Client, d.generation = client.generation + 1, ~d.connectPending,
             d.timer = None, d.socket = None, Shown(d, l)
      PROVE  Good(d, l)
  <2>1. Typed(d, l)
    BY <1>0, <1>2, <1>3 DEF Good, Typed, Client
  <2>2. \A j \in Conns : ~PendingOf(d, l, j)
    BY <1>0, <1>2, <1>3 DEF Good, Typed, PendingOf, Client
  <2>3. Attempts(d, l)
    BY <1>3, <2>2 DEF Attempts
  <2>4. Sockets(d, l)
    BY <1>2, <1>3 DEF Sockets
  <2> QED BY <1>3, <2>1, <2>3, <2>4 DEF Good
<1>4. Good([Stopped EXCEPT !.transport = "http", !.status = "disabled"], l)
  <2> DEFINE d == [Stopped EXCEPT !.transport = "http", !.status = "disabled"]
  <2>1. /\ d \in Client /\ d.generation = client.generation + 1 /\ ~d.connectPending
        /\ d.timer = None /\ d.socket = None /\ d.status = "disabled" /\ d.transport = "http"
    BY <1>1 DEF Client
  <2> QED BY <1>3, <2>1 DEF Shown
<1>5. Good([Stopped EXCEPT !.cancelled = TRUE, !.transport = "none"], l)
  <2> DEFINE d == [Stopped EXCEPT !.cancelled = TRUE, !.transport = "none"]
  <2>1. /\ d \in Client /\ d.generation = client.generation + 1 /\ ~d.connectPending
        /\ d.timer = None /\ d.socket = None /\ d.cancelled /\ d.transport = "none"
    BY <1>1 DEF Client
  <2> QED BY <1>3, <2>1 DEF Shown
<1> QED BY <1>4, <1>5 DEF l

\* startWsTransport
LEMMA StartGood ==
  ASSUME Good(client, conn), ~client.cancelled, Room
  PROVE  Good(StartWs.c, StartWs.conn)
<1> DEFINE d == [client EXCEPT !.transport = "ws", !.accelerated = FALSE, !.fatal = FALSE,
                               !.status = "connecting"]
<1>0. client \in Client
  BY DEF Good, Typed
<1>1. /\ d \in Client /\ d.transport = "ws" /\ ~d.fatal /\ d.status = "connecting"
      /\ d.cancelled = client.cancelled /\ d.generation = client.generation
      /\ d.connectPending = client.connectPending /\ d.timer = client.timer
      /\ d.socket = client.socket
  BY <1>0 DEF Client
<1>2. StartWs = Connect(State(d, conn))
  BY DEF StartWs
<1> HIDE DEF d
<1>3. Typed(d, conn)
  BY <1>1 DEF Good, Typed
<1>4. Attempts(d, conn)
  BY <1>1 DEF Good, Attempts, PendingOf
<1>5. Sockets(d, conn)
  BY <1>1 DEF Good, Sockets
<1>6. Shown(d, conn)
  BY <1>1 DEF Shown
<1> QED BY <1>2, <1>3, <1>4, <1>5, <1>6, ConnectGood DEF Good, Room

\* A timer that has fired, or been cleared, leaves the rest as it is.
LEMMA QuietGood ==
  ASSUME NEW accelerated \in BOOLEAN, Good(client, conn)
  PROVE  Good([client EXCEPT !.accelerated = accelerated, !.timer = None], conn)
<1> DEFINE d == [client EXCEPT !.accelerated = accelerated, !.timer = None]
<1>0. client \in Client
  BY DEF Good, Typed
<1>1. /\ d \in Client /\ d.timer = None /\ d.transport = client.transport
      /\ d.fatal = client.fatal /\ d.status = client.status
      /\ d.cancelled = client.cancelled /\ d.generation = client.generation
      /\ d.connectPending = client.connectPending /\ d.socket = client.socket
  BY <1>0 DEF Client
<1> HIDE DEF d
<1>2. Typed(d, conn)
  BY <1>1 DEF Good, Typed
<1>3. Attempts(d, conn)
  BY <1>1 DEF Good, Attempts, PendingOf
<1>4. Sockets(d, conn)
  BY <1>1 DEF Good, Sockets
<1>5. Shown(d, conn)
  BY <1>1 DEF Good, Shown
<1> QED BY <1>2, <1>3, <1>4, <1>5 DEF Good, d

\* reconnectNow
LEMMA ReconnectNowGood ==
  ASSUME Good(client, conn), Room
  PROVE  Good(ReconnectNow.c, ReconnectNow.conn)
<1>1. CASE ReconnectNow = Now
  BY <1>1 DEF Now, State
<1>2. CASE ReconnectNow = State(ScheduleReconnect(client), conn)
  BY <1>2, ScheduleGood DEF State
<1>3. CASE ReconnectNow = Connect(State(Accelerated(client), conn))
  BY <1>3, QuietGood, ConnectGood DEF Accelerated, Room
<1> QED BY <1>1, <1>2, <1>3 DEF ReconnectNow

\* The pending attempt ends without a socket.
LEMMA AttemptEndsGood ==
  ASSUME NEW i \in Conns, Good(client, conn), PendingOf(client, conn, i)
  PROVE  Good(AttemptEnds(i).c, AttemptEnds(i).conn)
<1> DEFINE d == AttemptEnds(i).c
           l == AttemptEnds(i).conn
<1>0. /\ client \in Client /\ conn \in [Conns -> [stage : Stages, generation : Nat]]
      /\ client.connectPending /\ client.socket = None
      /\ \A j \in Conns \ {i} : ~PendingOf(client, conn, j)
  BY DEF Good, Typed, Attempts, Sockets
<1>1. d = [client EXCEPT !.connectPending = FALSE] /\ l = [conn EXCEPT ![i].stage = "free"]
  BY DEF AttemptEnds, State, Staged
<1>2. /\ d \in Client /\ ~d.connectPending /\ d.timer = client.timer
      /\ d.transport = client.transport /\ d.fatal = client.fatal /\ d.status = client.status
      /\ d.cancelled = client.cancelled /\ d.generation = client.generation
      /\ d.socket = client.socket
  BY <1>0, <1>1 DEF Client
<1>3. /\ l \in [Conns -> [stage : Stages, generation : Nat]]
      /\ l[i].stage = "free" /\ l[i].generation = conn[i].generation
      /\ \A j \in Conns \ {i} : l[j] = conn[j]
  BY <1>0, <1>1
<1> HIDE DEF d, l
<1>4. Typed(d, l)
  BY <1>2, <1>3 DEF Good, Typed
<1>5. Attempts(d, l)
  BY <1>0, <1>2, <1>3 DEF Attempts, PendingOf
<1>6. \A j \in Conns : l[j].stage \in {"opening", "open", "ready"} => d.socket = j
  BY <1>2, <1>3 DEF Good, Sockets
<1>7. Sockets(d, l)
  BY <1>0, <1>2, <1>6 DEF Good, Sockets
<1>8. Shown(d, l)
  BY <1>0, <1>2 DEF Good, Shown
<1> QED BY <1>4, <1>5, <1>7, <1>8 DEF Good, d, l

\* connectWs takes a place that is free.
LEMMA ConnectKeepsAttempts ==
  ASSUME NEW c, NEW k, Typed(c, k), \E i \in Conns : k[i].stage = "free",
         NEW j \in Conns, k[j].stage = "auth"
  PROVE  Connect(State(c, k)).conn[j].stage = "auth"
<1> DEFINE i == FreeConn(State(c, k))
<1>1. State(c, k).c = c /\ State(c, k).conn = k
  BY DEF State
<1>2. i \in Conns /\ k[i].stage = "free" /\ i # j
  BY <1>1 DEF FreeConn
<1> HIDE DEF i
<1>3. k \in [Conns -> [stage : Stages, generation : Nat]]
  BY DEF Typed
<1>4. Begin(State(c, k), i).conn = [k EXCEPT ![i] = [stage |-> "auth", generation |-> c.generation]]
  BY DEF Begin, State
<1>5. /\ Begin(State(c, k), i).conn[j] = k[j]
      /\ Begin(State(c, k), i).conn \in [Conns -> [stage : Stages, generation : Nat]]
  <2>1. c.generation \in Nat
    BY DEF Typed, Client
  <2> QED BY <1>2, <1>3, <1>4, <2>1
<1>6. \/ Open(Begin(State(c, k), i), i).conn = Staged(Begin(State(c, k), i).conn, i, "opening")
      \/ Open(Begin(State(c, k), i), i).conn = Staged(Begin(State(c, k), i).conn, i, "free")
  BY DEF Open, State
<1>7. Open(Begin(State(c, k), i), i).conn[j] = k[j]
  BY <1>2, <1>5, <1>6 DEF Staged
<1> QED BY <1>1, <1>5, <1>7 DEF Connect, i

-----------------------------------------------------------------------------
(* The invariant.                                                          *)

Run == [at : {"idle", "connect", "stop-http", "start-http"}, conn : Conns \cup {None}]

Environment ==
  /\ mode \in {"authenticated", "public"}
  /\ usable \in BOOLEAN
  /\ online \in BOOLEAN
  /\ signal \in BOOLEAN
  /\ shares \in Seq({"http", "ws"})

\* The call of setShared that waits, waits for an attempt.
Waits ==
  /\ run \in Run
  /\ run.at = "connect" => run.conn # None
  /\ run.conn # None => conn[run.conn].stage = "auth"

Inv == Good(client, conn) /\ Environment /\ Waits

LEMMA InvInit == Init => Inv
<1> SUFFICES ASSUME Init PROVE Inv
  OBVIOUS
<1>1. Typed(client, conn)
  BY DEF Init, Typed, Client
<1>2. \A i \in Conns : conn[i].stage = "free"
  BY DEF Init
<1>3. Attempts(client, conn)
  BY <1>2 DEF Init, Attempts, PendingOf
<1>4. Sockets(client, conn)
  BY <1>2 DEF Init, Sockets
<1>5. Shown(client, conn)
  BY DEF Init, Shown
<1>6. Environment
  <2>1. mode \in {"authenticated", "public"}
    BY ConnectionAssumption DEF Init
  <2>2. shares \in Seq({"http", "ws"})
    BY DEF Init
  <2>3. usable \in BOOLEAN /\ online \in BOOLEAN /\ signal \in BOOLEAN
    BY Zenon DEF Init
  <2> QED BY <2>1, <2>2, <2>3 DEF Environment
<1>7. Waits
  BY DEF Init, Waits, Run, Idle
<1> QED BY <1>1, <1>3, <1>4, <1>5, <1>6, <1>7 DEF Inv, Good

\* A step that keeps every attempt keeps what setShared waits for.
LEMMA WaitsKept ==
  ASSUME Waits, run' = run, \A j \in Conns : conn[j].stage = "auth" => conn'[j].stage = "auth"
  PROVE  Waits'
BY DEF Waits, Run

\* Calls of the page, and what setShared does with them.
LEMMA InvCalls ==
  ASSUME Inv, (\E transport \in {"http", "ws"} : SetShared(transport)) \/ RunStep \/ Dispose
  PROVE  Inv'
<1>0. Good(client, conn) /\ Environment /\ Waits
  BY DEF Inv
<1>1. ASSUME NEW transport \in {"http", "ws"}, SetShared(transport)
      PROVE  Inv'
  BY <1>0, <1>1 DEF SetShared, Inv, Environment, Waits, Run
<1>2. ASSUME RunWs, ~client.cancelled
      PROVE  Good(client', conn') /\ Waits'
  <2>1. client' = StartWs.c /\ conn' = StartWs.conn /\ Room
    BY <1>2 DEF RunWs, Becomes
  <2>2. Good(client', conn')
    BY <1>0, <1>2, <2>1, StartGood
  <2>3. Waits'
    <3>1. CASE \E i \in Conns : conn'[i].stage = "auth" /\ conn[i].stage = "free"
      <4> DEFINE i == CHOOSE i \in Conns : conn'[i].stage = "auth" /\ conn[i].stage = "free"
      <4>1. i \in Conns /\ conn'[i].stage = "auth"
        BY <3>1
      <4>2. run' = [at |-> "connect", conn |-> i]
        BY <1>2, <3>1 DEF RunWs
      <4> HIDE DEF i
      <4> QED BY <4>1, <4>2, NoneIsNoConn DEF Waits, Run
    <3>2. CASE ~\E i \in Conns : conn'[i].stage = "auth" /\ conn[i].stage = "free"
      BY <1>2, <3>2 DEF RunWs, Waits, Run, Idle
    <3> QED BY <3>1, <3>2
  <2> QED BY <2>2, <2>3
<1>3. ASSUME StartRun
      PROVE  Inv'
  <2>1. Environment'
    BY <1>0, <1>3 DEF StartRun, Environment
  <2>2. CASE UNCHANGED <<client, conn, run>>
    BY <1>0, <2>1, <2>2 DEF Inv, Waits
  <2>3. CASE Head(shares) = "ws" /\ client.transport = "none" /\ ~client.cancelled /\ RunWs
    BY <1>2, <2>1, <2>3 DEF Inv
  <2>4. CASE run' = [Idle EXCEPT !.at = "stop-http"] /\ UNCHANGED <<client, conn>>
    BY <1>0, <2>1, <2>4 DEF Inv, Waits, Run, Idle
  <2>5. CASE /\ Becomes(State([Stopped EXCEPT !.transport = "http", !.status = "disabled"], Abandoned))
             /\ run' = [Idle EXCEPT !.at = "start-http"]
    <3>1. Good(client', conn')
      BY <1>0, <2>5, StopGood DEF Becomes, State
    <3>2. Waits'
      BY <2>5 DEF Waits, Run, Idle
    <3> QED BY <2>1, <3>1, <3>2 DEF Inv
  <2>6. Head(shares) \in {"http", "ws"} /\ client.transport \in {"none", "http", "ws"}
    BY <1>0, <1>3 DEF StartRun, Environment, Good, Typed, Client
  <2> QED BY <1>3, <2>2, <2>3, <2>4, <2>5, <2>6 DEF StartRun
<1>4. ASSUME HttpEnds
      PROVE  Inv'
  <2>1. Environment'
    BY <1>0, <1>4 DEF HttpEnds, Environment
  <2>2. CASE run.at = "stop-http" /\ ~client.cancelled /\ RunWs
    BY <1>2, <2>1, <2>2 DEF Inv
  <2>3. CASE run' = Idle /\ UNCHANGED <<client, conn>>
    BY <1>0, <2>1, <2>3 DEF Inv, Waits, Run, Idle
  <2> QED BY <1>4, <2>2, <2>3 DEF HttpEnds
<1>5. ASSUME Dispose
      PROVE  Inv'
  <2>1. Good(client', conn')
    BY <1>0, <1>5, StopGood DEF Dispose, Becomes, State
  <2>2. \A j \in Conns : conn[j].stage = "auth" => conn'[j].stage = "auth"
    <3>1. conn' = Abandoned
      BY <1>5 DEF Dispose, Becomes, State
    <3>2. CASE client.socket = None
      BY <3>1, <3>2 DEF Abandoned
    <3>3. CASE client.socket # None
      <4>1. conn[client.socket].stage # "auth"
        BY <1>0, <3>3 DEF Good, Sockets
      <4>2. conn' = [conn EXCEPT ![client.socket].stage = "closing"]
        BY <3>1, <3>3 DEF Abandoned, Staged
      <4>3. conn \in [Conns -> [stage : Stages, generation : Nat]]
        BY <1>0 DEF Good, Typed
      <4> QED BY <4>1, <4>2, <4>3
    <3> QED BY <3>2, <3>3
  <2>3. Waits'
    BY <1>0, <1>5, <2>2, WaitsKept DEF Dispose
  <2> QED BY <1>0, <1>5, <2>1, <2>3 DEF Dispose, Inv, Environment
<1> QED BY <1>1, <1>3, <1>4, <1>5 DEF RunStep

\* An attempt whose session read has been answered.
LEMMA InvAuthAnswered ==
  ASSUME Inv, NEW i \in Conns, AuthAnswered(i)
  PROVE  Inv'
<1>0. /\ Good(client, conn) /\ Environment /\ Waits /\ conn[i].stage = "auth"
      /\ client \in Client /\ conn \in [Conns -> [stage : Stages, generation : Nat]]
  BY DEF Inv, Good, Typed, AuthAnswered
<1>1. Environment'
  BY <1>0 DEF AuthAnswered, Environment
<1>2. /\ Good(client', conn')
      /\ \A j \in Conns \ {i} : conn'[j] = conn[j]
  <2>1. CASE conn[i].generation # client.generation /\ Becomes(State(client, Staged(conn, i, "free")))
    <3>1. client' = client /\ conn' = [conn EXCEPT ![i].stage = "free"]
      BY <2>1 DEF Becomes, State, Staged
    <3>2. /\ conn' \in [Conns -> [stage : Stages, generation : Nat]]
          /\ conn'[i].stage = "free" /\ conn'[i].generation = conn[i].generation
          /\ \A j \in Conns \ {i} : conn'[j] = conn[j]
      BY <1>0, <3>1
    <3>3. Typed(client, conn')
      BY <1>0, <3>2 DEF Good, Typed
    <3>4. \A j \in Conns : PendingOf(client, conn', j) <=> PendingOf(client, conn, j)
      BY <2>1, <3>2 DEF PendingOf
    <3>5. Attempts(client, conn')
      BY <1>0, <3>4 DEF Good, Attempts
    <3>6. client.socket # i
      BY <1>0, NoneIsNoConn DEF Good, Sockets
    <3>7. Sockets(client, conn') /\ Shown(client, conn')
      <4>1. client.socket \in Conns \cup {None}
        BY <1>0 DEF Client
      <4> QED BY <1>0, <3>2, <3>6, <4>1 DEF Good, Sockets, Shown
    <3> QED BY <3>1, <3>2, <3>3, <3>5, <3>7 DEF Good
  <2>2. ASSUME conn[i].generation = client.generation, Becomes(AttemptEnds(i))
        PROVE  Good(client', conn') /\ \A j \in Conns \ {i} : conn'[j] = conn[j]
    <3>1. Good(client', conn')
      BY <1>0, <2>2, AttemptEndsGood DEF Becomes, PendingOf
    <3>2. conn' = [conn EXCEPT ![i].stage = "free"]
      BY <2>2 DEF Becomes, AttemptEnds, State, Staged
    <3> QED BY <1>0, <3>1, <3>2
  <2>3. CASE /\ conn[i].generation = client.generation /\ ~client.cancelled /\ client.transport = "ws"
             /\ Becomes(Open(Now, i))
    <3>1. Good(client', conn')
      BY <1>0, <2>3, OpenGood DEF Becomes, PendingOf, Now
    <3>2. conn' = Staged(conn, i, "opening") \/ conn' = Staged(conn, i, "free")
      BY <2>3 DEF Becomes, Open, State, Now
    <3> QED BY <1>0, <3>1, <3>2 DEF Staged
  <2>4. CASE /\ conn[i].generation = client.generation
             /\ Becomes(State(ScheduleReconnect(AttemptEnds(i).c), AttemptEnds(i).conn))
    <3>1. Good(AttemptEnds(i).c, AttemptEnds(i).conn)
      BY <1>0, <2>4, AttemptEndsGood DEF PendingOf
    <3>2. client' = ScheduleReconnect(AttemptEnds(i).c) /\ conn' = AttemptEnds(i).conn
      BY <2>4 DEF Becomes, State
    <3>3. Good(client', conn')
      BY <3>1, <3>2, ScheduleGood
    <3>4. conn' = [conn EXCEPT ![i].stage = "free"]
      BY <3>2 DEF AttemptEnds, State, Staged
    <3> QED BY <1>0, <3>3, <3>4
  <2> QED BY <2>1, <2>2, <2>3, <2>4 DEF AuthAnswered
<1>3. Waits'
  <2>1. CASE run.conn = i
    BY <2>1 DEF AuthAnswered, Waits, Run, Idle
  <2>2. CASE run.conn # i
    <3>1. run' = run
      BY <2>2 DEF AuthAnswered
    <3> QED BY <1>0, <1>2, <2>2, <3>1 DEF Waits, Run
  <2> QED BY <2>1, <2>2
<1> QED BY <1>1, <1>2, <1>3 DEF Inv

\* A step of a socket that only changes its stage and leaves it the session's.
LEMMA StageGood ==
  ASSUME Good(client, conn), NEW i \in Conns, client.socket = i,
         NEW d \in Client, NEW stage \in {"open", "ready", "closing"},
         d.socket = i, d.generation = client.generation,
         d.transport = client.transport, d.cancelled = client.cancelled,
         d.connectPending = client.connectPending, d.timer = None \/ d.timer = client.timer,
         Shown(d, Staged(conn, i, stage))
  PROVE  Good(d, Staged(conn, i, stage))
<1> DEFINE l == Staged(conn, i, stage)
<1>0. conn \in [Conns -> [stage : Stages, generation : Nat]] /\ conn[i].stage # "auth" /\ i # None
  BY NoneIsNoConn DEF Good, Typed, Sockets
<1>1. /\ l \in [Conns -> [stage : Stages, generation : Nat]]
      /\ l[i].stage = stage /\ l[i].generation = conn[i].generation
      /\ \A j \in Conns \ {i} : l[j] = conn[j]
  BY <1>0 DEF Staged
<1> HIDE DEF l
<1>2. Typed(d, l)
  BY <1>1 DEF Good, Typed
<1>3. \A j \in Conns : PendingOf(d, l, j) <=> PendingOf(client, conn, j)
  BY <1>0, <1>1 DEF PendingOf
<1>4. Attempts(d, l)
  BY <1>3 DEF Good, Attempts
<1>5. Sockets(d, l)
  BY <1>0, <1>1 DEF Good, Sockets
<1> QED BY <1>2, <1>4, <1>5 DEF Good, l

\* The events of a socket.
LEMMA InvSocket ==
  ASSUME Inv, NEW i \in Conns, Opened(i) \/ Ready(i) \/ Refused(i) \/ Closed(i)
  PROVE  Inv'
<1>0. /\ Good(client, conn) /\ Environment /\ Waits
      /\ client \in Client /\ conn \in [Conns -> [stage : Stages, generation : Nat]]
      /\ client.socket \in Conns \cup {None} /\ i # None
  BY NoneIsNoConn DEF Inv, Good, Typed, Client
<1>1. /\ Environment' /\ run' = run /\ conn[i].stage # "auth"
      /\ \E stage \in {"open", "ready", "closing", "free"} : conn' = Staged(conn, i, stage)
  BY <1>0 DEF Opened, Ready, Refused, Closed, Environment, Becomes, State
<1>2. Waits'
  <2>1. \A j \in Conns : conn[j].stage = "auth" => conn'[j].stage = "auth"
    BY <1>0, <1>1 DEF Staged
  <2> QED BY <1>0, <1>1, <2>1, WaitsKept
<1>3. ASSUME NEW stage \in {"open", "ready", "closing"}
      PROVE  Staged(conn, i, stage)[i].stage = stage
  BY <1>0 DEF Staged
<1>4. CASE Opened(i)
  <2>1. client.socket = i /\ client' = client /\ conn' = Staged(conn, i, "open")
    BY <1>0, <1>4 DEF Opened, Becomes, State, Good, Sockets
  <2>2. Shown(client, Staged(conn, i, "open"))
    BY <1>0, <1>4, <2>1 DEF Good, Shown, Opened
  <2>3. Good(client', conn')
    BY <1>0, <2>1, <2>2, StageGood
  <2> QED BY <1>1, <1>2, <2>3 DEF Inv
<1>5. CASE Ready(i)
  <2> DEFINE d == [client EXCEPT !.timer = None, !.fatal = FALSE, !.status = "connected"]
  <2>1. client.socket = i /\ client' = d /\ conn' = Staged(conn, i, "ready")
    BY <1>5 DEF Ready, Live, Becomes, State
  <2>2. /\ d \in Client /\ d.timer = None /\ ~d.fatal /\ d.transport = client.transport
        /\ d.cancelled = client.cancelled /\ d.generation = client.generation
        /\ d.connectPending = client.connectPending /\ d.socket = i
    BY <1>0, <2>1 DEF Client
  <2> HIDE DEF d
  <2>3. Shown(d, Staged(conn, i, "ready"))
    BY <1>0, <1>3, <2>2 DEF Shown
  <2>4. Good(client', conn')
    BY <1>0, <2>1, <2>2, <2>3, StageGood
  <2> QED BY <1>1, <1>2, <2>4 DEF Inv
<1>6. CASE Refused(i)
  <2> DEFINE d == [client EXCEPT !.fatal = TRUE, !.status = "error"]
  <2>1. /\ client.socket = i /\ conn' = Staged(conn, i, "closing")
        /\ client' = client \/ client' = d
    BY <1>6 DEF Refused, Live, Becomes, State
  <2>2. /\ d \in Client /\ d.timer = client.timer /\ d.status = "error"
        /\ d.transport = client.transport
        /\ d.cancelled = client.cancelled /\ d.generation = client.generation
        /\ d.connectPending = client.connectPending /\ d.socket = i
    BY <1>0, <2>1 DEF Client
  <2> HIDE DEF d
  <2>3. Shown(d, Staged(conn, i, "closing"))
    BY <2>2 DEF Shown
  <2>4. Shown(client, Staged(conn, i, "closing"))
    BY <1>0, <1>3, <2>1 DEF Good, Shown
  <2>5. Good(d, Staged(conn, i, "closing"))
    BY <1>0, <2>1, <2>2, <2>3, StageGood
  <2>6. Good(client, Staged(conn, i, "closing"))
    BY <1>0, <2>1, <2>4, StageGood
  <2> QED BY <1>1, <1>2, <2>1, <2>5, <2>6 DEF Inv
<1>7. CASE Closed(i)
  <2> DEFINE l == Staged(conn, i, "free")
  <2>1. client' = CloseEvent(i) /\ conn' = l
    BY <1>7 DEF Closed, Becomes, State
  <2>2. /\ l \in [Conns -> [stage : Stages, generation : Nat]]
        /\ l[i].stage = "free" /\ l[i].generation = conn[i].generation
        /\ \A j \in Conns \ {i} : l[j] = conn[j]
    BY <1>0 DEF Staged
  <2> HIDE DEF l
  <2>3. \A j \in Conns : l[j].stage = "auth" <=> conn[j].stage = "auth"
    BY <1>1, <2>2
  <2>4. \A j \in Conns : l[j].generation = conn[j].generation
    BY <2>2
  <2>5. CASE client.socket # i
    <3>1. CloseEvent(i) = client
      BY <2>5 DEF CloseEvent, Live
    <3>2. Typed(client, l)
      BY <1>0, <2>2, <2>4 DEF Good, Typed
    <3>3. Attempts(client, l)
      BY <1>0, <2>3, <2>4 DEF Good, Attempts, PendingOf
    <3>4. Sockets(client, l) /\ Shown(client, l)
      BY <1>0, <2>2, <2>5 DEF Good, Sockets, Shown
    <3> QED BY <1>1, <1>2, <2>1, <3>1, <3>2, <3>3, <3>4 DEF Inv, Good
  <2>6. CASE client.socket = i
    <3>1. Live(i) /\ ~client.connectPending
      BY <1>0, <2>6 DEF Live, Good, Sockets
    <3>2. ASSUME NEW d \in Client, d.socket = None, d.timer = client.timer,
                 d.transport = client.transport, d.cancelled = client.cancelled,
                 d.generation = client.generation, d.connectPending = client.connectPending,
                 d.status # "connected", d.fatal => d.status = "error"
          PROVE  Good(d, l)
      <4>1. Typed(d, l)
        BY <1>0, <2>2, <2>4, <3>2 DEF Good, Typed
      <4>2. Attempts(d, l)
        BY <1>0, <2>3, <2>4, <3>2 DEF Good, Attempts, PendingOf
      <4>3. \A j \in Conns : l[j].stage \notin {"opening", "open", "ready"}
        BY <1>0, <2>2, <2>6 DEF Good, Sockets
      <4>4. Sockets(d, l)
        BY <3>1, <3>2, <4>3 DEF Sockets
      <4>5. Shown(d, l)
        BY <3>2 DEF Shown
      <4> QED BY <4>1, <4>2, <4>4, <4>5 DEF Good
    <3>3. CASE client.fatal
      <4> DEFINE d == [client EXCEPT !.socket = None]
      <4>1. CloseEvent(i) = d
        BY <3>1, <3>3 DEF CloseEvent
      <4>2. client.status = "error"
        BY <1>0, <3>1, <3>3 DEF Good, Shown, Live
      <4>3. /\ d \in Client /\ d.socket = None /\ d.timer = client.timer
            /\ d.transport = client.transport /\ d.cancelled = client.cancelled
            /\ d.generation = client.generation /\ d.connectPending = client.connectPending
            /\ d.status = client.status
        BY <1>0 DEF Client
      <4> HIDE DEF d
      <4>4. Good(d, l)
        BY <3>2, <4>2, <4>3
      <4> QED BY <1>1, <1>2, <2>1, <4>1, <4>4 DEF Inv
    <3>4. CASE ~client.fatal
      <4> DEFINE d == [client EXCEPT !.socket = None, !.status = "offline"]
      <4>1. CloseEvent(i) = ScheduleReconnect(d)
        BY <3>1, <3>4 DEF CloseEvent
      <4>2. /\ d \in Client /\ d.socket = None /\ d.timer = client.timer
            /\ d.transport = client.transport /\ d.cancelled = client.cancelled
            /\ d.generation = client.generation /\ d.connectPending = client.connectPending
            /\ d.status = "offline" /\ d.fatal = client.fatal
        BY <1>0 DEF Client
      <4> HIDE DEF d
      <4>3. Good(d, l)
        BY <3>2, <3>4, <4>2
      <4> QED BY <1>1, <1>2, <2>1, <4>1, <4>3, ScheduleGood DEF Inv
    <3> QED BY <3>3, <3>4
  <2> QED BY <2>5, <2>6
<1> QED BY <1>4, <1>5, <1>6, <1>7

\* The timer, and the signals of the browser.
LEMMA InvSignals ==
  ASSUME Inv, TimerFires \/ IntervalEnds \/ GoOffline \/ GoOnline \/ HandleOnline \/ HandleVisible
  PROVE  Inv'
<1>0. Good(client, conn) /\ Environment /\ Waits /\ client \in Client
  BY DEF Inv, Good, Typed
<1>1. CASE TimerFires
  <2> DEFINE d == [client EXCEPT !.timer = None]
  <2>1. /\ \/ client' = Connect(State(d, conn)).c /\ conn' = Connect(State(d, conn)).conn
           \/ client' = d /\ conn' = conn
        /\ Room
    BY <1>1 DEF TimerFires, Becomes, State
  <2>2. d = [client EXCEPT !.accelerated = client.accelerated, !.timer = None]
    BY <1>0 DEF Client
  <2>3. client.accelerated \in BOOLEAN
    BY <1>0 DEF Client
  <2>4. Good(d, conn)
    BY <1>0, <2>2, <2>3, QuietGood
  <2> HIDE DEF d
  <2>5. Good(client', conn')
    BY <2>1, <2>4, ConnectGood DEF Room
  <2>6. \A j \in Conns : conn[j].stage = "auth" => conn'[j].stage = "auth"
    BY <2>1, <2>4, ConnectKeepsAttempts DEF Room, Good
  <2>7. Waits'
    BY <1>0, <1>1, <2>6, WaitsKept DEF TimerFires
  <2> QED BY <1>0, <1>1, <2>5, <2>7 DEF TimerFires, Inv, Environment
<1>2. CASE IntervalEnds
  <2> DEFINE d == [client EXCEPT !.accelerated = FALSE]
  <2>1. /\ d \in Client /\ d.timer = client.timer /\ d.transport = client.transport
        /\ d.fatal = client.fatal /\ d.status = client.status
        /\ d.cancelled = client.cancelled /\ d.generation = client.generation
        /\ d.connectPending = client.connectPending /\ d.socket = client.socket
    BY <1>0 DEF Client
  <2> HIDE DEF d
  <2>2. Typed(d, conn)
    BY <1>0, <2>1 DEF Good, Typed
  <2>3. Attempts(d, conn)
    BY <1>0, <2>1 DEF Good, Attempts, PendingOf
  <2>4. Sockets(d, conn) /\ Shown(d, conn)
    BY <1>0, <2>1 DEF Good, Sockets, Shown
  <2>5. client' = d /\ UNCHANGED <<conn, mode, usable, online, signal, shares, run>>
    BY <1>2 DEF IntervalEnds, d
  <2> QED BY <1>0, <2>2, <2>3, <2>4, <2>5 DEF Inv, Good, Environment, Waits
<1>3. CASE GoOffline
  BY <1>0, <1>3 DEF GoOffline, Inv, Environment, Waits
<1>4. CASE GoOnline
  BY <1>0, <1>4 DEF GoOnline, Inv, Environment, Waits
<1>5. ASSUME Becomes(ReconnectNow), Room, run' = run
      PROVE  Good(client', conn') /\ Waits'
  <2>1. client' = ReconnectNow.c /\ conn' = ReconnectNow.conn
    BY <1>5 DEF Becomes
  <2>2. Good(client', conn')
    BY <1>0, <1>5, <2>1, ReconnectNowGood
  <2>3. \A j \in Conns : conn[j].stage = "auth" => conn'[j].stage = "auth"
    <3>1. CASE ReconnectNow = Now \/ ReconnectNow = State(ScheduleReconnect(client), conn)
      BY <2>1, <3>1 DEF Now, State
    <3>2. CASE ReconnectNow = Connect(State(Accelerated(client), conn))
      <4>1. Good(Accelerated(client), conn)
        BY <1>0, QuietGood DEF Accelerated
      <4> QED BY <1>5, <2>1, <3>2, <4>1, ConnectKeepsAttempts DEF Room, Good
    <3> QED BY <3>1, <3>2 DEF ReconnectNow
  <2>4. Waits'
    BY <1>0, <1>5, <2>3, WaitsKept
  <2> QED BY <2>2, <2>4
<1>6. CASE HandleOnline
  <2>1. Environment'
    BY <1>0, <1>6 DEF HandleOnline, Environment
  <2>2. CASE UNCHANGED <<client, conn>>
    BY <1>0, <1>6, <2>1, <2>2 DEF HandleOnline, Inv, Waits
  <2>3. CASE Becomes(ReconnectNow)
    BY <1>5, <1>6, <2>1, <2>3 DEF HandleOnline, Inv
  <2> QED BY <1>6, <2>2, <2>3 DEF HandleOnline
<1>7. CASE HandleVisible
  <2>1. Environment'
    BY <1>0, <1>7 DEF HandleVisible, Environment
  <2> QED BY <1>5, <1>7, <2>1 DEF HandleVisible, Inv
<1> QED BY <1>1, <1>2, <1>3, <1>4, <1>6, <1>7

-----------------------------------------------------------------------------
(* The theorems.                                                           *)

\* Every step of the session and of its environment keeps the invariant.
LEMMA InvNext == Inv /\ [Next]_vars => Inv'
<1> SUFFICES ASSUME Inv, [Next]_vars PROVE Inv'
  OBVIOUS
<1>1. CASE UNCHANGED vars
  BY <1>1 DEF vars, bounds, Inv, Environment, Waits
<1>2. CASE Next
  BY <1>2, InvCalls, InvAuthAnswered, InvSocket, InvSignals DEF Next, ConnStep
<1> QED BY <1>1, <1>2

LEMMA InvAlways == Spec => []Inv
BY InvInit, InvNext, PTL DEF Spec

\* What the closure, its connections and the calls of setShared may be
\* (use-document-session.ts:130-155): the socket the session knows exists.
THEOREM WellFormed == Spec => []TypeOK
<1>1. Inv => TypeOK
  <2> SUFFICES ASSUME Inv PROVE TypeOK
    OBVIOUS
  <2>1. conn \in [Conns -> [stage : Stages, generation : 0 .. client.generation]]
    <3>1. /\ conn \in [Conns -> [stage : Stages, generation : Nat]] /\ client.generation \in Nat
          /\ \A i \in Conns : conn[i].generation <= client.generation
      BY DEF Inv, Good, Typed, Client
    <3>2. \A i \in Conns : conn[i] \in [stage : Stages, generation : 0 .. client.generation]
      BY <3>1
    <3> QED BY <3>1, <3>2
  <2>2. {usable, online, signal} \subseteq BOOLEAN
    BY Zenon DEF Inv, Environment
  <2> QED BY <2>1, <2>2 DEF TypeOK, Inv, Good, Typed, Sockets, Client, Environment, Waits, Run
<1> QED BY <1>1, InvAlways, PTL

\* Whatever is still to be answered, a session has one connection at most, and none
\* once it is private or disposed (use-document-session.ts:139-142, 360-362, 450-452).
THEOREM NoSecondConnection == Spec => []OneConnection
<1>1. Inv => OneConnection
  BY DEF Inv, Good, Attempts, Sockets, PendingOf, OneConnection, Pending
<1> QED BY <1>1, InvAlways, PTL

\* The page is told "connected" only over a Ready socket, and an error that ended the
\* session stays on show (use-document-session.ts:573-613).
THEOREM StatusNeverLies == Spec => []StatusIsTrue
<1>1. Inv => StatusIsTrue
  BY DEF Inv, Good, Shown, StatusIsTrue
<1> QED BY <1>1, InvAlways, PTL
=============================================================================
