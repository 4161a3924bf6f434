------------------------------- MODULE Socket -------------------------------
(***************************************************************************)
(* Live updates.  On the server WebSocketManager of datafn/server/src/ws.ts *)
(* for one namespace, and the handshake addRoutedClient of server.ts in    *)
(* front of it; on the client the socket of the sync engine                *)
(* (client/src/sync/engine.ts: start, stop, connectWs, its handlers and    *)
(* scheduleReconnect), and the pulls that cursor messages ask for.         *)
(*                                                                         *)
(* The transport between them is the application's (ws.on("close"),        *)
(* ws.on("pong")), as the documentation wires it.  A pull is three steps   *)
(* here; module Pull looks into one.  Delays are left out: a timer that is *)
(* set may go off at any time.  So is targeted delivery: no caller of      *)
(* broadcastCursor names principals.                                       *)
(***************************************************************************)
EXTENDS Naturals, Sequences, FiniteSets, FiniteSetsExt

CONSTANTS
  Conn,        \* connections; one that both ends are done with is used again
  None,        \* no connection
  Limit,       \* maxConnectionsPerNamespace
  MaxChanges,  \* bound: changes other clients push
  MaxUpsets,   \* bound: whatever is stopped or moved, fails, is cut or expires
  MaxEvents    \* bound: changes and upsets together

ASSUME SocketAssumption ==
  /\ None \notin Conn
  /\ Limit \in Nat \ {0}
  /\ MaxChanges \in Nat /\ MaxUpsets \in Nat /\ MaxEvents \in Nat

VARIABLES
  \* the server
  top,         \* the last change committed
  untold,      \* changes committed and not yet broadcast
  routed,      \* the namespace is placed in a region
  epoch, here, \* the directory: the placement's epoch, and if it is this region
  fences,      \* namespaceFenceGeneration
  hub,         \* where the server is with a connection
  grant,       \* the fence generation and the epoch of its handshake
  pendingPong,
  deaf,        \* connections whose close event had no listener yet
  \* the wire
  inbox,       \* cursor messages on their way
  cut,         \* connections whose line is dead
  revoked,     \* connections closed with 4403
  \* the client
  started, enabled,  \* started, wsReconnectEnabled
  starting,    \* where start() is
  ws, end,     \* the engine's socket; the client's end of each connection
  attempt,     \* a connectWs of the present generation has not finished
  stale,       \* so many older ones have not
  timer,       \* wsReconnectTimer is set
  pull, reply, again, cursor,
  \* history and bounds
  fenced,      \* the epoch of the last fence
  missed,      \* the last message that made no pull
  strayed,     \* a stale connectWs failed and set the timer
  upsets

log     == <<top, untold>>
place   == <<routed, epoch, here>>
serving == <<hub, grant, pendingPong, deaf>>
engine  == <<started, enabled, starting, ws>>
connecting == <<attempt, stale, timer, strayed>>
pulling == <<pull, reply, again, cursor, missed>>
vars == <<log, place, fences, fenced, serving, inbox, cut, revoked, engine, end,
          connecting, pulling, upsets>>

Change == 0 .. MaxChanges

TypeOK ==
  /\ top \in Change /\ untold \subseteq 1 .. top
  /\ routed \in BOOLEAN /\ here \in BOOLEAN
  /\ epoch \in 1 .. MaxUpsets + 1 /\ fences \in 0 .. MaxUpsets /\ fenced \in 0 .. epoch
  /\ hub \in [Conn -> {"out", "waiting", "validating", "validated", "in"}]
  /\ grant \in [Conn -> [generation : 0 .. fences, epoch : 0 .. epoch]]
  /\ pendingPong \subseteq {s \in Conn : hub[s] = "in"}
  /\ deaf \cup cut \cup revoked \subseteq Conn
  /\ \A s \in Conn : inbox[s] \in Seq(Change) /\ Len(inbox[s]) <= MaxChanges
  /\ started \in BOOLEAN /\ enabled \in BOOLEAN
  /\ starting \in {"no", "syncing", "connect"}
  /\ ws \in Conn \cup {None}
  /\ end \in [Conn -> {"free", "opening", "opened", "greeted", "closing"}]
  /\ attempt \in BOOLEAN /\ stale \in 0 .. 2 /\ timer \in BOOLEAN /\ strayed \in BOOLEAN
  /\ pull \in {"idle", "asked", "read"} /\ again \in BOOLEAN
  /\ reply \in 0 .. top /\ cursor \in 0 .. top /\ missed \in 0 .. top
  /\ upsets \in 0 .. MaxUpsets

NoGrant == [generation |-> 0, epoch |-> 0]

Init ==
  /\ top = 0 /\ untold = {}
  /\ routed \in BOOLEAN /\ epoch = 1 /\ here = TRUE /\ fences = 0 /\ fenced = 0
  /\ hub = [s \in Conn |-> "out"] /\ grant = [s \in Conn |-> NoGrant]
  /\ pendingPong = {} /\ deaf = {}
  /\ inbox = [s \in Conn |-> <<>>] /\ cut = {} /\ revoked = {}
  /\ started = FALSE /\ enabled = FALSE /\ starting = "no"
  /\ ws = None /\ end = [s \in Conn |-> "free"]
  /\ attempt = FALSE /\ stale = 0 /\ timer = FALSE /\ strayed = FALSE
  /\ pull = "idle" /\ reply = 0 /\ again = FALSE /\ cursor = 0 /\ missed = 0
  /\ upsets = 0

Upset == upsets < MaxUpsets /\ top + upsets < MaxEvents /\ upsets' = upsets + 1

Live(s) == end[s] \in {"opening", "opened", "greeted"}

\* Mutant: the ping is still thought to be unanswered when the client is gone.
OutPending(S) ==
  /\ hub' = [s \in Conn |-> IF s \in S THEN "out" ELSE hub[s]]
  /\ grant' = [s \in Conn |-> IF s \in S THEN NoGrant ELSE grant[s]]
  /\ deaf' = deaf \ S
  /\ cut' = cut \ {s \in S : end[s] = "free"}
  /\ UNCHANGED pendingPong

\* removeClient, and the server closes the connection.
Out(S) ==
  /\ hub' = [s \in Conn |-> IF s \in S THEN "out" ELSE hub[s]]
  /\ grant' = [s \in Conn |-> IF s \in S THEN NoGrant ELSE grant[s]]
  /\ pendingPong' = pendingPong \ S
  /\ deaf' = deaf \ S
  /\ cut' = cut \ {s \in S : end[s] = "free"}

Members == {s \in Conn : hub[s] = "in"}

----------------------------------------------------------------------------
(* Changes and what the server says of them. *)

\* Another client's push commits; nobody is told yet.
Commit ==
  /\ top < MaxChanges /\ top + upsets < MaxEvents
  /\ top' = top + 1
  /\ untold' = untold \cup {top + 1}
  /\ UNCHANGED <<place, fences, fenced, serving, inbox, cut, revoked, engine, end,
                 connecting, pulling, upsets>>

Later(a, b) == IF a < b THEN b ELSE a

\* broadcastCursor, after the commit: concurrent pushes in any order.  A send
\* on a dead line is lost, or throws and costs the member its place.
Tell(n) ==
  /\ n \in untold
  /\ untold' = untold \ {n}
  /\ \E failing \in SUBSET (Members \cap cut) : Out(failing)
  /\ inbox' = [s \in Conn |-> IF s \in Members \ cut /\ Live(s) THEN Append(inbox[s], n)
                              ELSE inbox[s]]
  /\ missed' = IF ws # None /\ hub[ws] \in {"validating", "validated"}
               THEN Later(missed, n) ELSE missed
  /\ UNCHANGED <<top, place, fences, fenced, revoked, engine, end, connecting,
                 pull, reply, again, cursor, upsets>>

----------------------------------------------------------------------------
(* The handshake. *)

Room == Cardinality(Members) < Limit

\* addClient and what follows in the same step.
Enter(s, welcome) ==
  IF welcome THEN hub' = [hub EXCEPT ![s] = "in"] /\ UNCHANGED <<grant, pendingPong, deaf, cut>>
  ELSE Out({s})

\* The upgrade reaches the server.  Without a placement it is admitted at
\* once; with one addRoutedClient reads the fence generation first.
Handshake(s) ==
  /\ hub[s] = "waiting"
  /\ \/ /\ ~routed
        /\ Enter(s, Room)
     \/ /\ routed
        /\ hub' = [hub EXCEPT ![s] = "validating"]
        /\ grant' = [grant EXCEPT ![s].generation = fences]
        /\ UNCHANGED <<pendingPong, deaf, cut>>
  /\ UNCHANGED <<log, place, fences, fenced, inbox, revoked, engine, end, connecting,
                 pulling, upsets>>

\* validateDatafnPlacement: the directory is read ...
Validate(s) ==
  /\ hub[s] = "validating"
  /\ \/ /\ here
        /\ hub' = [hub EXCEPT ![s] = "validated"]
        /\ grant' = [grant EXCEPT ![s].epoch = epoch]
        /\ UNCHANGED <<pendingPong, deaf, cut>>
     \/ /\ ~here
        /\ Out({s})
  /\ UNCHANGED <<log, place, fences, fenced, inbox, revoked, engine, end, connecting,
                 pulling, upsets>>

\* Mutant: the fence generation is not looked at again.
WelcomeUnchecked(s) == Room

\* The client is added, unless the namespace was fenced in the meantime.
Welcome(s) == Room /\ grant[s].generation = fences

\* ... and some time later addRoutedClient goes on.
Admit(s) ==
  /\ hub[s] = "validated"
  /\ Enter(s, Welcome(s))
  /\ UNCHANGED <<log, place, fences, fenced, inbox, revoked, engine, end, connecting,
                 pulling, upsets>>

\* A migration moves the namespace away or back: each entry of the directory
\* has a higher epoch.
Move ==
  /\ Upset
  /\ routed
  /\ epoch' = epoch + 1
  /\ here' = ~here
  /\ UNCHANGED <<log, routed, fences, fenced, serving, inbox, cut, revoked, engine, end,
                 connecting, pulling>>

\* fenceNamespace: all members, or those of an older epoch.
Fence ==
  /\ routed /\ fenced < epoch /\ fences < MaxUpsets
  /\ fences' = fences + 1
  /\ fenced' = epoch
  /\ Out({s \in Members : ~here \/ grant[s].epoch < epoch})
  /\ UNCHANGED <<log, place, inbox, revoked, engine, end, connecting, pulling, upsets>>

----------------------------------------------------------------------------
(* Connections that end. *)

\* The client is gone and the transport says so; while addRoutedClient is at
\* work nobody listens yet.
Gone(s) ==
  /\ end[s] \in {"closing", "free"} /\ s \notin cut \cup deaf
  /\ \/ hub[s] = "in" /\ Out({s})
     \/ /\ hub[s] \in {"validating", "validated"}
        /\ deaf' = deaf \cup {s}
        /\ UNCHANGED <<hub, grant, pendingPong, cut>>
  /\ UNCHANGED <<log, place, fences, fenced, inbox, revoked, engine, end, connecting,
                 pulling, upsets>>

\* The heartbeat pings every member ...
Ping ==
  /\ Members \ pendingPong # {}
  /\ pendingPong' = Members
  /\ UNCHANGED <<log, place, fences, fenced, hub, grant, deaf, inbox, cut, revoked, engine,
                 end, connecting, pulling, upsets>>

\* ... the client's platform answers ...
Pong(s) ==
  /\ s \in pendingPong /\ s \notin cut /\ end[s] \in {"opened", "greeted"}
  /\ pendingPong' = pendingPong \ {s}
  /\ UNCHANGED <<log, place, fences, fenced, hub, grant, deaf, inbox, cut, revoked, engine,
                 end, connecting, pulling, upsets>>

\* Mutant: the deadline closes the connection of a client that is still there.
DeadlineIfLive(s) ==
  /\ s \in pendingPong /\ s \notin cut
  /\ Out({s})
  /\ UNCHANGED <<log, place, fences, fenced, inbox, revoked, engine, end, connecting,
                 pulling, upsets>>

\* ... or the deadline passes first, also for an answer that is only late.
Deadline(s) ==
  /\ s \in pendingPong
  /\ Out({s})
  /\ UNCHANGED <<log, place, fences, fenced, inbox, revoked, engine, end, connecting,
                 pulling, upsets>>

\* The line dies, and what was on it.
Cut(s) ==
  /\ Upset
  /\ Live(s) /\ s \notin cut
  /\ cut' = cut \cup {s}
  /\ inbox' = [inbox EXCEPT ![s] = <<>>]
  /\ UNCHANGED <<log, place, fences, fenced, serving, revoked, engine, end, connecting,
                 pulling>>

\* revokeRouteTicket.
Revoke(s) ==
  /\ Upset
  /\ routed /\ hub[s] = "in" /\ s \notin cut
  /\ Out({s})
  /\ revoked' = IF Live(s) THEN revoked \cup {s} ELSE revoked
  /\ UNCHANGED <<log, place, fences, fenced, inbox, engine, end, connecting, pulling>>

\* The server process is replaced; what it had not told is not told any more.
Restart ==
  /\ Upset
  /\ Out(Conn)
  /\ untold' = {} /\ fences' = 0
  /\ UNCHANGED <<top, place, fenced, inbox, revoked, engine, end, connecting, pulling>>

----------------------------------------------------------------------------
(* The client: pulls. *)

server == <<log, place, fences, fenced, hub, grant, pendingPong, deaf>>

\* pullNow(): a pull in flight is good enough; what asked for it is forgotten.
PullNow == IF pull = "idle" THEN pull' = "asked" ELSE UNCHANGED pull

\* Focus, visibility and the like.
Focus ==
  /\ started /\ pull = "idle"
  /\ PullNow
  /\ UNCHANGED <<server, inbox, cut, revoked, engine, end, connecting, reply, again,
                 cursor, missed, upsets>>

PullServe ==
  /\ pull = "asked"
  /\ pull' = "read" /\ reply' = top
  /\ UNCHANGED <<server, inbox, cut, revoked, engine, end, connecting, again, cursor,
                 missed, upsets>>

\* The finally block of pullNow, and start() that waited for it.
PullOver ==
  /\ pull' = IF again THEN "asked" ELSE "idle"
  /\ again' = FALSE /\ reply' = 0
  /\ starting' = IF starting = "syncing" THEN "connect" ELSE starting

PullDone ==
  /\ pull = "read"
  /\ cursor' = Later(cursor, reply)
  /\ PullOver
  /\ UNCHANGED <<server, inbox, cut, revoked, started, enabled, ws, end, connecting,
                 missed, upsets>>

\* A pull that fails is not tried again.
PullFails ==
  /\ Upset
  /\ pull # "idle"
  /\ PullOver
  /\ missed' = Max({missed} \cup (1 .. top \ untold))
  /\ UNCHANGED <<server, inbox, cut, revoked, started, enabled, ws, end, connecting,
                 cursor>>

----------------------------------------------------------------------------
(* The client: start, stop and connectWs. *)

\* start: a first pull (or the one in flight), then the socket.
Start ==
  /\ ~started
  /\ started' = TRUE /\ enabled' = TRUE
  /\ starting' = IF pull = "idle" THEN "syncing" ELSE "connect"
  /\ PullNow
  /\ UNCHANGED <<server, inbox, cut, revoked, ws, end, connecting, reply, again, cursor,
                 missed, upsets>>

\* connectWs takes the next generation: an attempt under way becomes stale.
ConnectWs ==
  /\ attempt' = enabled
  /\ stale' = IF enabled /\ attempt THEN stale + 1 ELSE stale
  /\ stale <= 1

StartConnects ==
  /\ starting = "connect"
  /\ starting' = "no"
  /\ ConnectWs
  /\ UNCHANGED <<server, inbox, cut, revoked, started, enabled, ws, end, timer, strayed,
                 pulling, upsets>>

\* Mutant: stop lets go of the socket and leaves it open.
CloseOwnNot == ws' = None /\ UNCHANGED end

\* stop closes the socket and lets go of it.
CloseOwn ==
  /\ end' = IF ws = None THEN end ELSE [end EXCEPT ![ws] = "closing"]
  /\ ws' = None

Stop ==
  /\ Upset
  /\ started
  /\ started' = FALSE /\ enabled' = FALSE /\ starting' = "no" /\ again' = FALSE
  /\ attempt' = FALSE /\ stale' = (IF attempt THEN stale + 1 ELSE stale) /\ stale <= 1
  /\ timer' = FALSE
  /\ CloseOwn
  /\ UNCHANGED <<server, inbox, cut, revoked, strayed, pull, reply, cursor, missed>>

TimerFires ==
  /\ timer /\ timer' = FALSE
  /\ ConnectWs
  /\ UNCHANGED <<server, inbox, cut, revoked, engine, end, strayed, pulling, upsets>>

\* Route and credentials are there, the attempt is of the present generation.
\* A socket the engine still has is replaced, not closed.
Opens ==
  /\ attempt /\ attempt' = FALSE
  /\ \E s \in Conn : hub[s] = "out" /\ end[s] = "free"
  /\ LET s == CHOOSE s \in Conn : hub[s] = "out" /\ end[s] = "free"
     IN /\ ws' = s
        /\ end' = [end EXCEPT ![s] = "opening"]
        /\ hub' = [hub EXCEPT ![s] = "waiting"]
  /\ UNCHANGED <<log, place, fences, fenced, grant, pendingPong, deaf, inbox, cut, revoked,
                 started, enabled, starting, stale, timer, strayed, pulling, upsets>>

\* An attempt of an older generation ends without effect.
StaleEnds ==
  /\ stale > 0 /\ stale' = stale - 1
  /\ UNCHANGED <<server, inbox, cut, revoked, engine, end, attempt, timer, strayed, pulling,
                 upsets>>

\* Route or credentials fail: the catch block does not look at the generation.
AttemptFails ==
  /\ Upset
  /\ \/ /\ attempt /\ attempt' = FALSE
        /\ UNCHANGED <<stale, strayed>>
     \/ /\ stale > 0 /\ stale' = stale - 1
        /\ strayed' = (strayed \/ enabled)
        /\ UNCHANGED attempt
  /\ timer' = (timer \/ enabled)
  /\ UNCHANGED <<server, inbox, cut, revoked, engine, end, pulling>>

----------------------------------------------------------------------------
(* The client: the handlers of a socket. *)

\* The upgrade is answered, also if the server then refuses the connection.
OnOpen(s) ==
  /\ end[s] = "opening" /\ hub[s] # "waiting" /\ s \notin cut
  /\ end' = [end EXCEPT ![s] = "opened"]
  /\ UNCHANGED <<server, inbox, cut, revoked, engine, connecting, pulling, upsets>>

\* Mutant: the pull of onopen is content with one in flight.
CatchUpIfIdle == PullNow /\ UNCHANGED again

\* pullNow(true).
CatchUp == PullNow /\ again' = (again \/ pull # "idle")

\* onopen once it has read the cursors: hello, and a pull that starts after.
Greet(s) ==
  /\ end[s] = "opened"
  /\ end' = [end EXCEPT ![s] = "greeted"]
  /\ IF ws = s THEN CatchUp ELSE UNCHANGED <<pull, again>>
  /\ UNCHANGED <<server, inbox, cut, revoked, engine, connecting, reply, cursor, missed,
                 upsets>>

\* onmessage: a number the client does not have asks for a pull.
Receive(s) ==
  /\ end[s] \in {"opened", "greeted"} /\ inbox[s] # <<>>
  /\ inbox' = [inbox EXCEPT ![s] = Tail(@)]
  /\ IF Head(inbox[s]) > cursor
     THEN PullNow /\ missed' = IF pull = "idle" THEN missed ELSE Later(missed, Head(inbox[s]))
     ELSE UNCHANGED <<pull, missed>>
  /\ UNCHANGED <<server, cut, revoked, engine, end, connecting, reply, again, cursor,
                 upsets>>

\* The client closes: the ticket expires, the route changes, or the cursors
\* cannot be read in onopen.
Closes(s) ==
  /\ Upset
  /\ Live(s)
  /\ end' = [end EXCEPT ![s] = "closing"]
  /\ UNCHANGED <<server, inbox, cut, revoked, engine, connecting, pulling>>

\* onclose, of the engine's socket or of one it has forgotten.
OnClose(s) ==
  /\ \/ end[s] = "closing"
     \/ Live(s) /\ (s \in cut \/ (hub[s] = "out" /\ inbox[s] = <<>>))
  /\ end' = [end EXCEPT ![s] = "free"]
  /\ inbox' = [inbox EXCEPT ![s] = <<>>]
  /\ hub' = IF hub[s] = "waiting" THEN [hub EXCEPT ![s] = "out"] ELSE hub
  /\ cut' = IF hub'[s] = "out" THEN cut \ {s} ELSE cut
  /\ revoked' = revoked \ {s}
  /\ IF ws = s
     THEN /\ ws' = None
          /\ enabled' = (enabled /\ s \notin revoked)
          /\ timer' = (timer \/ enabled')
     ELSE UNCHANGED <<ws, enabled, timer>>
  /\ UNCHANGED <<log, place, fences, fenced, grant, pendingPong, deaf, started, starting,
                 attempt, stale, strayed, pulling, upsets>>

----------------------------------------------------------------------------
Serve(s) ==
  Handshake(s) \/ Validate(s) \/ Admit(s) \/ Gone(s) \/ Deadline(s)

Handle(s) == OnOpen(s) \/ Greet(s) \/ Receive(s) \/ OnClose(s)

PullStep == PullServe \/ PullDone

Reconnect == StartConnects \/ TimerFires \/ Opens \/ StaleEnds

Fault ==
  \/ \E s \in Conn : Cut(s) \/ Revoke(s) \/ Closes(s)
  \/ Restart \/ PullFails \/ AttemptFails

Next ==
  \/ Commit \/ Move \/ Fence \/ Ping
  \/ \E n \in untold : Tell(n)
  \/ \E s \in Conn : Serve(s) \/ Pong(s) \/ Handle(s)
  \/ Start \/ Stop \/ Focus \/ PullStep \/ Reconnect
  \/ Fault

Spec == Init /\ [][Next]_vars

\* Timers go off, and what was sent or scheduled is handled.
FairSpec ==
  /\ Spec
  /\ WF_vars(Ping) /\ WF_vars(PullStep) /\ WF_vars(Reconnect)
  /\ \A s \in Conn : WF_vars(Serve(s)) /\ WF_vars(Handle(s))

----------------------------------------------------------------------------
\* Once a fence has been drawn no member was admitted on an older placement,
\* also one whose handshake read the directory before the move
\* (addRoutedClient, namespaceFenceGeneration).
FencedStaysOut ==
  routed => \A s \in Members : grant[s].epoch >= fenced

\* The engine's socket is open and the server knows of it.
Connected(s) == ws = s /\ end[s] = "greeted" /\ hub[s] = "in" /\ s \notin cut

\* A connected client with nothing under way has all that was committed:
\* whatever was committed or broadcast while it was away, connecting or pulling,
\* and whatever connection, server or page it lost before.  Three things the
\* code lets pass, and no other: a message that met a pull in flight (onmessage
\* calls pullNow without ensureAfterInFlight), one sent before addRoutedClient
\* had admitted the socket, and a pull that failed; each counts in missed until
\* a later pull makes up for it.
ConnectedIsCurrent ==
  \A s \in Conn :
    Connected(s) /\ inbox[s] = <<>> /\ pull = "idle" /\ untold = {}
      => cursor = top \/ missed > cursor

\* Every open connection is the engine's: starts, stops, reconnects and
\* attempts that overtake each other leave none behind that stop() cannot
\* close, unless an attempt overtaken by stop() and start() failed (the catch
\* block of connectWs does not look at the generation).
NoStraySocket ==
  ~strayed => \A s \in Conn : Live(s) => ws = s

\* A client that stays started, has not been refused for good, and whose
\* region has the namespace is admitted again and again, whatever was cut or
\* refused before, although dead members fill the hub until their deadline.
StaysConnected ==
  <>[](enabled /\ ~strayed /\ here) => []<>(\E s \in Conn : ws = s /\ hub[s] = "in")

=============================================================================
