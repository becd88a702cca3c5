-------------------------------- MODULE WsHub --------------------------------
(***************************************************************************)
(* The WebSocket fan-out of one backend replica: the goroutines of the Hub,*)
(* of the RedisBridge that feeds it, of the HTTP handlers that register    *)
(* clients, and of each client's ReadPump and WritePump, with the channels *)
(* between them.  Events are counted, not told apart: which clients of     *)
(* which organization and topic one matches is left open.                  *)
(*                                                                         *)
(* Source: backend/internal/ws/hub.go, ws/redis_bridge.go and              *)
(* handlers/ws_handler.go.                                                 *)
(***************************************************************************)
EXTENDS Naturals

CONSTANTS
    Clients,   \* WebSocket connections, over the life of the process
    NoClient,  \* "the hub is not dropping anybody"
    QueueCap,  \* capacity of hub.broadcast
    SendCap    \* capacity of each client.send

ASSUME NoClientAssumption == NoClient \notin Clients
ASSUME CapAssumption == QueueCap \in Nat \ {0} /\ SendCap \in Nat \ {0}

VARIABLES
    clients,   \* hub.clients: the registered clients
    queued,    \* events in hub.broadcast
    todo,      \* clients the event being fanned out has not been offered to
    hub,       \* where Run() stands
    dropping,  \* the client Run() is sending to its own unregister channel
    bridge,    \* where the RedisBridge stands
    reader,    \* each client's ReadPump; before it exists, the HTTP handler
    writer,    \* each client's WritePump
    conn,      \* "open" until somebody has closed the connection
    sending,   \* messages in each client.send
    closed     \* clients whose send channel is closed

hubVars    == <<clients, queued, todo, hub, dropping>>
clientVars == <<reader, writer, conn, sending, closed>>
vars == <<hubVars, bridge, clientVars>>

TypeOK ==
    /\ clients \subseteq Clients
    /\ queued \in 0..QueueCap
    /\ todo \subseteq Clients
    /\ hub \in {"select", "fanout", "drop"}
    /\ dropping \in Clients \union {NoClient}
    /\ bridge \in {"idle", "broadcast"}
    /\ reader \in [Clients -> {"none", "register", "registered", "reading", "unregister", "gone"}]
    /\ writer \in [Clients -> {"none", "idle", "writing", "gone"}]
    /\ conn \in [Clients -> {"open", "closed"}]
    /\ sending \in [Clients -> 0..SendCap]
    /\ closed \subseteq Clients

Init ==
    /\ clients = {} /\ queued = 0 /\ todo = {}
    /\ hub = "select" /\ dropping = NoClient
    /\ bridge = "idle"
    /\ reader = [c \in Clients |-> "none"]
    /\ writer = [c \in Clients |-> "none"]
    /\ conn = [c \in Clients |-> "open"]
    /\ sending = [c \in Clients |-> 0]
    /\ closed = {}

Moves(f, c, from, to) == f[c] = from /\ f' = [f EXCEPT ![c] = to]

----------------------------------------------------------------------------
(* RedisBridge.Start: a pub/sub message, then a blocking Broadcast.        *)

BridgeReceives ==
    /\ bridge = "idle"
    /\ bridge' = "broadcast"
    /\ UNCHANGED <<hubVars, clientVars>>

Broadcast ==
    /\ bridge = "broadcast" /\ queued < QueueCap
    /\ queued' = queued + 1
    /\ bridge' = "idle"
    /\ UNCHANGED <<clients, todo, hub, dropping, clientVars>>

----------------------------------------------------------------------------
(* HandleWebSocket: upgrade, NewClient (which blocks in hub.register), and *)
(* only then the two pumps.                                                *)

Connect(c) ==
    /\ Moves(reader, c, "none", "register")
    /\ UNCHANGED <<hubVars, bridge, writer, conn, sending, closed>>

StartPumps(c) ==
    /\ Moves(reader, c, "registered", "reading")
    /\ Moves(writer, c, "none", "idle")
    /\ UNCHANGED <<hubVars, bridge, conn, sending, closed>>

----------------------------------------------------------------------------
(* Hub.Run: one select loop, the only reader of the three hub channels.    *)

Register(c) ==
    /\ hub = "select"
    /\ Moves(reader, c, "register", "registered")
    /\ clients' = clients \union {c}
    /\ UNCHANGED <<queued, todo, hub, dropping, bridge, writer, conn, sending, closed>>

\* Mutant: the client is forgotten, but its send channel stays open.
UnregisterLeaks(c) ==
    /\ hub = "select"
    /\ Moves(reader, c, "unregister", "gone")
    /\ conn' = [conn EXCEPT ![c] = "closed"]
    /\ clients' = clients \ {c}
    /\ UNCHANGED <<queued, todo, hub, dropping, bridge, writer, sending, closed>>

\* register and unregister are unbuffered: a send completes when Run receives
\* it.  ReadPump then closes the connection and ends.
Unregister(c) ==
    /\ hub = "select"
    /\ Moves(reader, c, "unregister", "gone")
    /\ conn' = [conn EXCEPT ![c] = "closed"]
    /\ clients' = clients \ {c}
    /\ closed' = IF c \in clients THEN closed \union {c} ELSE closed
    /\ UNCHANGED <<queued, todo, hub, dropping, bridge, writer, sending>>

TakeEvent ==
    /\ hub = "select" /\ queued > 0
    /\ queued' = queued - 1
    /\ todo' = clients
    /\ hub' = "fanout"
    /\ UNCHANGED <<clients, dropping, bridge, clientVars>>

\* Of another organization, or not subscribed to the event's topic.
Skip(c) ==
    /\ hub = "fanout" /\ c \in todo
    /\ todo' = todo \ {c}
    /\ UNCHANGED <<clients, queued, hub, dropping, bridge, clientVars>>

Offer(c) ==
    /\ hub = "fanout" /\ c \in todo
    /\ sending[c] < SendCap
    /\ sending' = [sending EXCEPT ![c] = @ + 1]
    /\ todo' = todo \ {c}
    /\ UNCHANGED <<clients, queued, hub, dropping, bridge, reader, writer, conn, closed>>

\* Mutant: a client whose buffer is full is unregistered on the spot.
DropOnTheSpot(c) ==
    /\ hub = "fanout" /\ c \in todo
    /\ sending[c] = SendCap
    /\ clients' = clients \ {c}
    /\ closed' = closed \union {c}
    /\ todo' = todo \ {c}
    /\ UNCHANGED <<queued, hub, dropping, bridge, reader, writer, conn, sending>>

\* The buffer is full: Run() sends the client to hub.unregister.  Nobody but
\* Run() receives from it, so there is no action that ends this send.
Drop(c) ==
    /\ hub = "fanout" /\ c \in todo
    /\ sending[c] = SendCap
    /\ hub' = "drop"
    /\ dropping' = c
    /\ UNCHANGED <<clients, queued, todo, bridge, clientVars>>

\* Mutant: Run() does not come back from an event nobody is registered for.
FanOutDoneIfAny ==
    /\ hub = "fanout" /\ todo = {} /\ clients # {}
    /\ hub' = "select"
    /\ UNCHANGED <<clients, queued, todo, dropping, bridge, clientVars>>

FanOutDone ==
    /\ hub = "fanout" /\ todo = {}
    /\ hub' = "select"
    /\ UNCHANGED <<clients, queued, todo, dropping, bridge, clientVars>>

----------------------------------------------------------------------------
(* ReadPump.                                                               *)

\* A "ping" is answered through the send channel, unless that is full.  The
\* message may have been read before WritePump closed the connection.
ReadPing(c) ==
    /\ reader[c] = "reading"
    /\ sending[c] < SendCap
    /\ sending' = [sending EXCEPT ![c] = @ + 1]
    /\ UNCHANGED <<hubVars, bridge, reader, writer, conn, closed>>

\* Mutant: ReadPump ends without the deferred send to hub.unregister.
ReadFailsSilently(c) ==
    /\ Moves(reader, c, "reading", "gone")
    /\ UNCHANGED <<hubVars, bridge, writer, conn, sending, closed>>

\* ReadMessage fails: the peer has gone, the pong is overdue, or WritePump has
\* closed the connection.
ReadFails(c) ==
    /\ Moves(reader, c, "reading", "unregister")
    /\ UNCHANGED <<hubVars, bridge, writer, conn, sending, closed>>

----------------------------------------------------------------------------
(* WritePump.                                                              *)

\* Mutant: the channel is read whether or not it holds anything.
WriterTakesBlindly(c) ==
    /\ Moves(writer, c, "idle", "writing")
    /\ sending' = [sending EXCEPT ![c] = @ - 1]
    /\ UNCHANGED <<hubVars, bridge, reader, conn, closed>>

WriterTakes(c) ==
    /\ sending[c] > 0
    /\ Moves(writer, c, "idle", "writing")
    /\ sending' = [sending EXCEPT ![c] = @ - 1]
    /\ UNCHANGED <<hubVars, bridge, reader, conn, closed>>

PingTick(c) ==
    /\ Moves(writer, c, "idle", "writing")
    /\ UNCHANGED <<hubVars, bridge, reader, conn, sending, closed>>

WriteReturns(c) ==
    /\ conn[c] = "open"
    /\ Moves(writer, c, "writing", "idle")
    /\ UNCHANGED <<hubVars, bridge, reader, conn, sending, closed>>

\* The write fails, at the latest after writeWait, or the channel is closed
\* and drained: WritePump closes the connection and ends.
WriterLeaves(c) ==
    /\ \/ Moves(writer, c, "writing", "gone")
       \/ c \in closed /\ sending[c] = 0 /\ Moves(writer, c, "idle", "gone")
    /\ conn' = [conn EXCEPT ![c] = "closed"]
    /\ UNCHANGED <<hubVars, bridge, reader, sending, closed>>

----------------------------------------------------------------------------
FanOut == FanOutDone \/ \E c \in Clients : Skip(c) \/ Offer(c) \/ Drop(c)

Write(c) == WriterTakes(c) \/ WriteReturns(c) \/ WriterLeaves(c)

Next ==
    \/ BridgeReceives \/ Broadcast
    \/ TakeEvent \/ FanOut
    \/ \E c \in Clients :
         \/ Connect(c) \/ Register(c) \/ StartPumps(c) \/ Unregister(c)
         \/ ReadPing(c) \/ ReadFails(c)
         \/ Write(c) \/ PingTick(c)

Spec == Init /\ [][Next]_vars

\* Every goroutine runs when it can.  Among several ready channels select picks
\* at random, hence the strong fairness of the two unbuffered ones; a read on a
\* closed connection fails, a write ends within writeWait.  Nobody has to
\* connect, to send, or to publish.
Fairness ==
    /\ WF_vars(Broadcast) /\ WF_vars(TakeEvent) /\ WF_vars(FanOut)
    /\ \A c \in Clients :
         /\ SF_vars(Register(c)) /\ SF_vars(Unregister(c))
         /\ WF_vars(StartPumps(c))
         /\ WF_vars(conn[c] = "closed" /\ ReadFails(c))
         /\ WF_vars(Write(c))

FairSpec == Spec /\ Fairness

----------------------------------------------------------------------------
(* Properties.                                                             *)

Stuck == hub = "drop"

MaySendTo(c) == c \in todo \/ reader[c] = "reading"

\* A send on a closed channel and a second close panic, and no goroutine here
\* recovers.  Nobody who may still send to a client - the hub in the middle of
\* a fan-out, ReadPump answering a ping - and no registered client has its
\* channel closed: the channel is closed by the hub, and only when ReadPump,
\* the other sender, has left.
NoSendOnClosed == \A c \in closed : ~MaySendTo(c) /\ c \notin clients

\* The registry follows the connections: a client is in it from the moment its
\* handler is let through until its ReadPump has left, and a client that has
\* left has its channel closed, so that WritePump can end too.
RegistryFollowsReaders ==
    /\ clients = {c \in Clients : reader[c] \in {"registered", "reading", "unregister"}}
    /\ closed = {c \in Clients : reader[c] = "gone"}

\* Every connection that is closed is cleaned up, both pumps included, and
\* every event the bridge broadcasts gets through - unless the hub is stuck.
ClosedConnectionsAreForgotten ==
    \A c \in Clients : conn[c] = "closed" ~> Stuck \/ (c \in closed /\ writer[c] = "gone")

BridgeIsNotHeldUp == bridge = "broadcast" ~> Stuck \/ bridge = "idle"

\* What hub.go:117 says of Broadcast: it "sends an event to all matching
\* clients" - in particular it comes back.  One client with a full buffer
\* keeps it from doing so for ever, for every client of every organization.
BroadcastReturns == bridge = "broadcast" ~> bridge = "idle"

==============================================================================
