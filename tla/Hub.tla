-------------------------------- MODULE Hub --------------------------------
(***************************************************************************)
(* The WebSocket hub of one server process: the Manager goroutine of       *)
(* internal/websocket/manager.go, its 10-second ticker goroutine, the      *)
(* history goroutines it spawns, and for every connection the HTTP handler *)
(* that registers it and its ReadPump and WritePump goroutines.            *)
(*                                                                         *)
(* Channels are bounded sequences; a Go "select ... default" send appends  *)
(* or drops.  Payloads are abstract: a posted message, edit or file event  *)
(* is the number of its turn in `posted`, and 0 stands for a message that  *)
(* was already stored when it is replayed as history.                      *)
(*                                                                         *)
(* A definition named X_Y is X with a fault Y a programmer could make.     *)
(* No specification uses it: it is there to show that a property fails     *)
(* once X is replaced by it.                                               *)
(***************************************************************************)
EXTENDS Integers, Sequences, FiniteSets

CONSTANTS
  Clients,     \* the Client structs ever made, one per WebSocket connection
  Users,       \* the user names of the sessions they come from
  Username,    \* Client.Username
  None,        \* a user without entry in OnlineUsers, or no client at hand
  SendCap,     \* capacity of Client.Send           (256 in NewClient)
  FileCap,     \* capacity of Client.SendFileEvent  (32)
  OnlineCap,   \* capacity of Client.SendOnline     (8)
  QueueCap,    \* capacity of Manager.Broadcast, FileEvents, EditMessage (100)
  HistoryLen,  \* most messages a history replay sends (100)
  MaxItems     \* bound: messages, edits and file events posted in a run

ASSUME ClientsAssumption ==
  /\ IsFiniteSet(Clients) /\ IsFiniteSet(Users)
  /\ Username \in [Clients -> Users]
  /\ None \notin Clients

ASSUME CapacityAssumption ==
  /\ SendCap \in Nat /\ FileCap \in Nat /\ OnlineCap \in Nat
  /\ QueueCap \in Nat
  /\ HistoryLen \in Nat /\ MaxItems \in Nat

VARIABLES
  \* the Manager struct
  clients,        \* Manager.Clients
  onlineUsers,    \* Manager.OnlineUsers
  broadcast,      \* Manager.Broadcast
  editMessage,    \* Manager.EditMessage
  fileEvents,     \* Manager.FileEvents
  readers,        \* who holds ClientsMu.RLock
  \* the manager and ticker goroutines
  pc,             \* where each of the two is
  cur,            \* manager: the client it received
  joining,        \* manager: it received it from Register, not Unregister
  item,           \* manager: the message or event it received
  users,          \* the user list each of the two has copied
  todo,           \* the clients left in a range over Clients
  \* the goroutines of a connection, its channels and its socket
  life,           \* WebSocketHandler, then ReadPump
  writer,         \* WritePump
  replay,         \* messages the sendMessageHistory goroutine has left
  send,           \* Client.Send
  sendFileEvent,  \* Client.SendFileEvent
  sendOnline,     \* Client.SendOnline
  closed,         \* clients whose three channels have been closed
  conn,           \* the socket
  \* the send or close that panicked and took the process down
  panicked,
  \* history variables: what was posted, the messages and edits in the order
  \* the manager took them, and what each browser was sent
  posted, log, received, receivedFiles, shown

managerVars == <<pc, cur, joining, item, users, todo, readers>>
queueVars   == <<broadcast, editMessage, fileEvents, posted, log>>
channelVars == <<send, sendFileEvent, sendOnline, closed>>
peerVars    == <<received, receivedFiles, shown>>

vars == <<clients, onlineUsers, managerVars, queueVars, channelVars, peerVars,
          life, writer, replay, conn, panicked>>

-----------------------------------------------------------------------------
Procs == {"manager", "ticker"}       \* the two goroutines that fan out lists
Items == 1..MaxItems
Kinds == {"chat", "edit", "file", "debug"}

Online(ou) == {u \in Users : ou[u] # None}

\* A non-blocking send of v to c's channel of capacity cap.
TrySend(ch, c, cap, v) ==
  IF Len(ch[c]) < cap THEN [ch EXCEPT ![c] = Append(@, v)] ELSE ch

\* For ClientsMu.RLock: a writer that waits keeps new readers out.  A reader
\* that came between the manager's receive and its Lock could as well have
\* come before the receive.
WriterWaits == pc["manager"] \in {"addClient", "dropClient"}

Goto(p, label) == pc' = [pc EXCEPT ![p] = label]

Init ==
  /\ clients = {} /\ onlineUsers = [u \in Users |-> None]
  /\ broadcast = <<>> /\ editMessage = <<>> /\ fileEvents = <<>>
  /\ readers = {}
  /\ pc = [p \in Procs |-> IF p = "manager" THEN "select" ELSE "wait"]
  /\ cur = None /\ joining = FALSE /\ item = 0
  /\ users = [p \in Procs |-> {}]
  /\ todo = [p \in Procs |-> {}]
  /\ life = [c \in Clients |-> "idle"]
  /\ writer = [c \in Clients |-> "off"]
  /\ replay = [c \in Clients |-> 0]
  /\ send = [c \in Clients |-> <<>>]
  /\ sendFileEvent = [c \in Clients |-> <<>>]
  /\ sendOnline = [c \in Clients |-> <<>>]
  /\ closed = {} /\ conn = [c \in Clients |-> "down"]
  /\ panicked = "no"
  /\ posted = <<>> /\ log = <<>>
  /\ received = [c \in Clients |-> <<>>]
  /\ receivedFiles = [c \in Clients |-> <<>>]
  /\ shown = [c \in Clients |-> {}]

-----------------------------------------------------------------------------
(* A connection: the HTTP handler, then ReadPump and WritePump.            *)

\* WebSocketHandler upgrades the request, makes the Client and blocks on
\* the unbuffered Register channel.
Connect(c) ==
  /\ life[c] = "idle"
  /\ life' = [life EXCEPT ![c] = "registering"]
  /\ conn' = [conn EXCEPT ![c] = "up"]
  /\ UNCHANGED <<clients, onlineUsers, managerVars, queueVars, channelVars,
                 peerVars, writer, replay, panicked>>

\* Once the manager has taken the client the handler starts both pumps.
StartPumps(c) ==
  /\ life[c] = "accepted"
  /\ life' = [life EXCEPT ![c] = "reading"]
  /\ writer' = [writer EXCEPT ![c] = "running"]
  /\ UNCHANGED <<clients, onlineUsers, managerVars, queueVars, channelVars,
                 peerVars, replay, conn, panicked>>

\* The browser goes away or the network breaks: reads and pings fail.
PeerLost(c) ==
  /\ conn[c] = "up"
  /\ conn' = [conn EXCEPT ![c] = "down"]
  /\ UNCHANGED <<clients, onlineUsers, managerVars, queueVars, channelVars,
                 peerVars, life, writer, replay, panicked>>

\* Echoes the author's message before the hub has ordered it.
ReadChat_Echo(c) ==
  /\ life[c] = "reading" /\ conn[c] = "up"
  /\ Len(posted) < MaxItems /\ Len(broadcast) < QueueCap
  /\ posted' = Append(posted, "chat")
  /\ broadcast' = Append(broadcast, Len(posted'))
  /\ send' = TrySend(send, c, SendCap, Len(posted'))
  /\ UNCHANGED <<clients, onlineUsers, managerVars, editMessage, fileEvents,
                 log, sendFileEvent, sendOnline, closed, peerVars, life, writer,
                 replay, conn, panicked>>

\* ReadPump queues a message or an edit without blocking; with the queue
\* full the text is dropped and nothing changes.
ReadChat(c) ==
  /\ life[c] = "reading" /\ conn[c] = "up"
  /\ Len(posted) < MaxItems /\ Len(broadcast) < QueueCap
  /\ posted' = Append(posted, "chat")
  /\ broadcast' = Append(broadcast, Len(posted'))
  /\ UNCHANGED <<clients, onlineUsers, managerVars, editMessage, fileEvents,
                 log, channelVars, peerVars, life, writer, replay, conn, panicked>>

ReadEdit(c) ==
  /\ life[c] = "reading" /\ conn[c] = "up"
  /\ Len(posted) < MaxItems /\ Len(editMessage) < QueueCap
  /\ posted' = Append(posted, "edit")
  /\ editMessage' = Append(editMessage, Len(posted'))
  /\ UNCHANGED <<clients, onlineUsers, managerVars, broadcast, fileEvents,
                 log, channelVars, peerVars, life, writer, replay, conn, panicked>>

\* A file handler of the HTTP server queues an upload or delete event.
PostFileEvent ==
  /\ Len(posted) < MaxItems /\ Len(fileEvents) < QueueCap
  /\ posted' = Append(posted, "file")
  /\ fileEvents' = Append(fileEvents, Len(posted'))
  /\ UNCHANGED <<clients, onlineUsers, managerVars, broadcast, editMessage,
                 log, channelVars, peerVars, life, writer, replay, conn, panicked>>

\* DebugSendTestEvent, a development route: under ClientsMu.RLock a test event
\* goes straight into the channel of one connection of the user asked for,
\* past FileEvents.
DebugSendTestEvent(c) ==
  /\ c \in clients /\ ~WriterWaits
  /\ Len(posted) < MaxItems
  /\ posted' = Append(posted, "debug")
  /\ IF c \in closed
     THEN panicked' = "fanout" /\ UNCHANGED sendFileEvent
     ELSE /\ sendFileEvent' = TrySend(sendFileEvent, c, FileCap, Len(posted'))
          /\ UNCHANGED panicked
  /\ UNCHANGED <<clients, onlineUsers, managerVars, broadcast, editMessage,
                 fileEvents, log, send, sendOnline, closed, peerVars, life,
                 writer, replay, conn>>

\* ReadJSON fails: the socket is down, the read deadline passed, or the
\* frame is too large or no JSON.  The deferred function then blocks on the
\* unbuffered Unregister channel.
ReadFails(c) ==
  /\ life[c] = "reading"
  /\ life' = [life EXCEPT ![c] = "leaving"]
  /\ UNCHANGED <<clients, onlineUsers, managerVars, queueVars, channelVars,
                 peerVars, writer, replay, conn, panicked>>

\* The deferred function closes the socket once the manager has taken c.
CloseConn(c) ==
  /\ life[c] = "closing"
  /\ life' = [life EXCEPT ![c] = "gone"]
  /\ conn' = [conn EXCEPT ![c] = "down"]
  /\ UNCHANGED <<clients, onlineUsers, managerVars, queueVars, channelVars,
                 peerVars, writer, replay, panicked>>

\* WritePump writes the next message, file event or user list.  A write to a
\* dead socket fails, is logged, and the loop goes on.
WriteMessage(c) ==
  /\ writer[c] = "running" /\ send[c] # <<>>
  /\ send' = [send EXCEPT ![c] = Tail(@)]
  /\ received' = IF conn[c] = "up"
                 THEN [received EXCEPT ![c] = Append(@, Head(send[c]))]
                 ELSE received
  /\ UNCHANGED <<clients, onlineUsers, managerVars, queueVars, sendFileEvent,
                 sendOnline, closed, receivedFiles, shown, life, writer,
                 replay, conn, panicked>>

WriteFileEvent(c) ==
  /\ writer[c] = "running" /\ sendFileEvent[c] # <<>>
  /\ sendFileEvent' = [sendFileEvent EXCEPT ![c] = Tail(@)]
  /\ receivedFiles' = IF conn[c] = "up"
                      THEN [receivedFiles EXCEPT
                              ![c] = Append(@, Head(sendFileEvent[c]))]
                      ELSE receivedFiles
  /\ UNCHANGED <<clients, onlineUsers, managerVars, queueVars, send,
                 sendOnline, closed, received, shown, life, writer, replay,
                 conn, panicked>>

WriteOnline(c) ==
  /\ writer[c] = "running" /\ sendOnline[c] # <<>>
  /\ sendOnline' = [sendOnline EXCEPT ![c] = Tail(@)]
  /\ shown' = IF conn[c] = "up"
              THEN [shown EXCEPT ![c] = Head(sendOnline[c])] ELSE shown
  /\ UNCHANGED <<clients, onlineUsers, managerVars, queueVars, send,
                 sendFileEvent, closed, received, receivedFiles, life, writer,
                 replay, conn, panicked>>

\* WritePump returns when it meets the end of a closed channel, whatever the
\* other two still hold, or when a ping fails; both close the socket.
WriterStops(c) ==
  /\ writer[c] = "running"
  /\ \/ c \in closed /\ <<>> \in {send[c], sendFileEvent[c], sendOnline[c]}
     \/ conn[c] = "down"
  /\ writer' = [writer EXCEPT ![c] = "done"]
  /\ conn' = [conn EXCEPT ![c] = "down"]
  /\ UNCHANGED <<clients, onlineUsers, managerVars, queueVars, channelVars,
                 peerVars, life, replay, panicked>>

-----------------------------------------------------------------------------
(* The manager goroutine.  Only it takes ClientsMu for writing and changes *)
(* Clients and OnlineUsers, so what it reads between two of its own steps  *)
(* cannot change under it: taking ClientsMu.RLock is part of the step that *)
(* leads to a fan-out.  OnlineMu protects one step at a time.              *)

\* case client := <-m.Register
ReceiveRegister(c) ==
  /\ pc["manager"] = "select" /\ life[c] = "registering"
  /\ life' = [life EXCEPT ![c] = "accepted"]
  /\ cur' = c /\ joining' = TRUE
  /\ Goto("manager", "addClient")
  /\ UNCHANGED <<clients, onlineUsers, item, users, todo, readers, queueVars,
                 channelVars, peerVars, writer, replay, conn, panicked>>

\* Deletes and closes under no lock.
CanLock_NoLock == TRUE

\* ClientsMu.Lock: waits for the readers.
CanLock == readers = {}

AddClient ==
  /\ pc["manager"] = "addClient" /\ CanLock
  /\ clients' = clients \union {cur}
  /\ Goto("manager", "addOnline")
  /\ UNCHANGED <<onlineUsers, cur, joining, item, users, todo, readers,
                 queueVars, channelVars, peerVars, life, writer, replay, conn,
                 panicked>>

\* The manager's own broadcastOnlineUsers begins: the list it copies is
\* OnlineUsers as it has just left it.
FanOutOnline ==
  /\ users' = [users EXCEPT !["manager"] = Online(onlineUsers')]
  /\ readers' = readers \union {"manager"}
  /\ todo' = [todo EXCEPT !["manager"] = clients]
  /\ Goto("manager", "fanOnline")

\* Skips a client whose socket has already failed.
AddOnline_SkipDown ==
  /\ pc["manager"] = "addOnline"
  /\ onlineUsers' = IF conn[cur] = "up"
                    THEN [onlineUsers EXCEPT ![Username[cur]] = cur]
                    ELSE onlineUsers
  /\ FanOutOnline
  /\ UNCHANGED <<clients, cur, joining, item, queueVars, channelVars, peerVars,
                 life, writer, replay, conn, panicked>>

AddOnline ==
  /\ pc["manager"] = "addOnline"
  /\ onlineUsers' = [onlineUsers EXCEPT ![Username[cur]] = cur]
  /\ FanOutOnline
  /\ UNCHANGED <<clients, cur, joining, item, queueVars, channelVars,
                 peerVars, life, writer, replay, conn, panicked>>

\* Closes the channels before it has the lock.
ReceiveUnregister_CloseEarly(c) ==
  /\ pc["manager"] = "select" /\ life[c] = "leaving"
  /\ life' = [life EXCEPT ![c] = "closing"]
  /\ cur' = c /\ joining' = FALSE
  /\ closed' = closed \union {c}
  /\ Goto("manager", "dropClient")
  /\ UNCHANGED <<clients, onlineUsers, item, users, todo, readers, queueVars,
                 send, sendFileEvent, sendOnline, peerVars, writer, replay,
                 conn, panicked>>

\* case client := <-m.Unregister
ReceiveUnregister(c) ==
  /\ pc["manager"] = "select" /\ life[c] = "leaving"
  /\ life' = [life EXCEPT ![c] = "closing"]
  /\ cur' = c /\ joining' = FALSE
  /\ Goto("manager", "dropClient")
  /\ UNCHANGED <<clients, onlineUsers, item, users, todo, readers, queueVars,
                 channelVars, peerVars, writer, replay, conn, panicked>>

\* The test for a registered client is inverted.
DropClient_Inverted ==
  /\ pc["manager"] = "dropClient" /\ CanLock
  /\ IF cur \in clients
     THEN UNCHANGED <<clients, closed, panicked>>
     ELSE /\ clients' = clients \ {cur}
          /\ closed' = closed \union {cur}
          /\ panicked' = IF cur \in closed THEN "close" ELSE panicked
  /\ Goto("manager", "dropOnline")
  /\ UNCHANGED <<onlineUsers, cur, joining, item, users, todo, readers,
                 queueVars, send, sendFileEvent, sendOnline, peerVars, life,
                 writer, replay, conn>>

DropClient ==
  /\ pc["manager"] = "dropClient" /\ CanLock
  /\ IF cur \notin clients
     THEN UNCHANGED <<clients, closed, panicked>>
     ELSE /\ clients' = clients \ {cur}
          /\ closed' = closed \union {cur}
          /\ panicked' = IF cur \in closed THEN "close" ELSE panicked
  /\ Goto("manager", "dropOnline")
  /\ UNCHANGED <<onlineUsers, cur, joining, item, users, todo, readers,
                 queueVars, send, sendFileEvent, sendOnline, peerVars, life,
                 writer, replay, conn>>

\* Means to spare another tab's entry, with the comparison inverted.
DropOnline_KeepsOwn ==
  /\ pc["manager"] = "dropOnline"
  /\ onlineUsers' = IF onlineUsers[Username[cur]] = cur THEN onlineUsers
                    ELSE [onlineUsers EXCEPT ![Username[cur]] = None]
  /\ FanOutOnline
  /\ UNCHANGED <<clients, cur, joining, item, queueVars, channelVars, peerVars,
                 life, writer, replay, conn, panicked>>

\* delete(m.OnlineUsers, client.Username), whoever the entry belongs to.
DropOnline ==
  /\ pc["manager"] = "dropOnline"
  /\ onlineUsers' = [onlineUsers EXCEPT ![Username[cur]] = None]
  /\ FanOutOnline
  /\ UNCHANGED <<clients, cur, joining, item, queueVars, channelVars,
                 peerVars, life, writer, replay, conn, panicked>>

\* A message, edit or file event is taken from its queue and fanned out.
\* UpdateMessage may fail (no such message, not the author, database down):
\* the edit is dropped.  Saving, caching and publishing a message to Redis
\* go on beside this and do not touch the hub.
FanOutItem(n, label) ==
  /\ item' = n
  /\ log' = IF label = "fanMessage" THEN Append(log, n) ELSE log
  /\ Goto("manager", label)
  /\ readers' = readers \union {"manager"}
  /\ todo' = [todo EXCEPT !["manager"] = clients]

\* Takes the newest message of the queue first.
ReceiveBroadcast_Newest ==
  /\ pc["manager"] = "select" /\ broadcast # <<>>
  /\ broadcast' = SubSeq(broadcast, 1, Len(broadcast) - 1)
  /\ FanOutItem(broadcast[Len(broadcast)], "fanMessage")
  /\ UNCHANGED <<clients, onlineUsers, editMessage, fileEvents, posted, cur,
                 joining, users, channelVars, peerVars, life, writer, replay,
                 conn, panicked>>

ReceiveBroadcast ==
  /\ pc["manager"] = "select" /\ broadcast # <<>>
  /\ broadcast' = Tail(broadcast)
  /\ FanOutItem(Head(broadcast), "fanMessage")
  /\ UNCHANGED <<clients, onlineUsers, editMessage, fileEvents, posted, cur,
                 joining, users, channelVars, peerVars, life, writer, replay,
                 conn, panicked>>

ReceiveEdit ==
  /\ pc["manager"] = "select" /\ editMessage # <<>>
  /\ editMessage' = Tail(editMessage)
  /\ \/ FanOutItem(Head(editMessage), "fanMessage")
     \/ UNCHANGED <<item, log, pc, readers, todo>>
  /\ UNCHANGED <<clients, onlineUsers, broadcast, fileEvents, posted, cur,
                 joining, users, channelVars, peerVars, life, writer, replay,
                 conn, panicked>>

ReceiveFileEvent ==
  /\ pc["manager"] = "select" /\ fileEvents # <<>>
  /\ fileEvents' = Tail(fileEvents)
  /\ FanOutItem(Head(fileEvents), "fanFile")
  /\ UNCHANGED <<clients, onlineUsers, broadcast, editMessage, posted, cur,
                 joining, users, channelVars, peerVars, life, writer, replay,
                 conn, panicked>>

\* Keeps the last place in the channel free.
FanMessage_SparesSlot(c) ==
  /\ pc["manager"] = "fanMessage" /\ c \in todo["manager"]
  /\ todo' = [todo EXCEPT !["manager"] = @ \ {c}]
  /\ IF c \in closed
     THEN panicked' = "fanout" /\ UNCHANGED send
     ELSE send' = TrySend(send, c, SendCap - 1, item) /\ UNCHANGED panicked
  /\ UNCHANGED <<clients, onlineUsers, pc, cur, joining, item, users, readers,
                 queueVars, sendFileEvent, sendOnline, closed, peerVars, life,
                 writer, replay, conn>>

\* Forgets that the client has been served.
FanMessage_KeepsClient(c) ==
  /\ pc["manager"] = "fanMessage" /\ c \in todo["manager"]
  /\ \/ todo' = [todo EXCEPT !["manager"] = @ \ {c}]
     \/ UNCHANGED todo
  /\ IF c \in closed
     THEN panicked' = "fanout" /\ UNCHANGED send
     ELSE send' = TrySend(send, c, SendCap, item) /\ UNCHANGED panicked
  /\ UNCHANGED <<clients, onlineUsers, pc, cur, joining, item, users, readers,
                 queueVars, sendFileEvent, sendOnline, closed, peerVars, life,
                 writer, replay, conn>>

\* broadcastToLocalClients and broadcastFileEventToLocalClients: one client
\* of the range at a time, in any order.  A send on a closed channel panics.
FanMessage(c) ==
  /\ pc["manager"] = "fanMessage" /\ c \in todo["manager"]
  /\ todo' = [todo EXCEPT !["manager"] = @ \ {c}]
  /\ IF c \in closed
     THEN panicked' = "fanout" /\ UNCHANGED send
     ELSE send' = TrySend(send, c, SendCap, item) /\ UNCHANGED panicked
  /\ UNCHANGED <<clients, onlineUsers, pc, cur, joining, item, users, readers,
                 queueVars, sendFileEvent, sendOnline, closed, peerVars, life,
                 writer, replay, conn>>

FanFile(c) ==
  /\ pc["manager"] = "fanFile" /\ c \in todo["manager"]
  /\ todo' = [todo EXCEPT !["manager"] = @ \ {c}]
  /\ IF c \in closed
     THEN panicked' = "fanout" /\ UNCHANGED sendFileEvent
     ELSE /\ sendFileEvent' = TrySend(sendFileEvent, c, FileCap, item)
          /\ UNCHANGED panicked
  /\ UNCHANGED <<clients, onlineUsers, pc, cur, joining, item, users, readers,
                 queueVars, send, sendOnline, closed, peerVars, life, writer,
                 replay, conn>>

FannedOut ==
  /\ pc["manager"] \in {"fanMessage", "fanFile"} /\ todo["manager"] = {}
  /\ readers' = readers \ {"manager"}
  /\ item' = 0
  /\ Goto("manager", "select")
  /\ UNCHANGED <<clients, onlineUsers, cur, joining, users, todo, queueVars,
                 channelVars, peerVars, life, writer, replay, conn, panicked>>

-----------------------------------------------------------------------------
(* broadcastOnlineUsers, run by the manager after every Register and       *)
(* Unregister and by the ticker goroutine every ten seconds: one client of *)
(* the range at a time, then the lock is released.                         *)

FanOnline(p, c) ==
  /\ pc[p] = "fanOnline" /\ c \in todo[p]
  /\ todo' = [todo EXCEPT ![p] = @ \ {c}]
  /\ IF c \in closed
     THEN panicked' = "fanout" /\ UNCHANGED sendOnline
     ELSE /\ sendOnline' = TrySend(sendOnline, c, OnlineCap, users[p])
          /\ UNCHANGED panicked
  /\ UNCHANGED <<clients, onlineUsers, pc, cur, joining, item, users, readers,
                 queueVars, send, sendFileEvent, closed, peerVars, life,
                 writer, replay, conn>>

\* What sendMessageHistory finds in the cache or the database.
Found_OneMore == 0..(HistoryLen + 1)
Found == 0..HistoryLen

\* The lock is not released.
OnlineFannedOut_KeepsLock(p) ==
  /\ pc[p] = "fanOnline" /\ todo[p] = {}
  /\ users' = [users EXCEPT ![p] = {}]
  /\ IF p = "manager"
     THEN Goto(p, "select") /\ cur' = None /\ joining' = FALSE
     ELSE Goto(p, "wait") /\ UNCHANGED <<cur, joining>>
  /\ IF p = "manager" /\ joining
     THEN \E n \in Found : replay' = [replay EXCEPT ![cur] = n]
     ELSE UNCHANGED replay
  /\ UNCHANGED <<clients, onlineUsers, item, todo, readers, queueVars,
                 channelVars, peerVars, life, writer, conn, panicked>>

\* The manager then spawns sendMessageHistory for a client that joined.
OnlineFannedOut(p) ==
  /\ pc[p] = "fanOnline" /\ todo[p] = {}
  /\ readers' = readers \ {p}
  /\ users' = [users EXCEPT ![p] = {}]
  /\ IF p = "manager"
     THEN Goto(p, "select") /\ cur' = None /\ joining' = FALSE
     ELSE Goto(p, "wait") /\ UNCHANGED <<cur, joining>>
  /\ IF p = "manager" /\ joining
     THEN \E n \in Found : replay' = [replay EXCEPT ![cur] = n]
     ELSE UNCHANGED replay
  /\ UNCHANGED <<clients, onlineUsers, item, todo, queueVars, channelVars,
                 peerVars, life, writer, conn, panicked>>

\* sendMessageHistory: no lock is held while it sends.
ReplayMessage(c) ==
  /\ replay[c] > 0
  /\ replay' = [replay EXCEPT ![c] = @ - 1]
  /\ IF c \in closed
     THEN panicked' = "history" /\ UNCHANGED send
     ELSE send' = TrySend(send, c, SendCap, 0) /\ UNCHANGED panicked
  /\ UNCHANGED <<clients, onlineUsers, managerVars, queueVars, sendFileEvent,
                 sendOnline, closed, peerVars, life, writer, conn>>

-----------------------------------------------------------------------------
(* broadcastOnlineUsersPeriodically; module Gauges has the gauges it sets. *)
(* The ticker copies the list under OnlineMu and asks for ClientsMu later: *)
(* the list may be old by the time it is sent.                             *)

\* Ticks only while nobody is connected.
Tick_WhenEmpty ==
  /\ pc["ticker"] = "wait" /\ clients = {}
  /\ users' = [users EXCEPT !["ticker"] = Online(onlineUsers)]
  /\ Goto("ticker", "lockClients")
  /\ UNCHANGED <<clients, onlineUsers, cur, joining, item, todo, readers,
                 queueVars, channelVars, peerVars, life, writer, replay, conn,
                 panicked>>

Tick ==
  /\ pc["ticker"] = "wait"
  /\ users' = [users EXCEPT !["ticker"] = Online(onlineUsers)]
  /\ Goto("ticker", "lockClients")
  /\ UNCHANGED <<clients, onlineUsers, cur, joining, item, todo, readers,
                 queueVars, channelVars, peerVars, life, writer, replay, conn,
                 panicked>>

\* ClientsMu.RLock
LockClients ==
  /\ pc["ticker"] = "lockClients" /\ ~WriterWaits
  /\ readers' = readers \union {"ticker"}
  /\ todo' = [todo EXCEPT !["ticker"] = clients]
  /\ Goto("ticker", "fanOnline")
  /\ UNCHANGED <<clients, onlineUsers, cur, joining, item, users, queueVars,
                 channelVars, peerVars, life, writer, replay, conn, panicked>>

-----------------------------------------------------------------------------
BroadcastOnline(p) ==
  OnlineFannedOut(p) \/ \E c \in Clients : FanOnline(p, c)

Manager ==
  \/ AddClient \/ AddOnline \/ DropClient \/ DropOnline \/ FannedOut
  \/ ReceiveBroadcast \/ ReceiveEdit \/ ReceiveFileEvent
  \/ \E c \in Clients : \/ ReceiveRegister(c) \/ ReceiveUnregister(c)
                        \/ FanMessage(c) \/ FanFile(c)
  \/ BroadcastOnline("manager")

Ticker == Tick \/ LockClients \/ BroadcastOnline("ticker")

WritePump(c) ==
  \/ WriteMessage(c) \/ WriteFileEvent(c) \/ WriteOnline(c) \/ WriterStops(c)

\* What the program does by itself.
Goroutines ==
  \/ Manager \/ Ticker
  \/ \E c \in Clients :
       StartPumps(c) \/ CloseConn(c) \/ WritePump(c) \/ ReplayMessage(c)

\* What browsers, users and the network do to it.
Environment ==
  \/ PostFileEvent
  \/ \E c \in Clients : \/ Connect(c) \/ PeerLost(c) \/ ReadFails(c)
                        \/ ReadChat(c) \/ ReadEdit(c)
                        \/ DebugSendTestEvent(c)

Up == panicked = "no"

\* An unrecovered panic ends the process: every goroutine stops.
Halted == ~Up /\ UNCHANGED vars

Next == \/ Up /\ (Goroutines \/ Environment)
        \/ Halted

Spec == Init /\ [][Next]_vars

\* The handler and then ReadPump, as far as they move by themselves: a dead
\* socket makes the blocked read fail.
Connection(c) ==
  StartPumps(c) \/ CloseConn(c) \/ (conn[c] = "down" /\ ReadFails(c))

\* Every goroutine that can run is run.  The posted items are finitely many
\* and every client leaves at most once, so no branch of the manager's
\* select is passed over for ever.  Nothing is assumed of the environment.
Fairness ==
  /\ WF_vars(Up /\ Manager) /\ WF_vars(Up /\ Ticker)
  /\ \A c \in Clients : /\ WF_vars(Up /\ Connection(c))
                         /\ WF_vars(Up /\ ReplayMessage(c))
                         /\ WF_vars(Up /\ WritePump(c))

FairSpec == Spec /\ Fairness

-----------------------------------------------------------------------------
(* Properties.                                                             *)

ControlTypeOK ==
  /\ clients \subseteq Clients /\ closed \subseteq Clients
  /\ onlineUsers \in [Users -> Clients \union {None}]
  /\ readers \subseteq Procs
  /\ pc \in [Procs -> {"select", "addClient", "addOnline", "dropClient",
                       "dropOnline", "fanOnline", "fanMessage", "fanFile",
                       "wait", "lockClients"}]
  /\ cur \in Clients \union {None} /\ joining \in BOOLEAN
  /\ users \in [Procs -> SUBSET Users]
  /\ todo \in [Procs -> SUBSET Clients]
  /\ life \in [Clients -> {"idle", "registering", "accepted", "reading",
                           "leaving", "closing", "gone"}]
  /\ writer \in [Clients -> {"off", "running", "done"}]
  /\ replay \in [Clients -> 0..HistoryLen]
  /\ conn \in [Clients -> {"up", "down"}]
  /\ panicked \in {"no", "history", "fanout", "close"}

ChannelTypeOK ==
  /\ broadcast \in Seq(Items) /\ editMessage \in Seq(Items)
  /\ fileEvents \in Seq(Items)
  /\ posted \in Seq(Kinds) /\ Len(posted) <= MaxItems
  /\ log \in Seq(Items)
  /\ item \in 0..MaxItems
  /\ send \in [Clients -> Seq(0..MaxItems)]
  /\ sendFileEvent \in [Clients -> Seq(0..MaxItems)]
  /\ sendOnline \in [Clients -> Seq(SUBSET Users)]
  /\ received \in [Clients -> Seq(0..MaxItems)]
  /\ receivedFiles \in [Clients -> Seq(0..MaxItems)]
  /\ shown \in [Clients -> SUBSET Users]

\* Every variable has its type.
TypeOK == ControlTypeOK /\ ChannelTypeOK

\* The manager and the ticker never send on a channel that Unregister has
\* closed, and Unregister never closes one twice: ClientsMu keeps the range
\* over Clients and the close apart.
NoFanOutPanic == panicked \notin {"fanout", "close"}

\* Where a range over Clients is under way.
Fanning == {"fanOnline", "fanMessage", "fanFile"}

\* ClientsMu is held for reading by whoever ranges over Clients and by
\* nobody else: no way out of a range forgets RUnlock, and the manager, when
\* it asks for Lock, waits for the ticker alone, never for itself.
LockOnlyInRange == \A p \in Procs : p \in readers <=> pc[p] \in Fanning

\* A goroutine in a range over Clients only has registered clients, with
\* open channels, ahead of it: the reason for NoFanOutPanic.
RangeIsOpen ==
  \A p \in Procs : p \in readers => /\ todo[p] \subseteq clients
                                    /\ todo[p] \intersect closed = {}

\* OnlineUsers names no client that has unregistered, except while the
\* manager is between deleting the client and deleting the entry.
NoGhostOnline ==
  \A u \in Users :
    onlineUsers[u] # None =>
      \/ onlineUsers[u] \in clients
      \/ pc["manager"] = "dropOnline" /\ Username[cur] = u

\* Between two events, a user who has opened one connection is online
\* exactly while that connection is registered.
SingleTabPresence ==
  pc["manager"] = "select" =>
    \A c \in Clients :
      (\A d \in Clients : Username[d] = Username[c] /\ d # c
                            => life[d] = "idle")
      => (onlineUsers[Username[c]] # None <=> c \in clients)

\* What a browser was sent and will be sent of the chat, and of file events.
Stream(c) == received[c] \o send[c]
FileStream(c) == receivedFiles[c] \o sendFileEvent[c]

\* a comes before b in s.
Before(s, a, b) ==
  \E i, j \in 1..Len(s) : i < j /\ s[i] = a /\ s[j] = b

\* Any two browsers see chat messages and edits in one order, and none of
\* them twice, whatever each has missed because its queue was full.
AgreedOrder ==
  \A c, d \in Clients, a, b \in Items :
    Before(Stream(c), a, b) => ~Before(Stream(d), b, a)

\* Items of one kind reach every browser in the order they were queued.
PostedOrder ==
  \A c \in Clients, a, b \in Items :
    /\ Before(Stream(c), a, b) \/ Before(FileStream(c), a, b)
    /\ posted[a] = posted[b]
    => a < b

\* How far in the log the members have been served.
Told ==
  [c \in Clients |->
     IF c \notin clients THEN 0
     ELSE IF pc["manager"] = "fanMessage" /\ c \in todo["manager"]
          THEN Len(log) - 1 ELSE Len(log)]

\* The hub is an ordered broadcast room: ChatRoom, with Clients as its
\* members, Client.Send as what each is still to hear and the socket as its
\* line.  A message is missed only because Client.Send was full, or because
\* the socket was down when WritePump came to it.
Room == INSTANCE ChatRoom WITH
  Stored <- 0, Cap <- SendCap, members <- clients, told <- Told,
  queue <- send, heard <- received, line <- conn

RoomSpec == Room!Spec

\* The manager always gets back to its select.
ManagerServes == []<>(pc["manager"] = "select" \/ panicked # "no")

\* A connection whose socket is down is unregistered and both its pumps end.
LostConnectionsReaped ==
  \A c \in Clients :
    (life[c] = "reading" /\ conn[c] = "down") ~>
      \/ life[c] = "gone" /\ writer[c] = "done" /\ c \notin clients
      \/ panicked # "no"

\* When connections stop coming and going, every open browser ends up
\* showing the users that OnlineUsers holds.
PresenceConverges ==
  <>[](\/ panicked # "no"
       \/ \A c \in clients : conn[c] = "up" => shown[c] = Online(onlineUsers))

\* A user with a registered connection is missing from OnlineUsers, between
\* two events, only because another connection of the same user has left.
OfflineByOtherTab ==
  pc["manager"] = "select" =>
    \A c \in clients : onlineUsers[Username[c]] = None =>
      \E d \in Clients : /\ d # c /\ Username[d] = Username[c]
                         /\ life[d] \in {"closing", "gone"}

\* What the program's texts say of it, and the code does not keep.

\* README: history is sent to every client that connects; no goroutine
\* may bring the process down while it does so.
HistoryNeverPanics == panicked # "history"
=============================================================================
