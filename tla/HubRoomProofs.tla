--------------------------- MODULE HubRoomProofs ---------------------------
(***************************************************************************)
(* The hub implements the ordered broadcast of module ChatRoom, for any    *)
(* number of connections and any capacities, and so browsers agree on the  *)
(* order of messages and edits; and the items of one kind reach every      *)
(* browser in the order in which they were posted.                         *)
(***************************************************************************)
EXTENDS HubProofs

\* The room again, with its theorems.
RoomP == INSTANCE ChatRoomProofs WITH
  Stored <- 0, Cap <- SendCap, members <- clients, told <- Told,
  queue <- send, heard <- received, line <- conn

-----------------------------------------------------------------------------
(* What the refinement needs to know of the hub.                           *)

\* The client at hand is joining from its Register to its history, leaving
\* from its Unregister on.
JoiningFits ==
  /\ pc["manager"] \in {"addClient", "addOnline"} => joining
  /\ pc["manager"] \in {"dropClient", "dropOnline"} => ~joining
  /\ pc["manager"] = "fanOnline" /\ joining => cur \in clients

\* A history is sent to a client that is, or was, registered.
ReplayFits ==
  \A c \in Clients : replay[c] > 0 => c \in clients \/ c \in closed

\* The item being fanned out is the newest of the log.
ItemAtHand ==
  pc["manager"] = "fanMessage" => Len(log) > 0 /\ item = log[Len(log)]

\* No number occurs twice in s ...
Distinct(s) == \A i, j \in 1..Len(s) : s[i] = s[j] => i = j

\* ... nor in both s and t.
Apart(s, t) == \A i \in 1..Len(s), j \in 1..Len(t) : s[i] # t[j]

\* s is as long as something already posted.
Below(s, n) == \A i \in 1..Len(s) : s[i] <= n

\* An item is queued or logged at most once.
ItemsFresh ==
  /\ Distinct(broadcast) /\ Distinct(editMessage) /\ Distinct(log)
  /\ Apart(broadcast, editMessage) /\ Apart(broadcast, log)
  /\ Apart(editMessage, log)
  /\ Below(broadcast, Len(posted)) /\ Below(editMessage, Len(posted))
  /\ Below(log, Len(posted))

AtHandInv == JoiningFits /\ ReplayFits /\ ItemAtHand

-----------------------------------------------------------------------------
(* Fresh items stay fresh.                                                 *)

\* A queue takes a number larger than all before.
LEMMA PostFresh ==
  ASSUME NEW q \in Seq(Nat), NEW r \in Seq(Nat), NEW l \in Seq(Nat),
         NEW n \in Nat, Distinct(q), Apart(q, r), Apart(q, l),
         Below(q, n), Below(r, n), Below(l, n)
  PROVE  /\ Distinct(Append(q, n + 1)) /\ Apart(Append(q, n + 1), r)
         /\ Apart(Append(q, n + 1), l) /\ Below(Append(q, n + 1), n + 1)
         /\ Apart(r, Append(q, n + 1))
         /\ Below(r, n + 1) /\ Below(l, n + 1)
<1>1. /\ Append(q, n + 1) \in Seq(Nat)
      /\ Len(Append(q, n + 1)) = Len(q) + 1
      /\ \A i \in 1..Len(q) : Append(q, n + 1)[i] = q[i]
      /\ Append(q, n + 1)[Len(q) + 1] = n + 1
      /\ Len(q) \in Nat /\ Len(r) \in Nat /\ Len(l) \in Nat
      /\ \A i \in 1..Len(q) : q[i] \in Nat
      /\ \A i \in 1..Len(r) : r[i] \in Nat
      /\ \A i \in 1..Len(l) : l[i] \in Nat
  <2>1. n + 1 \in Nat
    OBVIOUS
  <2>2. /\ Append(q, n + 1) \in Seq(Nat)
        /\ Len(Append(q, n + 1)) = Len(q) + 1
        /\ Append(q, n + 1)[Len(q) + 1] = n + 1
    BY <2>1
  <2>3. \A i \in 1..Len(q) : Append(q, n + 1)[i] = q[i]
    BY <2>1
  <2>4. /\ Len(q) \in Nat /\ \A i \in 1..Len(q) : q[i] \in Nat
    OBVIOUS
  <2>5. /\ Len(r) \in Nat /\ \A i \in 1..Len(r) : r[i] \in Nat
    OBVIOUS
  <2>6. /\ Len(l) \in Nat /\ \A i \in 1..Len(l) : l[i] \in Nat
    OBVIOUS
  <2>7. QED
    BY <2>2, <2>3, <2>4, <2>5, <2>6
<1>2. \A i \in 1..Len(Append(q, n + 1)) : i \in 1..Len(q) \/ i = Len(q) + 1
  BY <1>1
<1>3. Distinct(Append(q, n + 1))
  BY <1>1, <1>2 DEF Distinct, Below
<1>4. Apart(Append(q, n + 1), r) /\ Apart(r, Append(q, n + 1))
  BY <1>1, <1>2 DEF Apart, Below
<1>5. Apart(Append(q, n + 1), l)
  BY <1>1, <1>2 DEF Apart, Below
<1>6. Below(Append(q, n + 1), n + 1) /\ Below(r, n + 1) /\ Below(l, n + 1)
  BY <1>1, <1>2 DEF Below
<1> QED
  BY <1>3, <1>4, <1>5, <1>6

\* The head of a queue moves to the log, or is dropped.
LEMMA TakeFresh ==
  ASSUME NEW q \in Seq(Nat), NEW r \in Seq(Nat), NEW l \in Seq(Nat),
         NEW n \in Nat, q # <<>>, Distinct(q), Distinct(l), Apart(q, r),
         Apart(q, l), Apart(r, l), Below(q, n), Below(l, n)
  PROVE  /\ Distinct(Tail(q)) /\ Apart(Tail(q), r) /\ Apart(r, Tail(q))
         /\ Apart(Tail(q), l) /\ Below(Tail(q), n)
         /\ Distinct(Append(l, Head(q))) /\ Apart(Tail(q), Append(l, Head(q)))
         /\ Apart(r, Append(l, Head(q))) /\ Below(Append(l, Head(q)), n)
         /\ \A i \in 1..Len(l) : l[i] # Head(q)
<1> DEFINE h == Head(q)  t == Tail(q)  k == Append(l, h)
<1>1. /\ h \in Nat /\ t \in Seq(Nat) /\ Len(t) = Len(q) - 1
      /\ \A i \in 1..Len(t) : i + 1 \in 1..Len(q) /\ t[i] = q[i + 1]
      /\ h = q[1] /\ 1 \in 1..Len(q)
  OBVIOUS
<1>2. /\ k \in Seq(Nat) /\ Len(k) = Len(l) + 1
      /\ \A i \in 1..Len(l) : k[i] = l[i]
      /\ k[Len(l) + 1] = h
  OBVIOUS
<1>3. Len(q) \in Nat /\ Len(r) \in Nat /\ Len(l) \in Nat /\ Len(t) \in Nat
  BY <1>1
<1> HIDE DEF h, t, k
<1>4. \A i \in 1..Len(k) : i \in 1..Len(l) \/ i = Len(l) + 1
  BY <1>2, <1>3
<1>s. \A i \in 1..Len(t) : i \in Nat /\ i + 1 # 1
  <2> SUFFICES ASSUME NEW i \in 1..Len(t) PROVE i \in Nat /\ i + 1 # 1
    OBVIOUS
  <2> QED
    BY <1>3
<1>5. Distinct(t) /\ Apart(t, r) /\ Apart(r, t) /\ Apart(t, l) /\ Below(t, n)
  <2>1. Distinct(t)
    <3> SUFFICES ASSUME NEW i \in 1..Len(t), NEW j \in 1..Len(t), t[i] = t[j]
                 PROVE  i = j
      BY DEF Distinct
    <3>1. q[i + 1] = q[j + 1] /\ i + 1 \in 1..Len(q) /\ j + 1 \in 1..Len(q)
      BY <1>1
    <3>2. i + 1 = j + 1
      BY <3>1 DEF Distinct
    <3>3. i \in Nat /\ j \in Nat
      BY <1>s
    <3> QED
      BY <3>2, <3>3
  <2>2. Apart(t, r)
    BY <1>1, Zenon DEF Apart
  <2>3. Apart(r, t)
    BY <2>2, Zenon DEF Apart
  <2>4. Apart(t, l)
    BY <1>1, Zenon DEF Apart
  <2>5. Below(t, n)
    BY <1>1 DEF Below
  <2> QED
    BY <2>1, <2>2, <2>3, <2>4, <2>5
<1>6. /\ \A i \in 1..Len(l) : l[i] # h
      /\ \A i \in 1..Len(r) : r[i] # h
      /\ \A i \in 1..Len(t) : t[i] # h
  <2>1. \A i \in 1..Len(t) : t[i] # h
    BY <1>1, <1>s DEF Distinct
  <2> QED
    BY <1>1, <2>1 DEF Apart
<1>7. Distinct(k)
  BY <1>2, <1>3, <1>4, <1>6 DEF Distinct
<1>8. Apart(t, k) /\ Apart(r, k)
  BY <1>2, <1>3, <1>4, <1>5, <1>6 DEF Apart
<1>9. Below(k, n)
  BY <1>1, <1>2, <1>4 DEF Below
<1> QED
  BY <1>5, <1>6, <1>7, <1>8, <1>9 DEF h, t, k

LEMMA FreshInit == Init => ItemsFresh
<1> SUFFICES ASSUME Init PROVE ItemsFresh
  OBVIOUS
<1>1. Len(broadcast) = 0 /\ Len(editMessage) = 0 /\ Len(log) = 0
  BY DEF Init
<1>2. \A i \in 1..0 : FALSE
  OBVIOUS
<1> QED
  BY <1>1, <1>2, Zenon DEF ItemsFresh, Distinct, Apart, Below

LEMMA FreshStep ==
  ASSUME ChannelTypeOK, ItemsFresh, [Next]_vars
  PROVE  ItemsFresh'
<1> USE DEF managerVars, queueVars, channelVars, peerVars
<1>t. /\ broadcast \in Seq(Nat) /\ editMessage \in Seq(Nat) /\ log \in Seq(Nat)
      /\ posted \in Seq(Kinds) /\ Len(posted) \in Nat
  BY CapacityAssumption DEF ChannelTypeOK, Items
<1>k. ASSUME UNCHANGED <<broadcast, editMessage, log>>,
             Len(posted') \in {Len(posted), Len(posted) + 1}
      PROVE  ItemsFresh'
  <2>1. /\ \A i \in 1..Len(broadcast) : broadcast[i] \in Nat
        /\ \A i \in 1..Len(editMessage) : editMessage[i] \in Nat
        /\ \A i \in 1..Len(log) : log[i] \in Nat
    BY <1>t
  <2>2. /\ Below(broadcast, Len(posted')) /\ Below(editMessage, Len(posted'))
        /\ Below(log, Len(posted'))
    BY <1>k, <1>t, <2>1 DEF ItemsFresh, Below
  <2> QED
    BY <1>k, <2>2 DEF ItemsFresh
<1>p. \A kind : Len(Append(posted, kind)) = Len(posted) + 1
  BY <1>t
<1>1. ASSUME NEW c \in Clients, ReadChat(c) PROVE ItemsFresh'
  <2>1. /\ broadcast' = Append(broadcast, Len(posted) + 1)
        /\ Len(posted') = Len(posted) + 1
        /\ UNCHANGED <<editMessage, log>>
    BY <1>1, <1>p DEF ReadChat
  <2>2. Apart(broadcast, editMessage) /\ Apart(broadcast, log)
    BY DEF ItemsFresh
  <2> QED
    BY <2>1, <2>2, <1>t, PostFresh DEF ItemsFresh
<1>2. ASSUME NEW c \in Clients, ReadEdit(c) PROVE ItemsFresh'
  <2>1. /\ editMessage' = Append(editMessage, Len(posted) + 1)
        /\ Len(posted') = Len(posted) + 1
        /\ UNCHANGED <<broadcast, log>>
    BY <1>2, <1>p DEF ReadEdit
  <2>2. Apart(editMessage, broadcast) /\ Apart(editMessage, log)
    BY DEF ItemsFresh, Apart
  <2> QED
    BY <2>1, <2>2, <1>t, PostFresh DEF ItemsFresh
<1>3. CASE ReceiveBroadcast
  <2>1. /\ broadcast' = Tail(broadcast) /\ log' = Append(log, Head(broadcast))
        /\ broadcast # <<>>
        /\ UNCHANGED <<editMessage, posted>>
    BY <1>3 DEF ReceiveBroadcast, FanOutItem
  <2> QED
    BY <2>1, <1>t, TakeFresh DEF ItemsFresh
<1>4. CASE ReceiveEdit
  <2>1. /\ editMessage' = Tail(editMessage) /\ editMessage # <<>>
        /\ log' = Append(log, Head(editMessage)) \/ log' = log
        /\ UNCHANGED <<broadcast, posted>>
    BY <1>4 DEF ReceiveEdit, FanOutItem
  <2>2. Apart(editMessage, broadcast)
    BY DEF ItemsFresh, Apart
  <2> QED
    BY <2>1, <2>2, <1>t, TakeFresh DEF ItemsFresh
<1>5. CASE PostFileEvent
  BY <1>5, <1>p, <1>k DEF PostFileEvent
<1>6. ASSUME NEW c \in Clients, DebugSendTestEvent(c) PROVE ItemsFresh'
  BY <1>6, <1>p, <1>k DEF DebugSendTestEvent
<1>7. CASE ReceiveFileEvent
  BY <1>7, <1>k DEF ReceiveFileEvent, FanOutItem
<1>8. ASSUME NEW c \in Clients,
             \/ Connect(c) \/ StartPumps(c) \/ PeerLost(c) \/ ReadFails(c)
             \/ CloseConn(c) \/ WritePump(c) \/ ReplayMessage(c)
      PROVE  ItemsFresh'
  BY <1>8, <1>k DEF Connect, StartPumps, PeerLost, ReadFails, CloseConn,
       WritePump, WriteMessage, WriteFileEvent, WriteOnline, WriterStops,
       ReplayMessage
<1>9. CASE AddClient \/ AddOnline \/ DropClient \/ DropOnline \/ FannedOut
  BY <1>9, <1>k DEF AddClient, AddOnline, DropClient, DropOnline, FannedOut
<1>10. ASSUME NEW c \in Clients,
              \/ ReceiveRegister(c) \/ ReceiveUnregister(c) \/ FanMessage(c)
              \/ FanFile(c)
       PROVE  ItemsFresh'
  BY <1>10, <1>k DEF ReceiveRegister, ReceiveUnregister, FanMessage, FanFile
<1>11. ASSUME NEW p \in Procs, BroadcastOnline(p) PROVE ItemsFresh'
  BY <1>11, <1>k DEF BroadcastOnline, OnlineFannedOut, FanOnline
<1>12. CASE Tick \/ LockClients
  BY <1>12, <1>k DEF Tick, LockClients
<1>13. CASE UNCHANGED vars
  BY <1>13, <1>k DEF vars
<1> QED
  BY <1>1, <1>2, <1>3, <1>4, <1>5, <1>6, <1>7, <1>8, <1>9, <1>10, <1>11,
     <1>12, <1>13
  DEF Next, Goroutines, Environment, Manager, Ticker, Procs, Halted

-----------------------------------------------------------------------------
LEMMA AtHandInit == Init => AtHandInv
<1> SUFFICES ASSUME Init PROVE AtHandInv
  OBVIOUS
<1>1. pc["manager"] = "select" /\ \A c \in Clients : replay[c] = 0
  BY DEF Init, Procs
<1> QED
  BY <1>1 DEF AtHandInv, JoiningFits, ReplayFits, ItemAtHand

LEMMA AtHandStep ==
  ASSUME LockInv, ChannelTypeOK, AtHandInv, [Next]_vars
  PROVE  AtHandInv'
<1> USE DEF managerVars, queueVars, channelVars, peerVars
<1>t. /\ pc \in [Procs -> {"select", "addClient", "addOnline", "dropClient",
                          "dropOnline", "fanOnline", "fanMessage", "fanFile",
                          "wait", "lockClients"}]
      /\ replay \in [Clients -> 0..HistoryLen]
      /\ log \in Seq(Items)
      /\ "manager" \in Procs /\ "ticker" \in Procs
  BY DEF LockInv, ControlTypeOK, ChannelTypeOK, Procs
<1>j. /\ pc["manager"] \in {"addClient", "addOnline"} => joining
      /\ pc["manager"] \in {"dropClient", "dropOnline"} => ~joining
      /\ pc["manager"] = "fanOnline" /\ joining => cur \in clients
      /\ pc["manager"] = "fanMessage" => Len(log) > 0 /\ item = log[Len(log)]
      /\ \A c \in Clients : replay[c] > 0 => c \in clients \/ c \in closed
      /\ pc["manager"] = "addOnline" => cur \in clients
  BY DEF AtHandInv, JoiningFits, ItemAtHand, ReplayFits, LockInv, AddingFits
<1> USE DEF AtHandInv, JoiningFits, ItemAtHand, ReplayFits
<1>k. ASSUME UNCHANGED <<clients, closed, pc, cur, joining, item, log>>,
             \A c \in Clients : replay'[c] > 0 => replay[c] > 0
      PROVE  AtHandInv'
  BY <1>k
<1>1. ASSUME NEW c \in Clients,
             \/ Connect(c) \/ StartPumps(c) \/ PeerLost(c) \/ ReadFails(c)
             \/ CloseConn(c) \/ WritePump(c) \/ ReadChat(c) \/ ReadEdit(c)
             \/ DebugSendTestEvent(c)
      PROVE  AtHandInv'
  BY <1>1, <1>k DEF Connect, StartPumps, PeerLost, ReadFails, CloseConn,
       WritePump, WriteMessage, WriteFileEvent, WriteOnline, WriterStops,
       ReadChat, ReadEdit, DebugSendTestEvent
<1>2. CASE PostFileEvent
  BY <1>2, <1>k DEF PostFileEvent
<1>3. ASSUME NEW c \in Clients, ReplayMessage(c) PROVE AtHandInv'
  <2>1. \A d \in Clients : replay'[d] > 0 => replay[d] > 0
    BY <1>3, <1>t DEF ReplayMessage
  <2> QED
    BY <1>3, <2>1, <1>k DEF ReplayMessage
<1>4. ASSUME NEW c \in Clients, FanMessage(c) \/ FanFile(c) PROVE AtHandInv'
  BY <1>4, <1>k DEF FanMessage, FanFile
<1>5. ASSUME NEW p \in Procs, NEW c \in Clients, FanOnline(p, c)
      PROVE  AtHandInv'
  BY <1>5, <1>k DEF FanOnline
<1>6. CASE Tick \/ LockClients
  <2>1. pc'["manager"] = pc["manager"]
    BY <1>6, <1>t DEF Tick, LockClients, Goto
  <2> QED
    BY <1>6, <2>1, <1>j DEF Tick, LockClients
<1>7. ASSUME NEW c \in Clients, ReceiveRegister(c) \/ ReceiveUnregister(c)
      PROVE  AtHandInv'
  BY <1>7, <1>t, <1>j DEF ReceiveRegister, ReceiveUnregister, Goto
<1>8. CASE AddClient
  BY <1>8, <1>t, <1>j DEF AddClient, Goto
<1>9. CASE AddOnline
  BY <1>9, <1>t, <1>j DEF AddOnline, FanOutOnline, Goto
<1>10. CASE DropClient
  BY <1>10, <1>t, <1>j DEF DropClient, Goto
<1>11. CASE DropOnline
  BY <1>11, <1>t, <1>j DEF DropOnline, FanOutOnline, Goto
<1>12. CASE FannedOut
  BY <1>12, <1>t, <1>j DEF FannedOut, Goto
<1>l. ASSUME NEW n \in Items
      PROVE  Len(Append(log, n)) > 0 /\ Append(log, n)[Len(Append(log, n))] = n
  BY <1>t
<1>13. CASE ReceiveBroadcast
  <2>1. Head(broadcast) \in Items
    BY <1>13, TakeType DEF ReceiveBroadcast, ChannelTypeOK
  <2>2. /\ log' = Append(log, Head(broadcast)) /\ item' = Head(broadcast)
        /\ pc'["manager"] = "fanMessage"
        /\ UNCHANGED <<clients, closed, replay, cur, joining>>
    BY <1>13, <1>t DEF ReceiveBroadcast, FanOutItem, Goto
  <2> QED
    BY <2>1, <2>2, <1>l, <1>j
<1>14. CASE ReceiveEdit
  <2>1. Head(editMessage) \in Items
    BY <1>14, TakeType DEF ReceiveEdit, ChannelTypeOK
  <2>2. /\ \/ /\ log' = Append(log, Head(editMessage))
              /\ item' = Head(editMessage) /\ pc'["manager"] = "fanMessage"
           \/ UNCHANGED <<item, log, pc>>
        /\ UNCHANGED <<clients, closed, replay, cur, joining>>
    BY <1>14, <1>t DEF ReceiveEdit, FanOutItem, Goto
  <2> QED
    BY <2>1, <2>2, <1>l, <1>j
<1>15. CASE ReceiveFileEvent
  BY <1>15, <1>t, <1>j DEF ReceiveFileEvent, FanOutItem, Goto
<1>16. ASSUME NEW p \in Procs, OnlineFannedOut(p) PROVE AtHandInv'
  <2>1. CASE p = "manager"
    <3>1. /\ pc["manager"] = "fanOnline" /\ pc'["manager"] = "select"
          /\ UNCHANGED <<clients, closed, log, item>>
      BY <1>16, <2>1, <1>t DEF OnlineFannedOut, Goto
    <3>2. \A c \in Clients : replay'[c] > 0 =>
            replay[c] > 0 \/ (joining /\ c = cur)
      BY <1>16, <2>1, <1>t DEF OnlineFannedOut
    <3> QED
      BY <3>1, <3>2, <1>j
  <2>2. CASE p = "ticker"
    <3>1. /\ pc'["manager"] = pc["manager"]
          /\ UNCHANGED <<clients, closed, log, item, cur, joining, replay>>
      BY <1>16, <2>2, <1>t DEF OnlineFannedOut, Goto
    <3> QED
      BY <3>1, <1>j
  <2> QED
    BY <2>1, <2>2 DEF Procs
<1>17. CASE UNCHANGED vars
  BY <1>17, <1>k DEF vars
<1> QED
  BY <1>1, <1>2, <1>3, <1>4, <1>5, <1>6, <1>7, <1>8, <1>9, <1>10, <1>11,
     <1>12, <1>13, <1>14, <1>15, <1>16, <1>17
  DEF Next, Goroutines, Environment, Manager, Ticker, BroadcastOnline, Procs,
      Halted

-----------------------------------------------------------------------------
(* Every step of the hub is a step of the room or leaves the room alone.   *)

RoomKept == UNCHANGED <<log, clients, send, received, conn>> /\ UNCHANGED Told

LEMMA RoomInitial == Init => Room!Init
<1> SUFFICES ASSUME Init PROVE Room!Init
  OBVIOUS
<1>1. Told = [c \in Clients |-> 0]
  BY DEF Init, Told
<1> QED
  BY <1>1 DEF Init, Room!Init

LEMMA KeptIsStutter == RoomKept => [Room!Next]_Room!vars
BY DEF RoomKept, Room!vars

LEMMA RoomSimulates ==
  ASSUME LockInv, ChannelTypeOK, ItemsFresh, AtHandInv, [Next]_vars
  PROVE  [Room!Next]_Room!vars
<1> USE DEF managerVars, queueVars, channelVars, peerVars
<1>t. /\ pc \in [Procs -> {"select", "addClient", "addOnline", "dropClient",
                          "dropOnline", "fanOnline", "fanMessage", "fanFile",
                          "wait", "lockClients"}]
      /\ todo \in [Procs -> SUBSET Clients]
      /\ clients \subseteq Clients
      /\ log \in Seq(Items) /\ Len(log) \in Nat
      /\ send \in [Clients -> Seq(0..MaxItems)]
      /\ "manager" \in Procs /\ "ticker" \in Procs
  BY DEF LockInv, ControlTypeOK, ChannelTypeOK, Procs
\* Told only looks at the manager's fan-out of a message.
<1>k. ASSUME UNCHANGED <<log, clients>>,
             \/ pc["manager"] # "fanMessage" /\ pc'["manager"] # "fanMessage"
             \/ pc'["manager"] = pc["manager"] /\ todo'["manager"] = todo["manager"]
      PROVE  UNCHANGED Told
  BY <1>k DEF Told
<1>m. \A c \in Clients, p \in Procs :
        todo["manager"] # {} \/ pc["manager"] # "fanMessage"
        \/ Told = [d \in Clients |-> IF d \in clients THEN Len(log) ELSE 0]
  BY DEF Told
<1>s. ASSUME RoomKept PROVE [Room!Next]_Room!vars
  BY <1>s, KeptIsStutter
<1>1. ASSUME NEW c \in Clients,
             \/ StartPumps(c) \/ ReadFails(c) \/ WriteFileEvent(c)
             \/ WriteOnline(c) \/ ReadChat(c) \/ ReadEdit(c)
             \/ DebugSendTestEvent(c)
      PROVE  RoomKept
  BY <1>1, <1>k DEF StartPumps, ReadFails, WriteFileEvent, WriteOnline,
       ReadChat, ReadEdit, DebugSendTestEvent, RoomKept
\* The socket comes up before the client is registered.
<1>c. ASSUME NEW c \in Clients, Connect(c) PROVE Room!Dial(c)
  <2>1. c \notin clients
    BY <1>c DEF Connect, LockInv, NotYetIn
  <2>2. UNCHANGED Told
    BY <1>c, <1>k DEF Connect
  <2> QED
    BY <1>c, <2>1, <2>2 DEF Connect, Room!Dial
<1>d. ASSUME NEW c \in Clients, PeerLost(c) \/ CloseConn(c) \/ WriterStops(c)
      PROVE  Room!HangUp(c)
  <2>1. UNCHANGED Told
    BY <1>d, <1>k DEF PeerLost, CloseConn, WriterStops
  <2> QED
    BY <1>d, <2>1 DEF PeerLost, CloseConn, WriterStops, Room!HangUp
<1>2. CASE PostFileEvent
  BY <1>2, <1>k, <1>s DEF PostFileEvent, RoomKept
<1>3. ASSUME NEW c \in Clients, ReceiveRegister(c) \/ ReceiveUnregister(c)
      PROVE  RoomKept
  BY <1>3, <1>t, <1>k DEF ReceiveRegister, ReceiveUnregister, Goto, RoomKept
<1>4. CASE AddOnline \/ DropOnline
  <2>1. UNCHANGED Told
    BY <1>4, <1>t, <1>k DEF AddOnline, DropOnline, FanOutOnline, Goto
  <2> QED
    BY <1>4, <2>1, <1>s DEF AddOnline, DropOnline, RoomKept
<1>5. CASE FannedOut
  <2>1. UNCHANGED Told
    BY <1>5, <1>t DEF FannedOut, Goto, Told
  <2> QED
    BY <1>5, <2>1, <1>s DEF FannedOut, RoomKept
<1>6. CASE Tick \/ LockClients
  <2>1. pc'["manager"] = pc["manager"] /\ todo'["manager"] = todo["manager"]
    BY <1>6, <1>t DEF Tick, LockClients, Goto
  <2> QED
    BY <1>6, <2>1, <1>k, <1>s DEF Tick, LockClients, RoomKept
<1>7. CASE ReceiveFileEvent
  <2>1. UNCHANGED Told
    BY <1>7, <1>t, <1>k DEF ReceiveFileEvent, FanOutItem, Goto
  <2> QED
    BY <1>7, <2>1, <1>s DEF ReceiveFileEvent, FanOutItem, RoomKept
<1>8. ASSUME NEW c \in Clients, FanFile(c) PROVE RoomKept
  BY <1>8, <1>t, <1>k DEF FanFile, RoomKept
<1>9. ASSUME NEW p \in Procs, NEW c \in Clients, FanOnline(p, c) PROVE RoomKept
  <2>1. \/ p = "manager" /\ pc["manager"] = "fanOnline"
        \/ todo'["manager"] = todo["manager"]
    BY <1>9, <1>t DEF FanOnline
  <2> QED
    BY <1>9, <2>1, <1>k DEF FanOnline, RoomKept
<1>10. ASSUME NEW p \in Procs, OnlineFannedOut(p) PROVE RoomKept
  <2>1. \/ pc["manager"] = "fanOnline" /\ pc'["manager"] = "select"
        \/ pc'["manager"] = pc["manager"]
    BY <1>10, <1>t DEF OnlineFannedOut, Goto, Procs
  <2>2. UNCHANGED <<log, clients, todo, send, received, conn>>
    BY <1>10 DEF OnlineFannedOut
  <2> QED
    BY <2>1, <2>2, <1>k DEF RoomKept
\* Register and Unregister: the client joins or leaves.
<1>11. CASE AddClient
  <2>1. /\ pc["manager"] = "addClient" /\ pc'["manager"] = "addOnline"
        /\ clients' = clients \union {cur} /\ cur \in Clients
        /\ UNCHANGED <<log, send, received, conn>>
    BY <1>11, <1>t DEF AddClient, Goto, LockInv, AddingFits
  <2>2. CASE cur \in clients
    <3>1. UNCHANGED Told
      BY <2>1, <2>2, <1>k
    <3> QED
      BY <2>1, <2>2, <3>1, <1>s DEF RoomKept
  <2>3. CASE cur \notin clients
    <3>1. Told' = [Told EXCEPT ![cur] = Len(log)]
      BY <2>1, <2>3 DEF Told
    <3>2. Room!Join(cur)
      BY <2>1, <2>3, <3>1 DEF Room!Join
    <3> QED
      BY <2>1, <3>2 DEF Room!Next
  <2> QED
    BY <2>2, <2>3
<1>12. CASE DropClient
  <2>1. /\ pc["manager"] = "dropClient" /\ pc'["manager"] = "dropOnline"
        /\ clients' = clients \ {cur} /\ cur \in Clients
        /\ UNCHANGED <<log, send, received, conn>>
    BY <1>12, <1>t DEF DropClient, Goto, LockInv, DroppingFits
  <2>2. CASE cur \notin clients
    <3>1. clients' = clients
      BY <2>1, <2>2
    <3>2. UNCHANGED Told
      BY <2>1, <3>1, <1>k
    <3> QED
      BY <2>1, <3>1, <3>2, <1>s DEF RoomKept
  <2>3. CASE cur \in clients
    <3>1. Told' = [Told EXCEPT ![cur] = 0]
      BY <2>1, <2>3 DEF Told
    <3>2. Room!Leave(cur)
      BY <2>1, <2>3, <3>1 DEF Room!Leave
    <3> QED
      BY <2>1, <3>2 DEF Room!Next
  <2> QED
    BY <2>2, <2>3
\* A message or an edit that is taken to be fanned out is said.
<1>13. ASSUME NEW n \in Items, pc["manager"] = "select",
              FanOutItem(n, "fanMessage"),
              UNCHANGED <<clients, send, received, conn>>,
              \A i \in 1..Len(log) : log[i] # n
       PROVE  Room!Say(n)
  <2>1. /\ log' = Append(log, n) /\ Len(log') = Len(log) + 1
        /\ pc'["manager"] = "fanMessage" /\ todo'["manager"] = clients
    BY <1>13, <1>t DEF FanOutItem, Goto
  <2>2. Told' = Told
    BY <1>13, <2>1, <1>t DEF Told
  <2>3. \A c \in clients : Told[c] = Len(log)
    BY <1>13, <1>t DEF Told
  <2> QED
    BY <1>13, <2>1, <2>2, <2>3 DEF Room!Say
<1>f. ASSUME NEW q \in Seq(Items), q # <<>>, Apart(q, log)
      PROVE  Head(q) \in Items /\ \A i \in 1..Len(log) : log[i] # Head(q)
  <2>1. Head(q) = q[1] /\ 1 \in 1..Len(q) /\ q[1] \in Items
    BY <1>f
  <2> QED
    BY <1>f, <2>1, Zenon DEF Apart
<1>14. CASE ReceiveBroadcast
  <2>1. broadcast \in Seq(Items) /\ broadcast # <<>> /\ Apart(broadcast, log)
    BY <1>14 DEF ReceiveBroadcast, ItemsFresh, ChannelTypeOK
  <2>2. Room!Say(Head(broadcast)) /\ Head(broadcast) \in Items
    BY <1>14, <1>13, <1>f, <2>1 DEF ReceiveBroadcast
  <2> QED
    BY <2>2 DEF Room!Next
<1>15. CASE ReceiveEdit
  <2>1. /\ editMessage \in Seq(Items) /\ editMessage # <<>>
        /\ Apart(editMessage, log)
    BY <1>15 DEF ReceiveEdit, ItemsFresh, ChannelTypeOK
  <2>2. CASE FanOutItem(Head(editMessage), "fanMessage")
    <3>1. /\ Room!Say(Head(editMessage)) /\ Head(editMessage) \in Items
      BY <1>15, <1>13, <1>f, <2>1, <2>2 DEF ReceiveEdit
    <3> QED
      BY <3>1 DEF Room!Next
  <2>3. CASE UNCHANGED <<item, log, pc, readers, todo>>
    BY <1>15, <2>3, <1>k, <1>s DEF ReceiveEdit, RoomKept
  <2> QED
    BY <1>15, <2>2, <2>3 DEF ReceiveEdit
\* One client of the range is served, or its channel is full.
<1>16. ASSUME NEW c \in Clients, FanMessage(c) PROVE Room!Tell(c)
  <2>1. /\ pc["manager"] = "fanMessage" /\ c \in todo["manager"]
        /\ todo' = [todo EXCEPT !["manager"] = @ \ {c}]
        /\ UNCHANGED <<clients, log, received, pc, conn>>
    BY <1>16 DEF FanMessage
  <2>2. c \in clients /\ c \notin closed
    BY <2>1, <1>t
    DEF LockInv, RangeHoldsLock, LockOnlyInRange, Fanning, RegisteredOpen
  <2>3. item = log[Len(log)] /\ Len(log) > 0
    BY <2>1 DEF AtHandInv, ItemAtHand
  <2>4. send' = Room!Offered(c, item)
    BY <1>16, <2>2 DEF FanMessage, TrySend, Room!Offered
  <2>5. Told' = [Told EXCEPT ![c] = Len(log)]
    BY <2>1, <2>2, <1>t DEF Told
  <2>6. Told[c] < Len(log)
    BY <2>1, <2>2, <1>t DEF Told
  <2> QED
    BY <2>1, <2>2, <2>3, <2>4, <2>5, <2>6 DEF Room!Tell
<1>17. ASSUME NEW c \in Clients, ReplayMessage(c)
       PROVE  RoomKept \/ Room!Replay(c)
  <2>1. UNCHANGED <<clients, log, received, pc, todo, conn>>
    BY <1>17 DEF ReplayMessage
  <2>2. UNCHANGED Told
    BY <2>1, <1>k
  <2>3. CASE send' = send
    BY <2>1, <2>2, <2>3 DEF RoomKept
  <2>4. CASE send' # send
    <3>1. c \notin closed /\ send' = Room!Offered(c, 0)
      BY <1>17, <2>4 DEF ReplayMessage, TrySend, Room!Offered
    <3>2. c \in clients
      BY <1>17, <3>1 DEF ReplayMessage, AtHandInv, ReplayFits
    <3> QED
      BY <2>1, <2>2, <3>1, <3>2 DEF Room!Replay
  <2> QED
    BY <2>3, <2>4
<1>18. ASSUME NEW c \in Clients, WriteMessage(c)
       PROVE  Room!Hear(c) \/ Room!Lose(c)
  <2>1. UNCHANGED <<clients, log, pc, todo, conn>>
    BY <1>18 DEF WriteMessage
  <2>2. UNCHANGED Told
    BY <2>1, <1>k
  <2>3. conn[c] \in {"up", "down"}
    BY DEF LockInv, ControlTypeOK
  <2> QED
    BY <1>18, <2>1, <2>2, <2>3 DEF WriteMessage, Room!Hear, Room!Lose
<1>19. CASE UNCHANGED vars
  BY <1>19, <1>k, <1>s DEF vars, RoomKept
<1>20. ASSUME NEW c \in Clients,
              \/ Room!Dial(c) \/ Room!HangUp(c) \/ Room!Tell(c)
              \/ Room!Replay(c) \/ Room!Hear(c) \/ Room!Lose(c)
       PROVE  Room!Next
  BY <1>20 DEF Room!Next, Room!Serve
<1> QED
  BY <1>1, <1>2, <1>3, <1>4, <1>5, <1>6, <1>7, <1>8, <1>9, <1>10, <1>11,
     <1>12, <1>14, <1>15, <1>16, <1>17, <1>18, <1>19, <1>20, <1>c, <1>d, <1>s
  DEF Next, Goroutines, Environment, Manager, Ticker, BroadcastOnline,
      WritePump, Procs, Halted

-----------------------------------------------------------------------------
\* The hub keeps the order of one log: what it does to messages and edits is
\* what an ordered broadcast room does (Run, broadcastToLocalClients,
\* sendMessageHistory, WritePump).
THEOREM HubRefinesRoom == Spec => RoomSpec
<1> DEFINE Inv == LockInv /\ ChannelTypeOK /\ ItemsFresh /\ AtHandInv
<1>1. Init => Inv /\ Room!Init
  BY LockInvInit, ChannelInit, FreshInit, AtHandInit, RoomInitial
<1>2. Inv /\ [Next]_vars => Inv'
  BY LockInvStep, ChannelStep, FreshStep, AtHandStep DEF LockInv
<1>3. Inv /\ [Next]_vars => [Room!Next]_Room!vars
  BY RoomSimulates
<1> QED
  BY <1>1, <1>2, <1>3, PTL DEF Spec, RoomSpec, Room!Spec

\* The room that the hub implements is the one with the theorems.
LEMMA RoomAsProved == RoomSpec <=> RoomP!Spec
  BY DEF RoomSpec, Room!Spec, RoomP!Spec, Room!Init, RoomP!Init, Room!Next,
    RoomP!Next, Room!vars, RoomP!vars, Room!Say, RoomP!Say, Room!Join,
    RoomP!Join, Room!Leave, RoomP!Leave, Room!Serve, RoomP!Serve, Room!Tell,
    RoomP!Tell, Room!Replay, RoomP!Replay, Room!Hear, RoomP!Hear, Room!Lose,
    RoomP!Lose, Room!Offered, RoomP!Offered, Room!Dial, RoomP!Dial,
    Room!HangUp, RoomP!HangUp

\* Any two browsers see chat messages and edits in one order, and none twice:
\* it holds of the room, and the hub implements the room.
THEOREM HubAgrees == Spec => []AgreedOrder
<1>2. RoomP!StoredIsNoItem
  BY CapacityAssumption DEF Items, RoomP!StoredIsNoItem
<1>3. RoomP!Spec => []RoomP!AgreedOrder
  BY <1>2, RoomP!RoomAgrees
<1>4. RoomP!AgreedOrder => AgreedOrder
  BY DEF RoomP!AgreedOrder, AgreedOrder, RoomP!Before, Before, RoomP!Stream,
    Stream
<1> QED
  BY HubRefinesRoom, RoomAsProved, <1>3, <1>4, PTL

-----------------------------------------------------------------------------
(* The order of posting.  A number is the turn of an item in p, which is   *)
(* `posted`: a list keeps the order when of any two of one kind the one    *)
(* that was posted first comes first.                                      *)

\* s holds items of p ...
From(p, s) == \A i \in 1..Len(s) : s[i] \in 1..Len(p)

\* ... of these kinds ...
OfKinds(p, s, K) == \A i \in 1..Len(s) : p[s[i]] \in K

\* ... each kind in the order of its posting ...
Rising(p, s) ==
  \A i, j \in 1..Len(s) : i < j /\ p[s[i]] = p[s[j]] => s[i] < s[j]

\* ... and all of each kind before those of t.
Ahead(p, s, t) ==
  \A i \in 1..Len(s), j \in 1..Len(t) : p[s[i]] = p[t[j]] => s[i] < t[j]

Sound(p, s, K) == From(p, s) /\ OfKinds(p, s, K) /\ Rising(p, s)

\* Each queue of the manager holds one kind, what it has taken of a kind is
\* older than what waits.
QueuesRise ==
  /\ Sound(posted, broadcast, {"chat"}) /\ Sound(posted, editMessage, {"edit"})
  /\ Sound(posted, fileEvents, {"file"}) /\ Sound(posted, log, {"chat", "edit"})
  /\ Ahead(posted, log, broadcast) /\ Ahead(posted, log, editMessage)

\* What a browser gets of file events is older than what waits; and than the
\* event at hand, until it is served.
FilesRise ==
  \A c \in Clients : /\ Sound(posted, FileStream(c), {"file", "debug"})
                     /\ Ahead(posted, FileStream(c), fileEvents)

FileAtHand ==
  pc["manager"] = "fanFile" =>
    /\ Sound(posted, <<item>>, {"file"}) /\ Ahead(posted, <<item>>, fileEvents)
    /\ \A c \in todo["manager"] : Ahead(posted, FileStream(c), <<item>>)

OrderInv == QueuesRise /\ FilesRise /\ FileAtHand

-----------------------------------------------------------------------------
(* What keeps the order of a list.                                         *)

\* t is s with x after it.
Longer(s, t, x) ==
  /\ Len(t) = Len(s) + 1 /\ t[Len(s) + 1] = x
  /\ \A i \in 1..Len(s) : t[i] = s[i]

\* t is s without its element k.
Without(s, t, k) ==
  /\ Len(t) = Len(s) - 1 /\ k \in 1..Len(s)
  /\ \A i \in 1..Len(t) : t[i] = s[IF i < k THEN i ELSE i + 1]

LEMMA OneItem ==
  ASSUME NEW x
  PROVE  Len(<<x>>) = 1 /\ <<x>>[1] = x /\ \A i \in 1..Len(<<x>>) : i = 1
<1>1. Len(<<x>>) = 1 /\ <<x>>[1] = x
  OBVIOUS
<1>2. \A i \in 1..1 : i = 1
  OBVIOUS
<1> QED
  BY <1>1, <1>2

\* A number larger than all of its kind may come last.
LEMMA LongerSound ==
  ASSUME NEW p, NEW s, NEW t, NEW x, NEW K, Len(s) \in Nat, Len(p) \in Nat,
         Longer(s, t, x), Sound(p, s, K), Sound(p, <<x>>, K),
         Ahead(p, s, <<x>>)
  PROVE  Sound(p, t, K)
<1>1. \A i \in 1..Len(t) : i \in 1..Len(s) \/ i = Len(s) + 1
  BY DEF Longer
<1>2. x \in 1..Len(p) /\ p[x] \in K
  BY OneItem DEF Sound, From, OfKinds
<1>3. \A i \in 1..Len(s) : p[s[i]] = p[x] => s[i] < x
  BY OneItem DEF Ahead
<1>4. From(p, t) /\ OfKinds(p, t, K)
  BY <1>1, <1>2 DEF Longer, Sound, From, OfKinds
<1>5. Rising(p, t)
  <2> SUFFICES ASSUME NEW i \in 1..Len(t), NEW j \in 1..Len(t), i < j,
                      p[t[i]] = p[t[j]]
               PROVE  t[i] < t[j]
    BY DEF Rising
  <2>1. i \in 1..Len(s)
    BY DEF Longer
  <2>2. CASE j \in 1..Len(s)
    BY <2>1, <2>2 DEF Longer, Sound, Rising
  <2>3. CASE j = Len(s) + 1
    BY <1>3, <2>1, <2>3 DEF Longer
  <2> QED
    BY <1>1, <2>2, <2>3
<1> QED
  BY <1>4, <1>5 DEF Sound

\* What waits behind both s and x waits behind the two together.
LEMMA LongerAhead ==
  ASSUME NEW p, NEW s, NEW t, NEW x, NEW q, Len(s) \in Nat, Longer(s, t, x),
         Ahead(p, s, q), Ahead(p, <<x>>, q)
  PROVE  Ahead(p, t, q)
<1>1. \A i \in 1..Len(t) : i \in 1..Len(s) \/ i = Len(s) + 1
  BY DEF Longer
<1>2. \A j \in 1..Len(q) : p[x] = p[q[j]] => x < q[j]
  BY OneItem DEF Ahead
<1> QED
  BY <1>1, <1>2 DEF Longer, Ahead

\* What was ahead of a list and of x is ahead of the list with x after it.
LEMMA AheadOfLonger ==
  ASSUME NEW p, NEW s, NEW t, NEW x, NEW q, Len(s) \in Nat, Longer(s, t, x),
         Ahead(p, q, s), Ahead(p, q, <<x>>)
  PROVE  Ahead(p, q, t)
<1>1. \A i \in 1..Len(t) : i \in 1..Len(s) \/ i = Len(s) + 1
  BY DEF Longer
<1>2. \A j \in 1..Len(q) : p[q[j]] = p[x] => q[j] < x
  BY OneItem DEF Ahead
<1> QED
  BY <1>1, <1>2 DEF Longer, Ahead

\* Leaving one out keeps the order of the others.
LEMMA WithoutSound ==
  ASSUME NEW p, NEW s, NEW t, NEW k, NEW K, Len(s) \in Nat, Without(s, t, k),
         Sound(p, s, K)
  PROVE  /\ Sound(p, t, K)
         /\ \A q : Ahead(p, s, q) => Ahead(p, t, q)
         /\ \A q : Ahead(p, q, s) => Ahead(p, q, t)
<1> DEFINE at(i) == IF i < k THEN i ELSE i + 1
<1>1. \A i \in 1..Len(t) : at(i) \in 1..Len(s) /\ t[i] = s[at(i)]
  BY DEF Without
<1>2. \A i, j \in 1..Len(t) : i < j => at(i) < at(j)
  BY DEF Without
<1> HIDE DEF at
<1> QED
  BY <1>1, <1>2 DEF Sound, From, OfKinds, Rising, Ahead

\* Nothing of p changes when an item is posted, and the new one has a number
\* larger than all.
LEMMA PostKeeps ==
  ASSUME NEW p \in Seq(Kinds), NEW kind \in Kinds
  PROVE  /\ \A s, K : Sound(p, s, K) => Sound(Append(p, kind), s, K)
         /\ \A s, t : From(p, s) /\ From(p, t) /\ Ahead(p, s, t)
                        => Ahead(Append(p, kind), s, t)
         /\ \A s : From(p, s)
                     => Ahead(Append(p, kind), s, <<Len(p) + 1>>)
         /\ \A K : kind \in K => Sound(Append(p, kind), <<Len(p) + 1>>, K)
<1> DEFINE r == Append(p, kind)
<1>1. /\ Len(p) \in Nat /\ Len(r) = Len(p) + 1 /\ r[Len(p) + 1] = kind
      /\ \A n \in 1..Len(p) : r[n] = p[n]
  OBVIOUS
<1>2. \A n \in 1..Len(p) : n \in 1..Len(r) /\ n < Len(p) + 1
  BY <1>1
<1>3. Len(p) + 1 \in 1..Len(r)
  BY <1>1
<1> HIDE DEF r
<1>4. ASSUME NEW s, NEW K, Sound(p, s, K) PROVE Sound(r, s, K)
  BY <1>1, <1>2, <1>4 DEF Sound, From, OfKinds, Rising
<1>5. ASSUME NEW s, NEW t, From(p, s), From(p, t), Ahead(p, s, t)
      PROVE  Ahead(r, s, t)
  BY <1>1, <1>5 DEF From, Ahead
<1>6. ASSUME NEW s, From(p, s) PROVE Ahead(r, s, <<Len(p) + 1>>)
  BY <1>2, <1>6, OneItem DEF From, Ahead
<1>7. ASSUME NEW K, kind \in K PROVE Sound(r, <<Len(p) + 1>>, K)
  BY <1>1, <1>3, <1>7, OneItem DEF Sound, From, OfKinds, Rising
<1> QED
  BY <1>4, <1>5, <1>6, <1>7 DEF r

\* Different kinds are never compared.
LEMMA OtherKinds ==
  ASSUME NEW p, NEW s, NEW t, NEW K, NEW L, OfKinds(p, s, K), OfKinds(p, t, L),
         K \intersect L = {}
  PROVE  Ahead(p, s, t)
BY DEF OfKinds, Ahead

\* The queue of a channel: a send, a receive, and what a receive leaves.
LEMMA QueueSteps ==
  ASSUME NEW S, NEW q \in Seq(S), NEW x \in S
  PROVE  /\ Longer(q, Append(q, x), x) /\ Len(q) \in Nat
         /\ q # <<>> => /\ Without(q, Tail(q), 1) /\ Head(q) = q[1]
                        /\ 1 \in 1..Len(q) /\ Head(q) \in S
<1>1. Longer(q, Append(q, x), x) /\ Len(q) \in Nat
  BY DEF Longer
<1>2. ASSUME q # <<>> PROVE Without(q, Tail(q), 1)
  <2>1. /\ Len(Tail(q)) = Len(q) - 1 /\ 1 \in 1..Len(q)
        /\ \A i \in 1..Len(Tail(q)) : Tail(q)[i] = q[i + 1] /\ ~(i < 1)
    BY <1>2
  <2> QED
    BY <2>1 DEF Without
<1>3. q # <<>> => Head(q) = q[1] /\ 1 \in 1..Len(q) /\ Head(q) \in S
  OBVIOUS
<1> QED
  BY <1>1, <1>2, <1>3

\* The head of a queue is ahead of the rest, and behind what was ahead of all.
LEMMA HeadNext ==
  ASSUME NEW p, NEW S, NEW q \in Seq(S), q # <<>>, NEW K, Sound(p, q, K)
  PROVE  /\ Sound(p, <<Head(q)>>, K) /\ Ahead(p, <<Head(q)>>, Tail(q))
         /\ \A s : Ahead(p, s, q) => Ahead(p, s, <<Head(q)>>)
<1>1. /\ Head(q) = q[1] /\ 1 \in 1..Len(q) /\ Len(q) \in Nat
      /\ \A i \in 1..Len(Tail(q)) : /\ Tail(q)[i] = q[i + 1] /\ 1 < i + 1
                                    /\ i + 1 \in 1..Len(q)
  OBVIOUS
<1>2. Sound(p, <<Head(q)>>, K)
  BY <1>1, OneItem DEF Sound, From, OfKinds, Rising
<1>3. Ahead(p, <<Head(q)>>, Tail(q))
  BY <1>1, OneItem DEF Sound, Rising, Ahead
<1>4. \A s : Ahead(p, s, q) => Ahead(p, s, <<Head(q)>>)
  BY <1>1, OneItem DEF Ahead
<1> QED
  BY <1>2, <1>3, <1>4

-----------------------------------------------------------------------------
(* The queues and the log.                                                 *)

LEMMA QueuesInit == Init => QueuesRise
<1> SUFFICES ASSUME Init PROVE QueuesRise
  OBVIOUS
<1>1. /\ Len(broadcast) = 0 /\ Len(editMessage) = 0 /\ Len(fileEvents) = 0
      /\ Len(log) = 0
  BY DEF Init
<1>2. \A i \in 1..0 : FALSE
  OBVIOUS
<1> QED
  BY <1>1, <1>2, Zenon DEF QueuesRise, Sound, From, OfKinds, Rising, Ahead

LEMMA QueuesStep ==
  ASSUME ChannelTypeOK, QueuesRise, [Next]_vars
  PROVE  QueuesRise'
<1> USE DEF managerVars, queueVars, channelVars, peerVars
<1>t. /\ broadcast \in Seq(Items) /\ editMessage \in Seq(Items)
      /\ fileEvents \in Seq(Items) /\ log \in Seq(Items)
      /\ posted \in Seq(Kinds) /\ Len(posted) \in Nat /\ MaxItems \in Nat
  BY CapacityAssumption DEF ChannelTypeOK
<1> DEFINE n == Len(posted) + 1
\* A step that posts: what was queued is as before, the new item is last.
<1>g. ASSUME NEW kind \in Kinds, posted' = Append(posted, kind)
      PROVE  /\ Sound(posted', broadcast, {"chat"})
             /\ Sound(posted', editMessage, {"edit"})
             /\ Sound(posted', fileEvents, {"file"})
             /\ Sound(posted', log, {"chat", "edit"})
             /\ Ahead(posted', log, broadcast)
             /\ Ahead(posted', log, editMessage)
             /\ Sound(posted', <<n>>, {kind})
             /\ \A q \in {broadcast, editMessage, fileEvents, log} :
                  Ahead(posted', q, <<n>>)
             /\ Len(posted') = n /\ n \in Nat
  <2>1. \A q \in {broadcast, editMessage, fileEvents, log} : From(posted, q)
    BY DEF QueuesRise, Sound
  <2>2. Len(Append(posted, kind)) = n
    BY <1>t
  <2>3. kind \in {kind}
    OBVIOUS
  <2> QED
    BY <1>g, <1>t, <2>1, <2>2, <2>3, PostKeeps DEF QueuesRise
<1>k. ASSUME UNCHANGED <<broadcast, editMessage, fileEvents, log>>,
             \/ UNCHANGED posted
             \/ \E kind \in Kinds : posted' = Append(posted, kind)
      PROVE  QueuesRise'
  <2>1. CASE UNCHANGED posted
    BY <1>k, <2>1 DEF QueuesRise
  <2>2. ASSUME NEW kind \in Kinds, posted' = Append(posted, kind)
        PROVE  QueuesRise'
    BY <1>k, <1>g, <2>2 DEF QueuesRise
  <2> QED
    BY <1>k, <2>1, <2>2
<1>a. ASSUME NEW q \in Seq(Items)
      PROVE  Longer(q, Append(q, n), n) /\ Len(q) \in Nat
  <2>1. q \in Seq(Nat) /\ n \in Nat
    BY <1>t DEF Items
  <2> QED
    BY <2>1, QueueSteps
<1> HIDE DEF n
<1>1. ASSUME NEW c \in Clients, ReadChat(c) PROVE QueuesRise'
  <2>1. /\ posted' = Append(posted, "chat") /\ "chat" \in Kinds
        /\ broadcast' = Append(broadcast, Len(posted'))
        /\ UNCHANGED <<editMessage, fileEvents, log>>
    BY <1>1 DEF ReadChat, Kinds
  <2>2. Longer(broadcast, broadcast', n) /\ Len(broadcast) \in Nat
    BY <1>a, <1>g, <1>t, <2>1
  <2>3. Sound(posted', broadcast', {"chat"}) /\ Ahead(posted', log, broadcast')
    BY <1>g, <2>1, <2>2, LongerSound, AheadOfLonger
  <2> QED
    BY <1>g, <2>1, <2>3 DEF QueuesRise
<1>2. ASSUME NEW c \in Clients, ReadEdit(c) PROVE QueuesRise'
  <2>1. /\ posted' = Append(posted, "edit") /\ "edit" \in Kinds
        /\ editMessage' = Append(editMessage, Len(posted'))
        /\ UNCHANGED <<broadcast, fileEvents, log>>
    BY <1>2 DEF ReadEdit, Kinds
  <2>2. Longer(editMessage, editMessage', n) /\ Len(editMessage) \in Nat
    BY <1>a, <1>g, <1>t, <2>1
  <2>3. /\ Sound(posted', editMessage', {"edit"})
        /\ Ahead(posted', log, editMessage')
    BY <1>g, <2>1, <2>2, LongerSound, AheadOfLonger
  <2> QED
    BY <1>g, <2>1, <2>3 DEF QueuesRise
<1>3. CASE PostFileEvent
  <2>1. /\ posted' = Append(posted, "file") /\ "file" \in Kinds
        /\ fileEvents' = Append(fileEvents, Len(posted'))
        /\ UNCHANGED <<broadcast, editMessage, log>>
    BY <1>3 DEF PostFileEvent, Kinds
  <2>2. Longer(fileEvents, fileEvents', n) /\ Len(fileEvents) \in Nat
    BY <1>a, <1>g, <1>t, <2>1
  <2>3. Sound(posted', fileEvents', {"file"})
    BY <1>g, <2>1, <2>2, LongerSound
  <2> QED
    BY <1>g, <2>1, <2>3 DEF QueuesRise
<1>4. ASSUME NEW c \in Clients, DebugSendTestEvent(c) PROVE QueuesRise'
  <2>1. /\ posted' = Append(posted, "debug") /\ "debug" \in Kinds
        /\ UNCHANGED <<broadcast, editMessage, fileEvents, log>>
    BY <1>4 DEF DebugSendTestEvent, Kinds
  <2> QED
    BY <1>k, <2>1
\* What the manager takes of a queue goes to the end of the log.
<1>l. ASSUME NEW q \in Seq(Items), q # <<>>, NEW kind \in {"chat", "edit"},
             Sound(posted, q, {kind}), Ahead(posted, log, q)
      PROVE  /\ Sound(posted, Tail(q), {kind}) /\ Ahead(posted, log, Tail(q))
             /\ Sound(posted, Append(log, Head(q)), {"chat", "edit"})
             /\ Ahead(posted, Append(log, Head(q)), Tail(q))
             /\ \A r, K : OfKinds(posted, r, K) /\ kind \notin K
                            /\ Ahead(posted, log, r)
                  => Ahead(posted, Append(log, Head(q)), r)
  <2>1. Without(q, Tail(q), 1) /\ Len(q) \in Nat /\ Head(q) \in Items
    <3>1. PICK x \in Items : x = q[1]
      BY <1>l
    <3> QED
      BY <1>l, <3>1, QueueSteps
  <2>2. Longer(log, Append(log, Head(q)), Head(q)) /\ Len(log) \in Nat
    BY <1>t, <2>1, QueueSteps
  <2>3. /\ Sound(posted, <<Head(q)>>, {kind})
        /\ Ahead(posted, <<Head(q)>>, Tail(q))
        /\ Ahead(posted, log, <<Head(q)>>)
    BY <1>l, HeadNext
  <2>4. Sound(posted, Tail(q), {kind}) /\ Ahead(posted, log, Tail(q))
    BY <1>l, <2>1, WithoutSound
  <2>5. Sound(posted, <<Head(q)>>, {"chat", "edit"})
    BY <1>l, <2>3 DEF Sound, OfKinds
  <2>6. Sound(posted, Append(log, Head(q)), {"chat", "edit"})
    BY <1>t, <2>2, <2>3, <2>5, LongerSound DEF QueuesRise
  <2>7. Ahead(posted, Append(log, Head(q)), Tail(q))
    BY <2>2, <2>3, <2>4, LongerAhead
  <2>8. ASSUME NEW r, NEW K, OfKinds(posted, r, K), kind \notin K,
               Ahead(posted, log, r)
        PROVE  Ahead(posted, Append(log, Head(q)), r)
    <3>1. Ahead(posted, <<Head(q)>>, r)
      <4>1. OfKinds(posted, <<Head(q)>>, {kind}) /\ {kind} \intersect K = {}
        BY <2>3, <2>8 DEF Sound
      <4> QED
        BY <2>8, <4>1, OtherKinds
    <3> QED
      BY <2>2, <2>8, <3>1, LongerAhead
  <2> QED
    BY <2>4, <2>6, <2>7, <2>8
<1>5. CASE ReceiveBroadcast
  <2>1. /\ broadcast # <<>> /\ broadcast' = Tail(broadcast)
        /\ log' = Append(log, Head(broadcast))
        /\ UNCHANGED <<posted, editMessage, fileEvents>>
    BY <1>5 DEF ReceiveBroadcast, FanOutItem
  <2>2. OfKinds(posted, editMessage, {"edit"}) /\ "chat" \notin {"edit"}
    BY DEF QueuesRise, Sound
  <2> QED
    BY <1>l, <1>t, <2>1, <2>2 DEF QueuesRise
<1>6. CASE ReceiveEdit
  <2>1. /\ editMessage # <<>> /\ editMessage' = Tail(editMessage)
        /\ log' = Append(log, Head(editMessage)) \/ log' = log
        /\ UNCHANGED <<posted, broadcast, fileEvents>>
    BY <1>6 DEF ReceiveEdit, FanOutItem
  <2>2. OfKinds(posted, broadcast, {"chat"}) /\ "edit" \notin {"chat"}
    BY DEF QueuesRise, Sound
  <2> QED
    BY <1>l, <1>t, <2>1, <2>2 DEF QueuesRise
<1>7. CASE ReceiveFileEvent
  <2>1. /\ fileEvents # <<>> /\ fileEvents' = Tail(fileEvents)
        /\ UNCHANGED <<posted, broadcast, editMessage, log>>
    BY <1>7 DEF ReceiveFileEvent, FanOutItem
  <2>2. PICK x \in Items : x = fileEvents[1]
    BY <1>t, <2>1
  <2>3. Sound(posted, fileEvents', {"file"})
    BY <1>t, <2>1, <2>2, QueueSteps, WithoutSound DEF QueuesRise
  <2> QED
    BY <2>1, <2>3 DEF QueuesRise
<1>8. ASSUME NEW c \in Clients,
             \/ Connect(c) \/ StartPumps(c) \/ PeerLost(c) \/ ReadFails(c)
             \/ CloseConn(c) \/ WritePump(c) \/ ReplayMessage(c)
      PROVE  QueuesRise'
  BY <1>8, <1>k DEF Connect, StartPumps, PeerLost, ReadFails, CloseConn,
       WritePump, WriteMessage, WriteFileEvent, WriteOnline, WriterStops,
       ReplayMessage
<1>9. CASE AddClient \/ AddOnline \/ DropClient \/ DropOnline \/ FannedOut
  BY <1>9, <1>k DEF AddClient, AddOnline, DropClient, DropOnline, FannedOut
<1>10. ASSUME NEW c \in Clients,
              \/ ReceiveRegister(c) \/ ReceiveUnregister(c) \/ FanMessage(c)
              \/ FanFile(c)
       PROVE  QueuesRise'
  BY <1>10, <1>k DEF ReceiveRegister, ReceiveUnregister, FanMessage, FanFile
<1>11. ASSUME NEW p \in Procs, BroadcastOnline(p) PROVE QueuesRise'
  BY <1>11, <1>k DEF BroadcastOnline, OnlineFannedOut, FanOnline
<1>12. CASE Tick \/ LockClients
  BY <1>12, <1>k DEF Tick, LockClients
<1>13. CASE UNCHANGED vars
  BY <1>13, <1>k DEF vars
<1> QED
  BY <1>1, <1>2, <1>3, <1>4, <1>5, <1>6, <1>7, <1>8, <1>9, <1>10, <1>11,
     <1>12, <1>13
  DEF Next, Goroutines, Environment, Manager, Ticker, Procs, Halted

-----------------------------------------------------------------------------
(* The streams of file events.                                             *)

StreamOK(c) == /\ Sound(posted, FileStream(c), {"file", "debug"})
               /\ Ahead(posted, FileStream(c), fileEvents)

LEMMA FileStreamType ==
  ASSUME ChannelTypeOK, NEW c \in Clients
  PROVE  FileStream(c) \in Seq(0..MaxItems) /\ Len(FileStream(c)) \in Nat
<1>1. receivedFiles[c] \in Seq(0..MaxItems) /\ sendFileEvent[c] \in Seq(0..MaxItems)
  BY DEF ChannelTypeOK
<1> DEFINE h == receivedFiles[c]
           q == sendFileEvent[c]
           S == 0..MaxItems
<1>2. h \in Seq(S) /\ q \in Seq(S) /\ FileStream(c) = h \o q
  BY <1>1 DEF FileStream
<1> HIDE DEF h, q, S
<1>3. h \o q \in Seq(S) /\ Len(h \o q) \in Nat
  BY <1>2
<1> QED
  BY <1>2, <1>3 DEF S

\* A non-blocking send puts v last, or nowhere.
LEMMA FileQueued ==
  ASSUME ChannelTypeOK, NEW c \in Clients, NEW v \in 0..MaxItems,
         UNCHANGED receivedFiles,
         sendFileEvent' = TrySend(sendFileEvent, c, FileCap, v)
  PROVE  \A d \in Clients :
           \/ FileStream(d)' = FileStream(d)
           \/ d = c /\ Longer(FileStream(d), FileStream(d)', v)
<1>t. /\ sendFileEvent \in [Clients -> Seq(0..MaxItems)]
      /\ receivedFiles \in [Clients -> Seq(0..MaxItems)]
      /\ RoomP!Messages = 0..MaxItems
  BY CapacityAssumption DEF ChannelTypeOK, RoomP!Messages, Items
<1> SUFFICES ASSUME NEW d \in Clients, FileStream(d)' # FileStream(d)
             PROVE  d = c /\ Longer(FileStream(d), FileStream(d)', v)
  OBVIOUS
<1>1. d = c /\ sendFileEvent'[d] = Append(sendFileEvent[d], v)
  BY <1>t DEF TrySend, FileStream
<1> DEFINE h == receivedFiles[d]
           q == sendFileEvent[d]
<1>2. h \in Seq(RoomP!Messages) /\ q \in Seq(RoomP!Messages) /\ v \in RoomP!Messages
  BY <1>t
<1>3. FileStream(d) = h \o q /\ FileStream(d)' = h \o Append(q, v)
  BY <1>1 DEF FileStream
<1> HIDE DEF h, q
<1>4. /\ Len(h \o Append(q, v)) = Len(h \o q) + 1
      /\ \A i \in 1..Len(h \o q) : (h \o Append(q, v))[i] = (h \o q)[i]
      /\ (h \o Append(q, v))[Len(h \o q) + 1] = v
  BY <1>2, RoomP!QueuedLast
<1> QED
  BY <1>1, <1>3, <1>4 DEF Longer

\* WritePump hands the next event to the browser, or loses it.
LEMMA FileWritten ==
  ASSUME ChannelTypeOK, NEW c \in Clients, WriteFileEvent(c)
  PROVE  \A d \in Clients :
           \/ FileStream(d)' = FileStream(d)
           \/ \E k \in Nat : Without(FileStream(d), FileStream(d)', k)
<1>t. /\ sendFileEvent \in [Clients -> Seq(0..MaxItems)]
      /\ receivedFiles \in [Clients -> Seq(0..MaxItems)]
      /\ RoomP!Messages = 0..MaxItems
  BY CapacityAssumption DEF ChannelTypeOK, RoomP!Messages, Items
<1> SUFFICES ASSUME NEW d \in Clients
             PROVE  \/ FileStream(d)' = FileStream(d)
                    \/ \E k \in Nat : Without(FileStream(d), FileStream(d)', k)
  OBVIOUS
<1>1. CASE d # c
  <2>1. /\ sendFileEvent'[d] = sendFileEvent[d]
        /\ receivedFiles'[d] = receivedFiles[d]
    BY <1>1, <1>t DEF WriteFileEvent
  <2> QED
    BY <2>1 DEF FileStream
<1>2. CASE d = c
  <2> DEFINE h == receivedFiles[c]
             q == sendFileEvent[c]
  <2>1. /\ h \in Seq(RoomP!Messages) /\ q \in Seq(RoomP!Messages) /\ q # <<>>
    BY <1>t DEF WriteFileEvent
  <2>2. /\ sendFileEvent'[c] = Tail(q)
        /\ receivedFiles'[c] = Append(h, Head(q)) \/ receivedFiles'[c] = h
        /\ FileStream(c) = h \o q
    BY <1>t DEF WriteFileEvent, FileStream
  <2> HIDE DEF h, q
  <2>3. CASE receivedFiles'[c] = Append(h, Head(q))
    <3>1. FileStream(c)' = Append(h, Head(q)) \o Tail(q)
      BY <2>2, <2>3 DEF FileStream
    <3>2. Append(h, Head(q)) \o Tail(q) = h \o q
      BY <2>1, RoomP!HeardInPlace
    <3> QED
      BY <1>2, <2>2, <3>1, <3>2
  <2>4. CASE receivedFiles'[c] = h
    <3>1. FileStream(c)' = h \o Tail(q)
      BY <2>2, <2>4 DEF FileStream
    <3>2. /\ Len(h \o Tail(q)) = Len(h \o q) - 1
          /\ \A i \in 1..Len(h \o Tail(q)) :
               (h \o Tail(q))[i] = (h \o q)[IF i <= Len(h) THEN i ELSE i + 1]
      BY <2>1, RoomP!LostFromStream
    <3>3. /\ Len(h) \in Nat /\ Len(q) \in Nat /\ Len(q) > 0
          /\ Len(h \o q) = Len(h) + Len(q)
      BY <2>1
    <3>4. Without(h \o q, h \o Tail(q), Len(h) + 1)
      BY <3>2, <3>3 DEF Without
    <3> QED
      BY <1>2, <2>2, <3>1, <3>3, <3>4
  <2> QED
    BY <2>2, <2>3, <2>4
<1> QED
  BY <1>1, <1>2

LEMMA FilesInit == Init => FilesRise /\ FileAtHand
<1> SUFFICES ASSUME Init PROVE FilesRise /\ FileAtHand
  OBVIOUS
<1>1. pc["manager"] = "select"
  BY DEF Init, Procs
<1>2. \A c \in Clients : \A i \in 1..Len(FileStream(c)) : FALSE
  <2> SUFFICES ASSUME NEW c \in Clients PROVE \A i \in 1..Len(FileStream(c)) : FALSE
    OBVIOUS
  <2>1. receivedFiles[c] = <<>> /\ sendFileEvent[c] = <<>>
    BY DEF Init
  <2>2. Len(FileStream(c)) = 0
    BY <2>1 DEF FileStream
  <2> QED
    BY <2>2
<1>3. FilesRise
  BY <1>2, Zenon DEF FilesRise, Sound, From, OfKinds, Rising, Ahead
<1> QED
  BY <1>1, <1>3 DEF FileAtHand

LEMMA FilesStep ==
  ASSUME LockInv, ChannelTypeOK, OrderInv, [Next]_vars
  PROVE  FilesRise' /\ FileAtHand'
<1> USE DEF managerVars, queueVars, channelVars, peerVars
<1>t. /\ pc \in [Procs -> {"select", "addClient", "addOnline", "dropClient",
                          "dropOnline", "fanOnline", "fanMessage", "fanFile",
                          "wait", "lockClients"}]
      /\ todo \in [Procs -> SUBSET Clients] /\ clients \subseteq Clients
      /\ fileEvents \in Seq(Items) /\ posted \in Seq(Kinds)
      /\ Len(posted) \in Nat /\ MaxItems \in Nat /\ item \in 0..MaxItems
      /\ Len(posted) <= MaxItems
      /\ "manager" \in Procs /\ "ticker" \in Procs
  BY CapacityAssumption DEF LockInv, ControlTypeOK, ChannelTypeOK, Procs
<1>s. \A c \in Clients :
        /\ FileStream(c) \in Seq(0..MaxItems) /\ Len(FileStream(c)) \in Nat
        /\ StreamOK(c)
  BY FileStreamType DEF OrderInv, FilesRise, StreamOK
<1>f. Sound(posted, fileEvents, {"file"})
  BY DEF OrderInv, QueuesRise
<1>h. ASSUME pc["manager"] = "fanFile"
      PROVE  /\ Sound(posted, <<item>>, {"file"})
             /\ Ahead(posted, <<item>>, fileEvents)
             /\ \A c \in todo["manager"] : Ahead(posted, FileStream(c), <<item>>)
  BY <1>h DEF OrderInv, FileAtHand
\* The fan-out of a file event goes on, or there is none.
<1> DEFINE GoesOn == \/ pc'["manager"] # "fanFile"
                     \/ /\ pc["manager"] = "fanFile" /\ item' = item
                        /\ todo'["manager"] \subseteq todo["manager"]
\* A step that posts nothing.
<1>k. ASSUME UNCHANGED <<posted, fileEvents>>, GoesOn,
             \A c \in Clients :
               \/ FileStream(c)' = FileStream(c)
               \/ \E k \in Nat : Without(FileStream(c), FileStream(c)', k)
      PROVE  FilesRise' /\ FileAtHand'
  <2>1. ASSUME NEW c \in Clients
        PROVE  /\ Sound(posted, FileStream(c)', {"file", "debug"})
               /\ \A q : Ahead(posted, FileStream(c), q)
                           => Ahead(posted, FileStream(c)', q)
    <3>1. CASE FileStream(c)' = FileStream(c)
      BY <1>s, <3>1 DEF StreamOK
    <3>2. ASSUME NEW k \in Nat, Without(FileStream(c), FileStream(c)', k)
          PROVE  /\ Sound(posted, FileStream(c)', {"file", "debug"})
                 /\ \A q : Ahead(posted, FileStream(c), q)
                             => Ahead(posted, FileStream(c)', q)
      BY <1>s, <3>2, WithoutSound DEF StreamOK
    <3> QED
      BY <1>k, <3>1, <3>2
  <2>2. FilesRise'
    BY <1>k, <1>s, <2>1 DEF FilesRise, StreamOK
  <2>3. FileAtHand'
    BY <1>h, <1>k, <1>t, <2>1 DEF FileAtHand
  <2> QED
    BY <2>2, <2>3
<1>u. ASSUME UNCHANGED <<receivedFiles, sendFileEvent>>
      PROVE  \A c \in Clients : FileStream(c)' = FileStream(c)
  BY <1>u DEF FileStream
\* A step that posts, and the streams and the event at hand as they were.
<1> DEFINE n == Len(posted) + 1
<1>g. ASSUME NEW kind \in Kinds, posted' = Append(posted, kind)
      PROVE  /\ \A c \in Clients :
                  /\ Sound(posted', FileStream(c), {"file", "debug"})
                  /\ Ahead(posted', FileStream(c), fileEvents)
                  /\ Ahead(posted', FileStream(c), <<n>>)
             /\ pc["manager"] = "fanFile" =>
                  /\ Sound(posted', <<item>>, {"file"})
                  /\ Ahead(posted', <<item>>, fileEvents)
                  /\ Ahead(posted', <<item>>, <<n>>)
                  /\ \A c \in todo["manager"] :
                       Ahead(posted', FileStream(c), <<item>>)
             /\ Sound(posted', <<n>>, {kind})
             /\ OfKinds(posted', fileEvents, {"file"})
             /\ Len(posted') = n /\ n \in Nat
  <2>1. From(posted, fileEvents) /\ \A c \in Clients : From(posted, FileStream(c))
    BY <1>f, <1>s DEF Sound, StreamOK
  <2>2. pc["manager"] = "fanFile" => From(posted, <<item>>)
    BY <1>h DEF Sound
  <2>3. Len(Append(posted, kind)) = n /\ kind \in {kind}
    BY <1>t
  <2>4. /\ \A c \in Clients :
             /\ Sound(posted', FileStream(c), {"file", "debug"})
             /\ Ahead(posted', FileStream(c), fileEvents)
             /\ Ahead(posted', FileStream(c), <<n>>)
    BY <1>g, <1>s, <1>t, <2>1, PostKeeps DEF StreamOK
  <2>5. pc["manager"] = "fanFile" =>
          /\ Sound(posted', <<item>>, {"file"})
          /\ Ahead(posted', <<item>>, fileEvents)
          /\ Ahead(posted', <<item>>, <<n>>)
          /\ \A c \in todo["manager"] : Ahead(posted', FileStream(c), <<item>>)
    BY <1>g, <1>h, <1>t, <2>1, <2>2, PostKeeps
  <2>6. Sound(posted', <<n>>, {kind}) /\ Sound(posted', fileEvents, {"file"})
    BY <1>f, <1>g, <1>t, <2>3, PostKeeps
  <2> QED
    BY <1>g, <1>t, <2>3, <2>4, <2>5, <2>6 DEF Sound
<1> HIDE DEF n
<1>1. ASSUME NEW c \in Clients, ReadChat(c) \/ ReadEdit(c)
      PROVE  FilesRise' /\ FileAtHand'
  <2>1. /\ \E kind \in Kinds : posted' = Append(posted, kind)
        /\ UNCHANGED <<fileEvents, receivedFiles, sendFileEvent, pc, item, todo>>
    BY <1>1 DEF ReadChat, ReadEdit, Kinds
  <2> QED
    BY <1>g, <1>t, <1>u, <2>1 DEF FilesRise, FileAtHand
<1>2. CASE PostFileEvent
  <2>1. /\ posted' = Append(posted, "file") /\ "file" \in Kinds
        /\ fileEvents' = Append(fileEvents, Len(posted'))
        /\ UNCHANGED <<receivedFiles, sendFileEvent, pc, item, todo>>
    BY <1>2 DEF PostFileEvent, Kinds
  <2>2. Longer(fileEvents, fileEvents', n) /\ Len(fileEvents) \in Nat
    <3>1. fileEvents \in Seq(Nat)
      BY <1>t DEF Items
    <3> QED
      BY <1>g, <2>1, <3>1, QueueSteps
  <2>3. \A c \in Clients : Ahead(posted', FileStream(c), fileEvents')
    BY <1>g, <2>1, <2>2, AheadOfLonger
  <2>4. pc["manager"] = "fanFile" => Ahead(posted', <<item>>, fileEvents')
    BY <1>g, <2>1, <2>2, AheadOfLonger
  <2> QED
    BY <1>g, <1>t, <1>u, <2>1, <2>3, <2>4 DEF FilesRise, FileAtHand
<1>3. ASSUME NEW c \in Clients, DebugSendTestEvent(c)
      PROVE  FilesRise' /\ FileAtHand'
  <2>1. /\ posted' = Append(posted, "debug") /\ "debug" \in Kinds
        /\ Len(posted) < MaxItems
        /\ UNCHANGED <<fileEvents, receivedFiles, pc, item, todo>>
        /\ \/ sendFileEvent' = TrySend(sendFileEvent, c, FileCap, Len(posted'))
           \/ sendFileEvent' = sendFileEvent
    BY <1>3 DEF DebugSendTestEvent, Kinds
  <2>2. n \in 0..MaxItems /\ Len(posted') = n
    BY <1>g, <1>t, <2>1 DEF n
  <2>3. \A d \in Clients : \/ FileStream(d)' = FileStream(d)
                           \/ Longer(FileStream(d), FileStream(d)', n)
    BY <1>u, <2>1, <2>2, FileQueued
  <2>4. /\ Sound(posted', <<n>>, {"file", "debug"})
        /\ OfKinds(posted', <<n>>, {"debug"})
    BY <1>g, <2>1 DEF Sound, OfKinds
  <2>5. {"debug"} \intersect {"file"} = {}
    OBVIOUS
  <2>6. Ahead(posted', <<n>>, fileEvents)
    BY <1>g, <2>1, <2>4, <2>5, OtherKinds
  <2>7. pc["manager"] = "fanFile" => Ahead(posted', <<n>>, <<item>>)
    BY <1>g, <2>1, <2>4, <2>5, OtherKinds DEF Sound
  <2>8. ASSUME NEW d \in Clients
        PROVE  /\ Sound(posted', FileStream(d)', {"file", "debug"})
               /\ Ahead(posted', FileStream(d)', fileEvents)
               /\ pc["manager"] = "fanFile" /\ d \in todo["manager"]
                    => Ahead(posted', FileStream(d)', <<item>>)
    <3>1. CASE FileStream(d)' = FileStream(d)
      BY <1>g, <2>1, <3>1
    <3>2. CASE Longer(FileStream(d), FileStream(d)', n)
      <4>1. Len(FileStream(d)) \in Nat /\ Len(posted') \in Nat
        BY <1>g, <1>s, <2>1
      <4>2. Sound(posted', FileStream(d)', {"file", "debug"})
        BY <1>g, <2>1, <2>4, <3>2, <4>1, LongerSound
      <4>3. Ahead(posted', FileStream(d)', fileEvents)
        BY <1>g, <2>1, <2>6, <3>2, <4>1, LongerAhead
      <4>4. ASSUME pc["manager"] = "fanFile", d \in todo["manager"]
            PROVE  Ahead(posted', FileStream(d)', <<item>>)
        BY <1>g, <2>1, <2>7, <3>2, <4>1, <4>4, LongerAhead
      <4> QED
        BY <4>2, <4>3, <4>4
    <3> QED
      BY <2>3, <3>1, <3>2
  <2> QED
    BY <1>g, <1>t, <2>1, <2>8 DEF FilesRise, FileAtHand
\* The manager takes the oldest event that waits.
<1>4. CASE ReceiveFileEvent
  <2>1. /\ fileEvents # <<>> /\ fileEvents' = Tail(fileEvents)
        /\ item' = Head(fileEvents) /\ todo'["manager"] = clients
        /\ UNCHANGED <<posted, receivedFiles, sendFileEvent>>
    BY <1>4, <1>t DEF ReceiveFileEvent, FanOutItem
  <2>2. /\ Sound(posted, <<Head(fileEvents)>>, {"file"})
        /\ Ahead(posted, <<Head(fileEvents)>>, Tail(fileEvents))
        /\ \A c \in Clients : Ahead(posted, FileStream(c), <<Head(fileEvents)>>)
    BY <1>f, <1>s, <1>t, <2>1, HeadNext DEF StreamOK
  <2>3. PICK x \in Items : x = fileEvents[1]
    BY <1>t, <2>1
  <2>4. Without(fileEvents, Tail(fileEvents), 1) /\ Len(fileEvents) \in Nat
    BY <1>t, <2>1, <2>3, QueueSteps
  <2>5. \A c \in Clients : Ahead(posted, FileStream(c), Tail(fileEvents))
    BY <1>f, <1>s, <2>4, WithoutSound DEF StreamOK
  <2> QED
    BY <1>s, <1>t, <1>u, <2>1, <2>2, <2>5 DEF FilesRise, FileAtHand, StreamOK
\* A client of the range gets the event at hand, which is newer than all it
\* has got, and is done.
<1>5. ASSUME NEW c \in Clients, FanFile(c) PROVE FilesRise' /\ FileAtHand'
  <2>1. /\ pc["manager"] = "fanFile" /\ c \in todo["manager"]
        /\ todo'["manager"] = todo["manager"] \ {c}
        /\ UNCHANGED <<posted, fileEvents, receivedFiles, pc, item>>
        /\ \/ sendFileEvent' = TrySend(sendFileEvent, c, FileCap, item)
           \/ sendFileEvent' = sendFileEvent
    BY <1>5, <1>t DEF FanFile
  <2>2. \A d \in Clients :
          \/ FileStream(d)' = FileStream(d)
          \/ d = c /\ Longer(FileStream(d), FileStream(d)', item)
    BY <1>t, <1>u, <2>1, FileQueued
  <2>3. Sound(posted, <<item>>, {"file", "debug"})
    BY <1>h, <2>1 DEF Sound, OfKinds
  <2>4. ASSUME NEW d \in Clients
        PROVE  /\ Sound(posted, FileStream(d)', {"file", "debug"})
               /\ Ahead(posted, FileStream(d)', fileEvents)
    <3>1. CASE FileStream(d)' = FileStream(d)
      BY <1>s, <3>1 DEF StreamOK
    <3>2. CASE d = c /\ Longer(FileStream(d), FileStream(d)', item)
      <4>1. /\ Ahead(posted, FileStream(d), <<item>>)
            /\ Ahead(posted, <<item>>, fileEvents)
        BY <1>h, <2>1, <3>2
      <4>2. Sound(posted, FileStream(d)', {"file", "debug"})
        BY <1>s, <1>t, <2>3, <3>2, <4>1, LongerSound DEF StreamOK
      <4>3. Ahead(posted, FileStream(d)', fileEvents)
        BY <1>s, <3>2, <4>1, LongerAhead DEF StreamOK
      <4> QED
        BY <4>2, <4>3
    <3> QED
      BY <2>2, <3>1, <3>2
  <2>5. \A d \in todo'["manager"] : FileStream(d)' = FileStream(d)
    BY <1>t, <2>1, <2>2
  <2> QED
    BY <1>h, <2>1, <2>4, <2>5 DEF FilesRise, FileAtHand
<1>6. ASSUME NEW c \in Clients, WriteFileEvent(c) PROVE FilesRise' /\ FileAtHand'
  BY <1>6, <1>k, FileWritten DEF WriteFileEvent
\* No other step touches file events.
<1>q. ASSUME UNCHANGED <<posted, fileEvents, receivedFiles, sendFileEvent>>, GoesOn
      PROVE  FilesRise' /\ FileAtHand'
  BY <1>k, <1>q, <1>u
<1>7. ASSUME NEW c \in Clients,
             \/ Connect(c) \/ StartPumps(c) \/ PeerLost(c) \/ ReadFails(c)
             \/ CloseConn(c) \/ WriteMessage(c) \/ WriteOnline(c)
             \/ WriterStops(c) \/ ReplayMessage(c)
      PROVE  FilesRise' /\ FileAtHand'
  BY <1>7, <1>q DEF Connect, StartPumps, PeerLost, ReadFails, CloseConn,
       WriteMessage, WriteOnline, WriterStops, ReplayMessage
<1>8. CASE AddClient \/ AddOnline \/ DropClient \/ DropOnline \/ FannedOut
  BY <1>8, <1>q, <1>t
     DEF AddClient, AddOnline, DropClient, DropOnline, FannedOut, FanOutOnline,
         Goto
<1>9. ASSUME NEW c \in Clients,
             ReceiveRegister(c) \/ ReceiveUnregister(c) \/ FanMessage(c)
      PROVE  FilesRise' /\ FileAtHand'
  BY <1>9, <1>q, <1>t DEF ReceiveRegister, ReceiveUnregister, FanMessage, Goto
<1>10. CASE ReceiveBroadcast \/ ReceiveEdit
  BY <1>10, <1>q, <1>t DEF ReceiveBroadcast, ReceiveEdit, FanOutItem, Goto
<1>11. ASSUME NEW p \in Procs, BroadcastOnline(p) PROVE FilesRise' /\ FileAtHand'
  <2>1. CASE OnlineFannedOut(p)
    BY <1>q, <1>t, <2>1 DEF OnlineFannedOut, Goto, Procs
  <2>2. ASSUME NEW c \in Clients, FanOnline(p, c)
        PROVE  FilesRise' /\ FileAtHand'
    <3>1. todo'["manager"] \subseteq todo["manager"]
      BY <1>t, <2>2 DEF FanOnline
    <3> QED
      BY <1>q, <2>2, <3>1 DEF FanOnline
  <2> QED
    BY <1>11, <2>1, <2>2 DEF BroadcastOnline
<1>12. CASE Tick \/ LockClients
  BY <1>12, <1>q, <1>t DEF Tick, LockClients, Goto
<1>13. CASE UNCHANGED vars
  BY <1>13, <1>q DEF vars
<1> QED
  BY <1>1, <1>2, <1>3, <1>4, <1>5, <1>6, <1>7, <1>8, <1>9, <1>10, <1>11,
     <1>12, <1>13
  DEF Next, Goroutines, Environment, Manager, Ticker, WritePump, Procs, Halted

-----------------------------------------------------------------------------
\* The invariant of the order of posting.
THEOREM OrderInvariant == Spec => []OrderInv
<1> DEFINE Inv == LockInv /\ ChannelTypeOK /\ OrderInv
<1>1. Init => Inv
  BY LockInvInit, ChannelInit, QueuesInit, FilesInit DEF OrderInv
<1>2. Inv /\ [Next]_vars => Inv'
  BY LockInvStep, ChannelStep, QueuesStep, FilesStep DEF LockInv, OrderInv
<1> QED
  BY <1>1, <1>2, PTL DEF Spec

\* manager.go:155-217 and client.go: items of one kind reach every browser in
\* the order they were queued, whatever is dropped, written or lost between.
THEOREM KindsInOrder == Spec => []PostedOrder
<1>1. RoomP!RoomInv /\ OrderInv => PostedOrder
  <2> SUFFICES ASSUME RoomP!RoomInv, OrderInv, NEW c \in Clients,
                      NEW a \in Items, NEW b \in Items,
                      Before(Stream(c), a, b) \/ Before(FileStream(c), a, b),
                      posted[a] = posted[b]
               PROVE  a < b
    BY DEF PostedOrder
  <2>1. CASE Before(Stream(c), a, b)
    <3>1. PICK i, j \in 1..Len(Stream(c)) :
            i < j /\ Stream(c)[i] = a /\ Stream(c)[j] = b
      BY <2>1 DEF Before
    <3>2. PICK x, y \in 1..Len(log) : x < y /\ log[x] = a /\ log[y] = b
      BY <3>1 DEF RoomP!RoomInv, RoomP!InOrder, RoomP!Stream, Stream
    <3> QED
      BY <3>2 DEF OrderInv, QueuesRise, Sound, Rising
  <2>2. CASE Before(FileStream(c), a, b)
    BY <2>2 DEF Before, OrderInv, FilesRise, Sound, Rising
  <2> QED
    BY <2>1, <2>2
<1>2. RoomP!Spec => []RoomP!RoomInv
  BY CapacityAssumption, RoomP!RoomInvariant DEF Items, RoomP!StoredIsNoItem
<1> QED
  BY <1>1, <1>2, HubRefinesRoom, RoomAsProved, OrderInvariant, PTL
=============================================================================
