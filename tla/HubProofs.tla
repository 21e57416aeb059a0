----------------------------- MODULE HubProofs -----------------------------
(***************************************************************************)
(* What holds of the hub for any number of connections and users and any   *)
(* capacities.  The invariant ties where the manager is to the life of the *)
(* client it holds, and the read lock to the clients left in a range.      *)
(***************************************************************************)
EXTENDS Hub, TLAPS

\* Before the manager takes a client from Register it is nowhere in the hub.
NotYetIn ==
  \A c \in Clients : life[c] \in {"idle", "registering"} =>
    c \notin clients /\ c \notin closed

\* Channels are closed only once ReadPump has handed its client over.
ClosedHasLeft ==
  \A c \in Clients : c \in closed => life[c] \in {"closing", "gone"}

\* The client at hand: one that has been accepted and not handed back ...
AddingFits ==
  pc["manager"] \in {"addClient", "addOnline"} =>
    /\ cur \in Clients /\ life[cur] \in {"accepted", "reading", "leaving"}
    /\ pc["manager"] = "addOnline" => cur \in clients

\* ... or one that has been handed back.
DroppingFits ==
  pc["manager"] \in {"dropClient", "dropOnline"} =>
    /\ cur \in Clients /\ life[cur] \in {"closing", "gone"}
    /\ pc["manager"] = "dropOnline" => cur \notin clients

RegisteredOpen == clients \intersect closed = {}

\* Whoever is in a range over Clients, and nobody else, holds the read lock,
\* and has only registered clients left.
RangeHoldsLock ==
  /\ LockOnlyInRange
  /\ \A p \in Procs : p \in readers => todo[p] \subseteq clients

LockInv ==
  /\ ControlTypeOK /\ NotYetIn /\ ClosedHasLeft /\ AddingFits /\ DroppingFits
  /\ RegisteredOpen /\ RangeHoldsLock /\ NoFanOutPanic

\* An entry belongs to a client of that user, one that has connected.
EntryOfUser ==
  \A u \in Users : onlineUsers[u] # None =>
    Username[onlineUsers[u]] = u /\ life[onlineUsers[u]] # "idle"

\* No second connection of c's user has been opened.
SingleTab(c) ==
  \A d \in Clients : Username[d] = Username[c] /\ d # c => life[d] = "idle"

\* SingleTabPresence in the middle of an event, too.
SingleTabMirrored ==
  \A c \in Clients :
    SingleTab(c) =>
      \/ onlineUsers[Username[c]] # None <=> c \in clients
      \/ cur = c /\ pc["manager"] \in {"addOnline", "dropOnline"}

\* Another connection of c's user has been unregistered.
OtherTabLeft(c) ==
  \E d \in Clients : /\ d # c /\ Username[d] = Username[c]
                     /\ life[d] \in {"closing", "gone"}

\* OfflineByOtherTab in the middle of an event, too.
RegisteredShown ==
  \A c \in clients : onlineUsers[Username[c]] = None =>
    \/ pc["manager"] = "addOnline" /\ cur = c
    \/ OtherTabLeft(c)

PresenceInv ==
  EntryOfUser /\ NoGhostOnline /\ SingleTabMirrored /\ RegisteredShown

-----------------------------------------------------------------------------
LEMMA LockInvInit == Init => LockInv
<1> SUFFICES ASSUME Init PROVE LockInv
  OBVIOUS
<1> USE ClientsAssumption, CapacityAssumption DEF Init
<1>1. /\ pc["manager"] = "select" /\ pc["ticker"] = "wait"
      /\ pc \in [Procs -> {"select", "wait"}]
  BY DEF Procs
<1>2. ControlTypeOK
  <2>1. pc \in [Procs -> {"select", "addClient", "addOnline", "dropClient",
                         "dropOnline", "fanOnline", "fanMessage", "fanFile",
                         "wait", "lockClients"}]
    BY DEF Procs
  <2>2. /\ clients \subseteq Clients /\ closed \subseteq Clients
        /\ onlineUsers \in [Users -> Clients \union {None}]
        /\ cur \in Clients \union {None}
    OBVIOUS
  <2>3. /\ readers \subseteq Procs
        /\ users \in [Procs -> SUBSET Users]
        /\ todo \in [Procs -> SUBSET Clients]
    OBVIOUS
  <2>4. /\ life \in [Clients -> {"idle", "registering", "accepted", "reading",
                                 "leaving", "closing", "gone"}]
        /\ writer \in [Clients -> {"off", "running", "done"}]
        /\ replay \in [Clients -> 0..HistoryLen]
        /\ conn \in [Clients -> {"up", "down"}]
    OBVIOUS
  <2> QED
    BY <2>1, <2>2, <2>3, <2>4 DEF ControlTypeOK
<1>3. NotYetIn /\ ClosedHasLeft /\ RegisteredOpen /\ NoFanOutPanic
  BY DEF NotYetIn, ClosedHasLeft, RegisteredOpen, NoFanOutPanic
<1>4. AddingFits /\ DroppingFits
  BY <1>1 DEF AddingFits, DroppingFits
<1>5. RangeHoldsLock
  BY <1>1 DEF RangeHoldsLock, LockOnlyInRange, Procs, Fanning
<1> QED
  BY <1>2, <1>3, <1>4, <1>5 DEF LockInv

LEMMA LockInvStep == LockInv /\ [Next]_vars => LockInv'
<1> SUFFICES ASSUME LockInv, [Next]_vars PROVE LockInv'
  OBVIOUS
<1> USE ClientsAssumption, CapacityAssumption
    DEF LockInv, ControlTypeOK, NotYetIn, ClosedHasLeft, AddingFits,
        DroppingFits, RegisteredOpen, RangeHoldsLock, LockOnlyInRange, NoFanOutPanic,
        Procs, Fanning, managerVars, queueVars, channelVars, peerVars
<1>0. ASSUME NEW c \in Clients, DebugSendTestEvent(c) PROVE LockInv'
  BY <1>0 DEF DebugSendTestEvent
<1>1. ASSUME NEW c \in Clients, Connect(c) PROVE LockInv'
  BY <1>1 DEF Connect
<1>2. ASSUME NEW c \in Clients, StartPumps(c) PROVE LockInv'
  BY <1>2 DEF StartPumps
<1>3. ASSUME NEW c \in Clients, PeerLost(c) PROVE LockInv'
  BY <1>3 DEF PeerLost
<1>4. ASSUME NEW c \in Clients, ReadChat(c) PROVE LockInv'
  BY <1>4 DEF ReadChat
<1>5. ASSUME NEW c \in Clients, ReadEdit(c) PROVE LockInv'
  BY <1>5 DEF ReadEdit
<1>6. CASE PostFileEvent
  BY <1>6 DEF PostFileEvent
<1>7. ASSUME NEW c \in Clients, ReadFails(c) PROVE LockInv'
  BY <1>7 DEF ReadFails
<1>8. ASSUME NEW c \in Clients, CloseConn(c) PROVE LockInv'
  BY <1>8 DEF CloseConn
<1>9. ASSUME NEW c \in Clients, WriteMessage(c) PROVE LockInv'
  BY <1>9 DEF WriteMessage
<1>10. ASSUME NEW c \in Clients, WriteFileEvent(c) PROVE LockInv'
  BY <1>10 DEF WriteFileEvent
<1>11. ASSUME NEW c \in Clients, WriteOnline(c) PROVE LockInv'
  BY <1>11 DEF WriteOnline
<1>12. ASSUME NEW c \in Clients, WriterStops(c) PROVE LockInv'
  BY <1>12 DEF WriterStops
<1>13. ASSUME NEW c \in Clients, ReplayMessage(c) PROVE LockInv'
  BY <1>13 DEF ReplayMessage
<1>14. ASSUME NEW c \in Clients, ReceiveRegister(c) PROVE LockInv'
  BY <1>14 DEF ReceiveRegister, Goto
<1>15. CASE AddClient
  BY <1>15 DEF AddClient, Goto, CanLock
<1>16. CASE AddOnline
  BY <1>16 DEF AddOnline, FanOutOnline, Goto, Online
<1>17. ASSUME NEW c \in Clients, ReceiveUnregister(c) PROVE LockInv'
  BY <1>17 DEF ReceiveUnregister, Goto
<1>18. CASE DropClient
  BY <1>18 DEF DropClient, Goto, CanLock
<1>19. CASE DropOnline
  BY <1>19 DEF DropOnline, FanOutOnline, Goto, Online
<1>20. CASE ReceiveBroadcast
  BY <1>20 DEF ReceiveBroadcast, FanOutItem, Goto
<1>21. CASE ReceiveEdit
  <2>1. CASE FanOutItem(Head(editMessage), "fanMessage")
    BY <1>21, <2>1 DEF ReceiveEdit, FanOutItem, Goto
  <2>2. CASE UNCHANGED <<item, pc, readers, todo>>
    BY <1>21, <2>2 DEF ReceiveEdit
  <2> QED
    BY <1>21, <2>1, <2>2 DEF ReceiveEdit
<1>22. CASE ReceiveFileEvent
  BY <1>22 DEF ReceiveFileEvent, FanOutItem, Goto
<1>23. ASSUME NEW c \in Clients, FanMessage(c) PROVE LockInv'
  BY <1>23 DEF FanMessage
<1>24. ASSUME NEW c \in Clients, FanFile(c) PROVE LockInv'
  BY <1>24 DEF FanFile
<1>25. CASE FannedOut
  BY <1>25 DEF FannedOut, Goto
<1>26. ASSUME NEW p \in Procs, NEW c \in Clients, FanOnline(p, c) PROVE LockInv'
  BY <1>26 DEF FanOnline
<1>27. ASSUME NEW p \in Procs, OnlineFannedOut(p) PROVE LockInv'
  <2>1. /\ UNCHANGED <<clients, onlineUsers, todo, life, writer, closed, conn,
                        panicked>>
        /\ readers' = readers \ {p}
        /\ pc' = [pc EXCEPT ![p] = IF p = "manager" THEN "select" ELSE "wait"]
    BY <1>27 DEF OnlineFannedOut, Goto
  <2>2. users' \in [Procs -> SUBSET Users]
    BY <1>27 DEF OnlineFannedOut
  <2>3. /\ cur' \in {cur, None} /\ joining' \in BOOLEAN
        /\ p = "ticker" => cur' = cur
    BY <1>27 DEF OnlineFannedOut
  <2>4. replay' \in [Clients -> 0..HistoryLen]
    BY <1>27 DEF OnlineFannedOut, Found
  <2>5. /\ pc'["manager"] = "select" \/ pc'["manager"] = pc["manager"]
        /\ p = "manager" => pc'["manager"] = "select"
        /\ \A q \in Procs : q # p => pc'[q] = pc[q]
        /\ pc'[p] \notin Fanning
        /\ pc' \in [Procs -> {"select", "addClient", "addOnline", "dropClient",
                             "dropOnline", "fanOnline", "fanMessage",
                             "fanFile", "wait", "lockClients"}]
    BY <2>1
  <2>6. ControlTypeOK'
    BY <2>1, <2>2, <2>3, <2>4, <2>5
  <2>7. (NotYetIn /\ ClosedHasLeft /\ RegisteredOpen /\ NoFanOutPanic)'
    BY <2>1
  <2>8. (AddingFits /\ DroppingFits)'
    BY <2>1, <2>3, <2>5
  <2>9. RangeHoldsLock'
    BY <2>1, <2>5
  <2> QED
    BY <2>6, <2>7, <2>8, <2>9
<1>28. CASE Tick
  BY <1>28 DEF Tick, Goto, Online
<1>29. CASE LockClients
  BY <1>29 DEF LockClients, Goto, WriterWaits
<1>30. CASE UNCHANGED vars
  BY <1>30 DEF vars
<1> QED
  BY <1>0, <1>1, <1>2, <1>3, <1>4, <1>5, <1>6, <1>7, <1>8, <1>9, <1>10, <1>11,
     <1>12, <1>13, <1>14, <1>15, <1>16, <1>17, <1>18, <1>19, <1>20, <1>21,
     <1>22, <1>23, <1>24, <1>25, <1>26, <1>27, <1>28, <1>29, <1>30
  DEF Next, Goroutines, Environment, Manager, Ticker, BroadcastOnline, WritePump, Halted

\* A step that changes none of what the presence invariant relates, or only
\* moves clients on from "idle".
PresenceKept ==
  /\ UNCHANGED <<clients, onlineUsers>>
  /\ \/ pc'["manager"] = pc["manager"] /\ cur' = cur
     \/ pc["manager"] \notin {"addOnline", "dropOnline"}
  /\ \A c \in Clients : life'[c] = "idle" => life[c] = "idle"
  /\ \A c \in Clients : life[c] \in {"closing", "gone"}
                          => life'[c] \in {"closing", "gone"}

LEMMA KeptStep ==
  ASSUME LockInv, PresenceInv, PresenceKept
  PROVE  PresenceInv'
<1> USE ClientsAssumption DEF LockInv, ControlTypeOK, PresenceInv, PresenceKept
<1>1. EntryOfUser'
  BY DEF EntryOfUser
<1>2. NoGhostOnline'
  BY DEF NoGhostOnline
<1>3. SingleTabMirrored'
  BY DEF SingleTabMirrored, SingleTab
<1>4. RegisteredShown'
  <2> SUFFICES ASSUME NEW c \in clients, onlineUsers[Username[c]] = None
               PROVE  \/ pc'["manager"] = "addOnline" /\ cur' = c
                      \/ OtherTabLeft(c)'
    BY DEF RegisteredShown
  <2>1. CASE pc["manager"] = "addOnline" /\ cur = c
    BY <2>1
  <2>2. CASE OtherTabLeft(c)
    BY <2>2 DEF OtherTabLeft
  <2> QED
    BY <2>1, <2>2 DEF RegisteredShown
<1> QED
  BY <1>1, <1>2, <1>3, <1>4

LEMMA PresenceInit == Init => PresenceInv
BY ClientsAssumption
DEF Init, PresenceInv, EntryOfUser, NoGhostOnline, SingleTabMirrored, SingleTab,
    RegisteredShown

LEMMA PresenceStep == LockInv /\ PresenceInv /\ [Next]_vars => PresenceInv'
<1> SUFFICES ASSUME LockInv, PresenceInv, [Next]_vars PROVE PresenceInv'
  OBVIOUS
<1> USE ClientsAssumption DEF managerVars, queueVars, channelVars, peerVars
<1>k. SUFFICES ASSUME ~PresenceKept PROVE PresenceInv'
  BY KeptStep
<1>t. /\ pc \in [Procs -> {"select", "addClient", "addOnline", "dropClient",
                          "dropOnline", "fanOnline", "fanMessage", "fanFile",
                          "wait", "lockClients"}]
      /\ life \in [Clients -> {"idle", "registering", "accepted", "reading",
                              "leaving", "closing", "gone"}]
  BY DEF LockInv, ControlTypeOK
<1>0. ASSUME NEW c \in Clients, DebugSendTestEvent(c) PROVE FALSE
  BY <1>0, <1>k DEF DebugSendTestEvent, PresenceKept
<1>1. ASSUME NEW c \in Clients, Connect(c) PROVE FALSE
  BY <1>1, <1>k, <1>t DEF Connect, PresenceKept
<1>2. ASSUME NEW c \in Clients, StartPumps(c) PROVE FALSE
  BY <1>2, <1>k, <1>t DEF StartPumps, PresenceKept
<1>3. ASSUME NEW c \in Clients, PeerLost(c) PROVE FALSE
  BY <1>3, <1>k, <1>t DEF PeerLost, PresenceKept
<1>4. ASSUME NEW c \in Clients, ReadChat(c) PROVE FALSE
  BY <1>4, <1>k, <1>t DEF ReadChat, PresenceKept
<1>5. ASSUME NEW c \in Clients, ReadEdit(c) PROVE FALSE
  BY <1>5, <1>k, <1>t DEF ReadEdit, PresenceKept
<1>6. ASSUME NEW c \in Clients, ReadFails(c) PROVE FALSE
  BY <1>6, <1>k, <1>t DEF ReadFails, PresenceKept
<1>7. ASSUME NEW c \in Clients, CloseConn(c) PROVE FALSE
  BY <1>7, <1>k, <1>t DEF CloseConn, PresenceKept
<1>8. ASSUME NEW c \in Clients, WriteMessage(c) PROVE FALSE
  BY <1>8, <1>k, <1>t DEF WriteMessage, PresenceKept
<1>9. ASSUME NEW c \in Clients, WriteFileEvent(c) PROVE FALSE
  BY <1>9, <1>k, <1>t DEF WriteFileEvent, PresenceKept
<1>10. ASSUME NEW c \in Clients, WriteOnline(c) PROVE FALSE
  BY <1>10, <1>k, <1>t DEF WriteOnline, PresenceKept
<1>11. ASSUME NEW c \in Clients, WriterStops(c) PROVE FALSE
  BY <1>11, <1>k, <1>t DEF WriterStops, PresenceKept
<1>12. ASSUME NEW c \in Clients, ReplayMessage(c) PROVE FALSE
  BY <1>12, <1>k, <1>t DEF ReplayMessage, PresenceKept
<1>13. CASE PostFileEvent
  BY <1>13, <1>k DEF PostFileEvent, PresenceKept
<1>14. ASSUME NEW c \in Clients, ReceiveRegister(c) PROVE FALSE
  BY <1>14, <1>k, <1>t DEF ReceiveRegister, Goto, PresenceKept
<1>15. ASSUME NEW c \in Clients, ReceiveUnregister(c) PROVE FALSE
  BY <1>15, <1>k, <1>t DEF ReceiveUnregister, Goto, PresenceKept
<1>16. CASE ReceiveBroadcast
  BY <1>16, <1>k, <1>t DEF ReceiveBroadcast, FanOutItem, Goto, PresenceKept
<1>17. CASE ReceiveEdit
  BY <1>17, <1>k, <1>t DEF ReceiveEdit, FanOutItem, Goto, PresenceKept
<1>18. CASE ReceiveFileEvent
  BY <1>18, <1>k, <1>t DEF ReceiveFileEvent, FanOutItem, Goto, PresenceKept
<1>19. ASSUME NEW c \in Clients, FanMessage(c) PROVE FALSE
  BY <1>19, <1>k DEF FanMessage, PresenceKept
<1>20. ASSUME NEW c \in Clients, FanFile(c) PROVE FALSE
  BY <1>20, <1>k DEF FanFile, PresenceKept
<1>21. CASE FannedOut
  BY <1>21, <1>k, <1>t DEF FannedOut, Goto, PresenceKept
<1>22. ASSUME NEW p \in Procs, NEW c \in Clients, FanOnline(p, c) PROVE FALSE
  BY <1>22, <1>k DEF FanOnline, PresenceKept
<1>23. ASSUME NEW p \in Procs, OnlineFannedOut(p) PROVE FALSE
  <2>1. CASE p = "manager"
    BY <1>23, <2>1, <1>k, <1>t DEF OnlineFannedOut, Goto, PresenceKept
  <2>2. CASE p = "ticker"
    <3>1. /\ UNCHANGED <<clients, onlineUsers, life, cur>>
          /\ pc' = [pc EXCEPT !["ticker"] = "wait"]
      BY <1>23, <2>2 DEF OnlineFannedOut, Goto
    <3> QED
      BY <3>1, <1>k, <1>t DEF PresenceKept
  <2> QED
    BY <2>1, <2>2 DEF Procs
<1>24. CASE Tick
  BY <1>24, <1>k, <1>t DEF Tick, Goto, PresenceKept
<1>25. CASE LockClients
  BY <1>25, <1>k, <1>t DEF LockClients, Goto, PresenceKept
<1>26. CASE UNCHANGED vars
  BY <1>26, <1>k DEF vars, PresenceKept
<1>27. CASE AddClient
  <2>0. /\ UNCHANGED <<onlineUsers, cur, life>>
        /\ clients' = clients \union {cur}
        /\ pc["manager"] = "addClient" /\ pc'["manager"] = "addOnline"
    BY <1>27, <1>t DEF AddClient, Goto, Procs
  <2> USE <2>0 DEF PresenceInv
  <2>1. EntryOfUser'
    BY DEF EntryOfUser
  <2>2. NoGhostOnline'
    BY DEF NoGhostOnline
  <2>3. SingleTabMirrored'
    <3> SUFFICES ASSUME NEW c \in Clients, SingleTab(c)'
                 PROVE  \/ onlineUsers'[Username[c]] # None <=> c \in clients'
                        \/ cur' = c /\ pc'["manager"] = "addOnline"
      BY DEF SingleTabMirrored
    <3>1. SingleTab(c)
      BY DEF SingleTab
    <3>2. onlineUsers[Username[c]] # None <=> c \in clients
      BY <3>1 DEF SingleTabMirrored
    <3> QED
      BY <3>2
  <2>4. RegisteredShown'
    BY DEF RegisteredShown, OtherTabLeft
  <2> QED
    BY <2>1, <2>2, <2>3, <2>4
<1>28. CASE AddOnline
  <2> USE <1>28, <1>t DEF LockInv, ControlTypeOK, PresenceInv, AddOnline,
             FanOutOnline, Goto
  <2>1. EntryOfUser'
    BY DEF EntryOfUser, AddingFits
  <2>2. NoGhostOnline'
    BY DEF NoGhostOnline, EntryOfUser, AddingFits, DroppingFits
  <2>3. SingleTabMirrored'
    BY DEF SingleTabMirrored, SingleTab, AddingFits, DroppingFits
  <2>4. RegisteredShown'
    BY DEF RegisteredShown, OtherTabLeft, AddingFits
  <2> QED
    BY <2>1, <2>2, <2>3, <2>4
<1>29. CASE DropClient
  <2>0. /\ UNCHANGED <<onlineUsers, cur, life>>
        /\ \A c : c \in clients' <=> c \in clients /\ c # cur
        /\ pc["manager"] = "dropClient" /\ pc'["manager"] = "dropOnline"
    BY <1>29, <1>t DEF DropClient, Goto, Procs
  <2> USE <2>0 DEF PresenceInv
  <2>1. EntryOfUser'
    BY DEF EntryOfUser
  <2>2. NoGhostOnline'
    <3> SUFFICES ASSUME NEW u \in Users, onlineUsers[u] # None
                 PROVE  onlineUsers[u] \in clients' \/ Username[cur] = u
      BY DEF NoGhostOnline
    <3>1. onlineUsers[u] \in clients
      BY DEF NoGhostOnline
    <3>2. Username[onlineUsers[u]] = u
      BY DEF EntryOfUser
    <3> QED
      BY <3>1, <3>2
  <2>3. SingleTabMirrored'
    <3> SUFFICES ASSUME NEW c \in Clients, SingleTab(c)'
                 PROVE  \/ onlineUsers'[Username[c]] # None <=> c \in clients'
                        \/ cur' = c /\ pc'["manager"] = "dropOnline"
      BY DEF SingleTabMirrored
    <3>1. SingleTab(c)
      BY DEF SingleTab
    <3>2. onlineUsers[Username[c]] # None <=> c \in clients
      BY <3>1 DEF SingleTabMirrored
    <3> QED
      BY <3>2
  <2>4. RegisteredShown'
    BY DEF RegisteredShown, OtherTabLeft
  <2> QED
    BY <2>1, <2>2, <2>3, <2>4
<1>30. CASE DropOnline
  <2> USE <1>30, <1>t DEF LockInv, ControlTypeOK, PresenceInv, DropOnline,
             FanOutOnline, Goto
  <2>1. EntryOfUser'
    BY DEF EntryOfUser, AddingFits
  <2>2. NoGhostOnline'
    BY DEF NoGhostOnline, EntryOfUser, AddingFits, DroppingFits
  <2>3. SingleTabMirrored'
    BY DEF SingleTabMirrored, SingleTab, AddingFits, DroppingFits
  <2>4. RegisteredShown'
    <3> SUFFICES ASSUME NEW c \in clients, onlineUsers'[Username[c]] = None
                 PROVE  OtherTabLeft(c)
      BY DEF RegisteredShown, OtherTabLeft
    <3>1. CASE Username[c] = Username[cur]
      BY <3>1 DEF OtherTabLeft, DroppingFits
    <3>2. CASE Username[c] # Username[cur]
      BY <3>2 DEF RegisteredShown
    <3> QED
      BY <3>1, <3>2
  <2> QED
    BY <2>1, <2>2, <2>3, <2>4
<1> QED
  BY <1>0, <1>1, <1>2, <1>3, <1>4, <1>5, <1>6, <1>7, <1>8, <1>9, <1>10, <1>11,
     <1>12, <1>13, <1>14, <1>15, <1>16, <1>17, <1>18, <1>19, <1>20, <1>21,
     <1>22, <1>23, <1>24, <1>25, <1>26, <1>27, <1>28, <1>29, <1>30
  DEF Next, Goroutines, Environment, Manager, Ticker, BroadcastOnline, Procs,
      WritePump, Halted

-----------------------------------------------------------------------------
(* The types of the channels.                                              *)

LEMMA TrySendType ==
  ASSUME NEW S, NEW ch \in [Clients -> Seq(S)], NEW c \in Clients, NEW cap,
         NEW v \in S
  PROVE  TrySend(ch, c, cap, v) \in [Clients -> Seq(S)]
BY DEF TrySend

\* WritePump takes the head of a channel that is not empty.
LEMMA TakeType ==
  ASSUME NEW S, NEW s \in Seq(S), s # <<>>
  PROVE  Head(s) \in S /\ Tail(s) \in Seq(S)
OBVIOUS

LEMMA ChannelInit == Init => ChannelTypeOK
BY CapacityAssumption DEF Init, ChannelTypeOK

LEMMA ChannelStep ==
  ControlTypeOK /\ ChannelTypeOK /\ [Next]_vars => ChannelTypeOK'
<1> SUFFICES ASSUME ControlTypeOK, ChannelTypeOK, [Next]_vars
             PROVE  ChannelTypeOK'
  OBVIOUS
<1> USE CapacityAssumption
    DEF ChannelTypeOK, Items, Kinds, managerVars, queueVars, channelVars,
        peerVars
<1>0. ASSUME NEW c \in Clients, DebugSendTestEvent(c) PROVE ChannelTypeOK'
  <2>1. /\ posted' \in Seq(Kinds) /\ Len(posted') = Len(posted) + 1
        /\ Len(posted') \in 0..MaxItems /\ Len(posted') <= MaxItems
    BY <1>0 DEF DebugSendTestEvent
  <2>2. sendFileEvent \in [Clients -> Seq(0..MaxItems)]
    OBVIOUS
  <2>3. TrySend(sendFileEvent, c, FileCap, Len(posted'))
          \in [Clients -> Seq(0..MaxItems)]
    BY <2>1, <2>2, TrySendType
  <2>4. sendFileEvent' \in [Clients -> Seq(0..MaxItems)]
    BY <1>0, <2>3 DEF DebugSendTestEvent
  <2>5. UNCHANGED <<broadcast, editMessage, fileEvents, log, item, send,
                     sendOnline, received, receivedFiles, shown>>
    BY <1>0 DEF DebugSendTestEvent
  <2> QED
    BY <2>1, <2>4, <2>5
<1>1. ASSUME NEW c \in Clients, Connect(c) PROVE ChannelTypeOK'
  BY <1>1 DEF Connect
<1>2. ASSUME NEW c \in Clients, StartPumps(c) PROVE ChannelTypeOK'
  BY <1>2 DEF StartPumps
<1>3. ASSUME NEW c \in Clients, PeerLost(c) PROVE ChannelTypeOK'
  BY <1>3 DEF PeerLost
<1>4. ASSUME NEW c \in Clients, ReadFails(c) PROVE ChannelTypeOK'
  BY <1>4 DEF ReadFails
<1>5. ASSUME NEW c \in Clients, CloseConn(c) PROVE ChannelTypeOK'
  BY <1>5 DEF CloseConn
<1>6. ASSUME NEW c \in Clients, WriterStops(c) PROVE ChannelTypeOK'
  BY <1>6 DEF WriterStops
<1>7. ASSUME NEW c \in Clients, ReceiveRegister(c) PROVE ChannelTypeOK'
  BY <1>7 DEF ReceiveRegister
<1>8. ASSUME NEW c \in Clients, ReceiveUnregister(c) PROVE ChannelTypeOK'
  BY <1>8 DEF ReceiveUnregister
<1>9. CASE AddClient
  BY <1>9 DEF AddClient, FanOutOnline
<1>10. CASE AddOnline
  BY <1>10 DEF AddOnline, FanOutOnline
<1>11. CASE DropClient
  BY <1>11 DEF DropClient, FanOutOnline
<1>12. CASE DropOnline
  BY <1>12 DEF DropOnline, FanOutOnline
<1>13. CASE FannedOut
  BY <1>13 DEF FannedOut, FanOutOnline
<1>14. CASE Tick
  BY <1>14 DEF Tick, FanOutOnline
<1>15. CASE LockClients
  BY <1>15 DEF LockClients, FanOutOnline
<1>16. ASSUME NEW p \in Procs, OnlineFannedOut(p) PROVE ChannelTypeOK'
  BY <1>16 DEF OnlineFannedOut
<1>17. ASSUME NEW c \in Clients, ReadChat(c) PROVE ChannelTypeOK'
  <2>1. /\ posted' \in Seq(Kinds) /\ Len(posted') = Len(posted) + 1
        /\ Len(posted') \in 1..MaxItems /\ Len(posted') <= MaxItems
    BY <1>17 DEF ReadChat
  <2>2. broadcast' \in Seq(Items)
    BY <1>17, <2>1 DEF ReadChat
  <2>3. UNCHANGED <<editMessage, fileEvents, log, item, channelVars, peerVars>>
    BY <1>17 DEF ReadChat
  <2> QED
    BY <2>1, <2>2, <2>3
<1>18. ASSUME NEW c \in Clients, ReadEdit(c) PROVE ChannelTypeOK'
  <2>1. /\ posted' \in Seq(Kinds) /\ Len(posted') = Len(posted) + 1
        /\ Len(posted') \in 1..MaxItems /\ Len(posted') <= MaxItems
    BY <1>18 DEF ReadEdit
  <2>2. editMessage' \in Seq(Items)
    BY <1>18, <2>1 DEF ReadEdit
  <2>3. UNCHANGED <<broadcast, fileEvents, log, item, channelVars, peerVars>>
    BY <1>18 DEF ReadEdit
  <2> QED
    BY <2>1, <2>2, <2>3
<1>19. CASE PostFileEvent
  <2>1. /\ posted' \in Seq(Kinds) /\ Len(posted') = Len(posted) + 1
        /\ Len(posted') \in 1..MaxItems /\ Len(posted') <= MaxItems
    BY <1>19 DEF PostFileEvent
  <2>2. fileEvents' \in Seq(Items)
    BY <1>19, <2>1 DEF PostFileEvent
  <2> QED
    BY <1>19, <2>1, <2>2 DEF PostFileEvent
<1>20. CASE ReceiveBroadcast
  <2>1. Head(broadcast) \in Items /\ broadcast' \in Seq(Items)
    BY <1>20, TakeType DEF ReceiveBroadcast
  <2>2. item' \in 0..MaxItems /\ log' \in Seq(Items)
    BY <1>20, <2>1 DEF ReceiveBroadcast, FanOutItem
  <2> QED
    BY <1>20, <2>1, <2>2 DEF ReceiveBroadcast
<1>21. CASE ReceiveEdit
  <2>1. Head(editMessage) \in Items /\ editMessage' \in Seq(Items)
    BY <1>21, TakeType DEF ReceiveEdit
  <2>2. item' \in 0..MaxItems /\ log' \in Seq(Items)
    <3>1. \/ item' = Head(editMessage) /\ log' = Append(log, Head(editMessage))
          \/ item' = item /\ log' = log
      BY <1>21 DEF ReceiveEdit, FanOutItem
    <3>2. item \in 0..MaxItems /\ log \in Seq(Items)
      OBVIOUS
    <3>3. Head(editMessage) \in 0..MaxItems
      BY <2>1
    <3>4. Append(log, Head(editMessage)) \in Seq(Items)
      BY <2>1, <3>2
    <3> QED
      BY <3>1, <3>2, <3>3, <3>4
  <2> QED
    BY <1>21, <2>1, <2>2 DEF ReceiveEdit
<1>22. CASE ReceiveFileEvent
  <2>1. Head(fileEvents) \in Items /\ fileEvents' \in Seq(Items)
    BY <1>22, TakeType DEF ReceiveFileEvent
  <2>2. item' \in 0..MaxItems /\ log' \in Seq(Items)
    BY <1>22, <2>1 DEF ReceiveFileEvent, FanOutItem
  <2> QED
    BY <1>22, <2>1, <2>2 DEF ReceiveFileEvent
<1>23. ASSUME NEW c \in Clients, FanMessage(c) PROVE ChannelTypeOK'
  <2>0. TrySend(send, c, SendCap, item) \in [Clients -> Seq(0..MaxItems)]
    <3>1. item \in 0..MaxItems /\ send \in [Clients -> Seq(0..MaxItems)]
      BY CapacityAssumption
    <3> QED
      BY <3>1, TrySendType
  <2>1. send' \in [Clients -> Seq(0..MaxItems)]
    BY <1>23, <2>0 DEF FanMessage
  <2> QED
    BY <1>23, <2>1 DEF FanMessage
<1>24. ASSUME NEW c \in Clients, FanFile(c) PROVE ChannelTypeOK'
  <2>0. TrySend(sendFileEvent, c, FileCap, item) \in [Clients -> Seq(0..MaxItems)]
    <3>1. item \in 0..MaxItems /\ sendFileEvent \in [Clients -> Seq(0..MaxItems)]
      BY CapacityAssumption
    <3> QED
      BY <3>1, TrySendType
  <2>1. sendFileEvent' \in [Clients -> Seq(0..MaxItems)]
    BY <1>24, <2>0 DEF FanFile
  <2> QED
    BY <1>24, <2>1 DEF FanFile
<1>25. ASSUME NEW c \in Clients, ReplayMessage(c) PROVE ChannelTypeOK'
  <2>0. TrySend(send, c, SendCap, 0) \in [Clients -> Seq(0..MaxItems)]
    <3>1. 0 \in 0..MaxItems /\ send \in [Clients -> Seq(0..MaxItems)]
      BY CapacityAssumption
    <3> QED
      BY <3>1, TrySendType
  <2>1. send' \in [Clients -> Seq(0..MaxItems)]
    BY <1>25, <2>0 DEF ReplayMessage
  <2> QED
    BY <1>25, <2>1 DEF ReplayMessage
<1>26. ASSUME NEW p \in Procs, NEW c \in Clients, FanOnline(p, c)
      PROVE  ChannelTypeOK'
  <2>1. users[p] \in SUBSET Users
    BY DEF ControlTypeOK
  <2>0. TrySend(sendOnline, c, OnlineCap, users[p])
          \in [Clients -> Seq(SUBSET Users)]
    <3>1. sendOnline \in [Clients -> Seq(SUBSET Users)]
      OBVIOUS
    <3> QED
      BY <2>1, <3>1, TrySendType
  <2>2. sendOnline' \in [Clients -> Seq(SUBSET Users)]
    BY <1>26, <2>0 DEF FanOnline
  <2> QED
    BY <1>26, <2>2 DEF FanOnline
<1>27. ASSUME NEW c \in Clients, WriteMessage(c) PROVE ChannelTypeOK'
  <2>1. Head(send[c]) \in 0..MaxItems /\ Tail(send[c]) \in Seq(0..MaxItems)
    BY <1>27, TakeType DEF WriteMessage
  <2>2. send' \in [Clients -> Seq(0..MaxItems)]
    BY <1>27, <2>1 DEF WriteMessage
  <2>3. received' \in [Clients -> Seq(0..MaxItems)]
    BY <1>27, <2>1 DEF WriteMessage
  <2> QED
    BY <1>27, <2>2, <2>3 DEF WriteMessage
<1>28. ASSUME NEW c \in Clients, WriteFileEvent(c) PROVE ChannelTypeOK'
  <2>1. Head(sendFileEvent[c]) \in 0..MaxItems /\ Tail(sendFileEvent[c]) \in Seq(0..MaxItems)
    BY <1>28, TakeType DEF WriteFileEvent
  <2>2. sendFileEvent' \in [Clients -> Seq(0..MaxItems)]
    BY <1>28, <2>1 DEF WriteFileEvent
  <2>3. receivedFiles' \in [Clients -> Seq(0..MaxItems)]
    BY <1>28, <2>1 DEF WriteFileEvent
  <2> QED
    BY <1>28, <2>2, <2>3 DEF WriteFileEvent
<1>29. ASSUME NEW c \in Clients, WriteOnline(c) PROVE ChannelTypeOK'
  <2>1. /\ Head(sendOnline[c]) \in SUBSET Users
        /\ Tail(sendOnline[c]) \in Seq(SUBSET Users)
    BY <1>29, TakeType DEF WriteOnline
  <2>2. sendOnline' \in [Clients -> Seq(SUBSET Users)]
    BY <1>29, <2>1 DEF WriteOnline
  <2>3. shown' \in [Clients -> SUBSET Users]
    BY <1>29, <2>1 DEF WriteOnline
  <2> QED
    BY <1>29, <2>2, <2>3 DEF WriteOnline
<1>30. CASE UNCHANGED vars
  BY <1>30 DEF vars
<1> QED
  BY <1>0, <1>1, <1>2, <1>3, <1>4, <1>5, <1>6, <1>7, <1>8, <1>9, <1>10, <1>11,
     <1>12, <1>13, <1>14, <1>15, <1>16, <1>17, <1>18, <1>19, <1>20, <1>21,
     <1>22, <1>23, <1>24, <1>25, <1>26, <1>27, <1>28, <1>29, <1>30
  DEF Next, Goroutines, Environment, Manager, Ticker, BroadcastOnline, Procs,
      WritePump, Halted

-----------------------------------------------------------------------------
(* The theorems.                                                           *)

\* The invariant of the two locks and of the presence map, for any number of
\* connections and users.
THEOREM HubInvariant == Spec => [](LockInv /\ PresenceInv)
<1>1. Init => LockInv /\ PresenceInv
  BY LockInvInit, PresenceInit
<1>2. LockInv /\ PresenceInv /\ [Next]_vars => (LockInv /\ PresenceInv)'
  BY LockInvStep, PresenceStep
<1> QED
  BY <1>1, <1>2, PTL DEF Spec

\* Every variable has its type.
THEOREM HubTypes == Spec => []TypeOK
<1>1. Init => ChannelTypeOK
  BY ChannelInit
<1>2. LockInv /\ ChannelTypeOK /\ [Next]_vars => ChannelTypeOK'
  BY ChannelStep DEF LockInv
<1>3. LockInv => ControlTypeOK
  BY DEF LockInv
<1> QED
  BY <1>1, <1>2, <1>3, HubInvariant, PTL DEF Spec, TypeOK

\* A fan-out never sends on a closed channel and Unregister never closes one
\* twice (broadcastToLocalClients, broadcastOnlineUsers, Run).
THEOREM FanOutIsSafe == Spec => []NoFanOutPanic
<1>1. LockInv => NoFanOutPanic
  BY DEF LockInv
<1> QED
  BY <1>1, HubInvariant, PTL

\* ... because whoever ranges over Clients has only open channels ahead.
THEOREM RangeStaysOpen == Spec => []RangeIsOpen
<1>1. LockInv => RangeIsOpen
  BY DEF LockInv, RangeHoldsLock, RegisteredOpen, RangeIsOpen
<1> QED
  BY <1>1, HubInvariant, PTL

\* The read lock is held inside a range over Clients and nowhere else: the
\* manager that asks for ClientsMu.Lock never waits for its own read lock
\* (Run, broadcastToLocalClients, broadcastOnlineUsers).
THEOREM ReadLockInRange == Spec => []LockOnlyInRange
<1>1. LockInv => LockOnlyInRange
  BY DEF LockInv, RangeHoldsLock
<1> QED
  BY <1>1, HubInvariant, PTL

\* OnlineUsers keeps no entry for a client that has unregistered.
THEOREM NoGhosts == Spec => []NoGhostOnline
<1>1. PresenceInv => NoGhostOnline
  BY DEF PresenceInv
<1> QED
  BY <1>1, HubInvariant, PTL

\* A user with one connection is online exactly while it is registered.
THEOREM SingleTabIsExact == Spec => []SingleTabPresence
<1>1. PresenceInv => SingleTabPresence
  BY DEF PresenceInv, SingleTabMirrored, SingleTab, SingleTabPresence
<1> QED
  BY <1>1, HubInvariant, PTL

\* A user with a registered connection is left out of OnlineUsers only once
\* another connection of that user has been unregistered.
THEOREM OfflineNeedsOtherTab == Spec => []OfflineByOtherTab
<1>1. PresenceInv => OfflineByOtherTab
  BY DEF PresenceInv, RegisteredShown, OtherTabLeft, OfflineByOtherTab
<1> QED
  BY <1>1, HubInvariant, PTL
=============================================================================
