------------------------------- MODULE Gauges -------------------------------
(***************************************************************************)
(* The two Prometheus gauges of the WebSocket hub, ActiveConnections and   *)
(* OnlineUsers.  The manager goroutine moves one by increments and sets    *)
(* the other to a count it took under the lock; the ticker goroutine sets  *)
(* both to counts it has read a step earlier, one of them without a lock.  *)
(* Channels and fan-outs are in module Hub; here a connection slot may     *)
(* come and go several times.                                              *)
(*                                                                         *)
(* A definition named X_Y is X with a fault Y a programmer could make: a   *)
(* property must fail once X is replaced by it.                            *)
(***************************************************************************)
EXTENDS Integers, FiniteSets

CONSTANTS
  Clients,     \* connections
  Users,       \* user names
  Username,    \* Client.Username
  MaxEvents    \* bound: times the manager receives from Register

ASSUME GaugesAssumption ==
  /\ IsFiniteSet(Clients) /\ IsFiniteSet(Users)
  /\ Username \in [Clients -> Users]
  /\ MaxEvents \in Nat

VARIABLES
  clients,            \* Manager.Clients
  online,             \* the keys of Manager.OnlineUsers
  activeConnections,  \* metrics.ActiveConnections
  onlineGauge,        \* metrics.OnlineUsers
  pc,                 \* where the manager and the ticker are
  cur,                \* the client the manager received, in a set
  count,              \* the length each of the two has read
  events              \* clients received from Register so far

vars == <<clients, online, activeConnections, onlineGauge, pc, cur, count,
          events>>

Procs == {"manager", "ticker"}
Goto(p, label) == pc' = [pc EXCEPT ![p] = label]
Read(p, n) == count' = [count EXCEPT ![p] = n]

\* Run first sets both gauges to zero.
Init ==
  /\ clients = {} /\ online = {} /\ cur = {} /\ events = 0
  /\ activeConnections = 0 /\ onlineGauge = 0
  /\ pc = [p \in Procs |-> IF p = "manager" THEN "select" ELSE "wait"]
  /\ count = [p \in Procs |-> 0]

-----------------------------------------------------------------------------
(* Manager.Run: Register.  The increment comes before the client is in the *)
(* map.                                                                    *)

ReceiveRegister(c) ==
  /\ pc["manager"] = "select" /\ c \notin clients /\ events < MaxEvents
  /\ activeConnections' = activeConnections + 1
  /\ cur' = {c} /\ events' = events + 1
  /\ Goto("manager", "addClient")
  /\ UNCHANGED <<clients, online, onlineGauge, count>>

AddClient ==
  /\ pc["manager"] = "addClient"
  /\ clients' = clients \union cur
  /\ Goto("manager", "addOnline")
  /\ UNCHANGED <<online, activeConnections, onlineGauge, cur, count, events>>

AddOnline ==
  /\ pc["manager"] = "addOnline"
  /\ online' = online \union {Username[c] : c \in cur}
  /\ Read("manager", Cardinality(online'))
  /\ Goto("manager", "setOnline")
  /\ UNCHANGED <<clients, activeConnections, onlineGauge, cur, events>>

(* Manager.Run: Unregister.  The decrement is made under ClientsMu.        *)

ReceiveUnregister(c) ==
  /\ pc["manager"] = "select" /\ c \in clients
  /\ cur' = {c}
  /\ Goto("manager", "dropClient")
  /\ UNCHANGED <<clients, online, activeConnections, onlineGauge, count,
                 events>>

DropClient ==
  /\ pc["manager"] = "dropClient"
  /\ clients' = clients \ cur
  /\ activeConnections' = activeConnections - 1
  /\ Goto("manager", "dropOnline")
  /\ UNCHANGED <<online, onlineGauge, cur, count, events>>

DropOnline ==
  /\ pc["manager"] = "dropOnline"
  /\ online' = online \ {Username[c] : c \in cur}
  /\ Read("manager", Cardinality(online'))
  /\ Goto("manager", "setOnline")
  /\ UNCHANGED <<clients, activeConnections, onlineGauge, cur, events>>

-----------------------------------------------------------------------------
(* metrics.OnlineUsers.Set, by either; the lock has been given back.       *)

SetOnline(p) ==
  /\ pc[p] = "setOnline"
  /\ onlineGauge' = count[p]
  /\ IF p = "manager" THEN Goto(p, "select") /\ cur' = {}
                      ELSE Goto(p, "readActive") /\ UNCHANGED cur
  /\ UNCHANGED <<clients, online, activeConnections, count, events>>

(* broadcastOnlineUsersPeriodically, after its fan-out.                    *)

ReadOnline ==
  /\ pc["ticker"] = "wait"
  /\ Read("ticker", Cardinality(online))
  /\ Goto("ticker", "setOnline")
  /\ UNCHANGED <<clients, online, activeConnections, onlineGauge, cur, events>>

\* Leaves one client out.
ReadActive_OneLess ==
  /\ pc["ticker"] = "readActive"
  /\ Read("ticker", Cardinality(clients) - 1)
  /\ Goto("ticker", "setActive")
  /\ UNCHANGED <<clients, online, activeConnections, onlineGauge, cur, events>>

\* len(m.Clients), read without the lock.
ReadActive ==
  /\ pc["ticker"] = "readActive"
  /\ Read("ticker", Cardinality(clients))
  /\ Goto("ticker", "setActive")
  /\ UNCHANGED <<clients, online, activeConnections, onlineGauge, cur, events>>

\* Adds to the gauge instead of setting it.
SetActive_Adds ==
  /\ pc["ticker"] = "setActive"
  /\ activeConnections' = IF activeConnections < Cardinality(Clients)
                          THEN activeConnections + count["ticker"]
                          ELSE activeConnections
  /\ Goto("ticker", "wait")
  /\ UNCHANGED <<clients, online, onlineGauge, cur, count, events>>

SetActive ==
  /\ pc["ticker"] = "setActive"
  /\ activeConnections' = count["ticker"]
  /\ Goto("ticker", "wait")
  /\ UNCHANGED <<clients, online, onlineGauge, cur, count, events>>

-----------------------------------------------------------------------------
Receive == \E c \in Clients : ReceiveRegister(c) \/ ReceiveUnregister(c)

Handle == \/ AddClient \/ AddOnline \/ DropClient \/ DropOnline
          \/ SetOnline("manager")

Ticker == ReadOnline \/ SetOnline("ticker") \/ ReadActive \/ SetActive

Next == Receive \/ Handle \/ Ticker

\* The manager finishes what it has received and the ticker keeps ticking.
Spec == Init /\ [][Next]_vars /\ WF_vars(Handle) /\ WF_vars(Ticker)

-----------------------------------------------------------------------------
TypeOK ==
  /\ clients \subseteq Clients /\ online \subseteq Users
  /\ activeConnections \in Int /\ onlineGauge \in Nat
  /\ pc \in [Procs -> {"select", "addClient", "addOnline", "dropClient",
                       "dropOnline", "setOnline", "wait", "readActive",
                       "setActive"}]
  /\ cur \subseteq Clients /\ count \in [Procs -> Nat]
  /\ events \in 0..MaxEvents

\* Whatever the two goroutines overwrite of each other's, once connections
\* stop coming and going both gauges end up at the size of their map.
GaugesConverge ==
  <>[](/\ activeConnections = Cardinality(clients)
       /\ onlineGauge = Cardinality(online))
=============================================================================
