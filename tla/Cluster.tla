------------------------------- MODULE Cluster -------------------------------
(***************************************************************************)
(* The Redis side of a cluster: the registry of servers and the exchange   *)
(* of messages between them, in processes that end together.  main calls   *)
(* Register, with its two calls, before it starts the manager, whether it  *)
(* has failed or not; from then on the heartbeat, the manager, the         *)
(* subscriber and the decoder of a server run side by side.                *)
(***************************************************************************)
EXTENDS ServerRegistry, Sequences

CONSTANTS
  RedisCap,   \* cap(Manager.RedisMsgCh)  (100)
  MaxItems    \* bound: messages and file events posted in a run

ASSUME ClusterAssumption == RedisCap \in Nat /\ MaxItems \in Nat

VARIABLES running, posted, linked, pipe, inbox, shown, handled

relayVars == <<running, posted, linked, pipe, inbox, shown, handled>>

clusterVars == <<vars, relayVars>>

Exchange == INSTANCE Relay

-----------------------------------------------------------------------------
ClusterInit == Init /\ Exchange!Init

\* go wsManager.Run(ctx), once Register has returned.
Run(s) ==
  /\ reg[s] \in {"beating", "beatExpire", "failed"}
  /\ Exchange!Start(s)
  /\ UNCHANGED vars

\* The process ends, with its manager if that runs already.
Stop(s) ==
  /\ Crash(s)
  /\ IF s \in running THEN Exchange!Crash(s) ELSE UNCHANGED relayVars

Registry ==
  /\ Pass \/ \E s \in Servers : Start(s) \/ Goroutine(s)
  /\ UNCHANGED relayVars

Relayed ==
  /\ \E s \in Servers : Exchange!Work(s)
  /\ UNCHANGED <<up, key, reg, due, tick, beat, half>>

ClusterNext ==
  Registry \/ Relayed \/ \E s \in Servers : Run(s) \/ Stop(s)

ClusterSpec == ClusterInit /\ [][ClusterNext]_clusterVars

-----------------------------------------------------------------------------
ClusterTypeOK == TypeOK /\ Exchange!TypeOK /\ running \subseteq up

NothingForged == Exchange!NothingForged
=============================================================================
