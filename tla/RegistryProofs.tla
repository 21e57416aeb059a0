---------------------------- MODULE RegistryProofs ----------------------------
(***************************************************************************)
(* Proofs about ServerRegistry, for every set of servers and every TTL: a  *)
(* server whose heartbeat comes in time is listed, and a key without a TTL *)
(* is the trace of a server that stopped half way.  And about Cluster: the *)
(* same with the messages between servers, and what clients are shown of   *)
(* these.                                                                  *)
(***************************************************************************)
EXTENDS Cluster, SequenceTheorems, TLAPS

-----------------------------------------------------------------------------
(* The inductive invariant.                                                *)

\* Where a heartbeat and its ticker are, and what is left of the TTL: more
\* than the time to the next tick, which comes before the key is gone.
BeatInv ==
  \A s \in Servers :
    /\ s \notin up => reg[s] = "off"
    /\ reg[s] \in {"beating", "beatExpire"} <=> due[s] # 0
    /\ beat[s] = "set" => /\ reg[s] \in {"registerExpire", "beatExpire"}
                          /\ key[s] # 0 /\ s \notin tick
    /\ beat[s] = "whole" => /\ reg[s] = "beating" /\ key[s] # 0
                            /\ s \notin tick => key[s] > due[s]
    /\ s \in tick => due[s] # 0

IInv == TypeOK /\ BeatInv /\ NoExpiryIsHalf

\* A period is at least one unit and shorter than the TTL.
LEMMA PeriodInTTL == Period \in Nat /\ Period >= 1 /\ Period < TTL
  BY RegistryAssumption, SMT DEF Period

LEMMA InitInv == Init => IInv
  BY RegistryAssumption, PeriodInTTL, SMT
     DEF Init, IInv, TypeOK, BeatInv, NoExpiryIsHalf, NoExpiry

-----------------------------------------------------------------------------
(* One lemma for each step: it keeps the invariant.                        *)

LEMMA StartInv ==
  ASSUME IInv, NEW s \in Servers, Start(s)
  PROVE  IInv'
  BY RegistryAssumption, PeriodInTTL, SMT
     DEF Start, IInv, TypeOK, BeatInv, NoExpiryIsHalf, NoExpiry

LEMMA CrashInv ==
  ASSUME IInv, NEW s \in Servers, Crash(s)
  PROVE  IInv'
  BY RegistryAssumption, PeriodInTTL, SMT
     DEF Crash, Halved, IInv, TypeOK, BeatInv, NoExpiryIsHalf, NoExpiry

LEMMA RegisterHSetInv ==
  ASSUME IInv, NEW s \in Servers, RegisterHSet(s)
  PROVE  IInv'
  BY RegistryAssumption, PeriodInTTL, SMT
     DEF RegisterHSet, HSet, WithHSet, Fails, Halved, IInv, TypeOK, BeatInv,
         NoExpiryIsHalf, NoExpiry

LEMMA RegisterExpireInv ==
  ASSUME IInv, NEW s \in Servers, RegisterExpire(s)
  PROVE  IInv'
  BY RegistryAssumption, PeriodInTTL, SMT
     DEF RegisterExpire, Expire, WithExpire, Fails, Halved, IInv, TypeOK,
         BeatInv, NoExpiryIsHalf, NoExpiry

LEMMA BeatHSetInv ==
  ASSUME IInv, NEW s \in Servers, BeatHSet(s)
  PROVE  IInv'
  BY RegistryAssumption, PeriodInTTL, SMT
     DEF BeatHSet, HSet, WithHSet, Fails, Halved, IInv, TypeOK, BeatInv,
         NoExpiryIsHalf, NoExpiry

LEMMA BeatExpireInv ==
  ASSUME IInv, NEW s \in Servers, BeatExpire(s)
  PROVE  IInv'
  BY RegistryAssumption, PeriodInTTL, SMT
     DEF BeatExpire, Expire, WithExpire, Fails, Halved, IInv, TypeOK,
         BeatInv, NoExpiryIsHalf, NoExpiry

LEMMA PassInv ==
  ASSUME IInv, Pass
  PROVE  IInv'
  BY RegistryAssumption, PeriodInTTL, SMT
     DEF Pass, IInv, TypeOK, BeatInv, NoExpiryIsHalf, NoExpiry

\* The invariant of the registry: Spec keeps it.
THEOREM RegistryInvariant == Spec => []IInv
<1>1. Init => IInv
  BY InitInv
<1>2. IInv /\ [Next]_vars => IInv'
  <2> SUFFICES ASSUME IInv, [Next]_vars PROVE IInv'
    OBVIOUS
  <2>1. CASE Pass
    BY <2>1, PassInv
  <2>2. ASSUME NEW s \in Servers, Start(s) \/ Crash(s) \/ Goroutine(s)
        PROVE  IInv'
    BY <2>2, StartInv, CrashInv, RegisterHSetInv, RegisterExpireInv,
       BeatHSetInv, BeatExpireInv DEF Goroutine
  <2>3. CASE UNCHANGED vars
    BY <2>3, SMT DEF vars, IInv, TypeOK, BeatInv, NoExpiryIsHalf
  <2>4. QED
    BY <2>1, <2>2, <2>3 DEF Next
<1>3. QED
  BY <1>1, <1>2, PTL DEF Spec

\* server_registry.go:56-75: with the ticker at half the TTL, and the key made
\* anew by every heartbeat, a server whose heartbeat is in time is listed.
THEOREM BeatingListed == Spec => []BeatingIsListed
<1>1. IInv => BeatingIsListed
  BY DEF IInv, BeatInv, BeatingIsListed
<1>2. QED
  BY <1>1, RegistryInvariant, PTL

\* server_registry.go:40-47 and 69-70: a key without a TTL is left by no one
\* but a server that is, or was, stopped between HSET and EXPIRE.
THEOREM NoExpiryHalf == Spec => []NoExpiryIsHalf
<1>1. IInv => NoExpiryIsHalf
  BY DEF IInv
<1>2. QED
  BY <1>1, RegistryInvariant, PTL

-----------------------------------------------------------------------------
(* In a cluster, whose messages share Redis and its failures.              *)

LEMMA RelayedInv ==
  ASSUME IInv, Relayed
  PROVE  IInv'
<1>1. PICK s \in Servers : Exchange!Work(s)
  BY DEF Relayed
<1>2. faults' = faults \/ Exchange!Fails
  <2>1. CASE \E kind \in Exchange!Kinds : Exchange!Publish(s, kind)
    BY <2>1, Zenon DEF Exchange!Publish
  <2>2. CASE Exchange!Break(s)
    BY <2>2, Zenon DEF Exchange!Break
  <2>3. CASE Exchange!Serve(s)
    BY <2>3, Zenon
       DEF Exchange!Serve, Exchange!Resubscribe, Exchange!Receive, Exchange!Process
  <2>4. QED
    BY <1>1, <2>1, <2>2, <2>3, Zenon DEF Exchange!Work
<1>3. faults' \in 0..MaxFaults
  BY <1>2, RegistryAssumption, SMT DEF IInv, TypeOK, Exchange!Fails
<1>4. QED
  BY <1>3 DEF Relayed, IInv, TypeOK, BeatInv, NoExpiryIsHalf

LEMMA ClusterStepInv ==
  ASSUME IInv, [ClusterNext]_clusterVars
  PROVE  IInv'
<1>1. CASE Registry
  BY <1>1, PassInv, StartInv, RegisterHSetInv, RegisterExpireInv,
     BeatHSetInv, BeatExpireInv DEF Registry, Goroutine
<1>2. CASE Relayed
  BY <1>2, RelayedInv
<1>3. ASSUME NEW s \in Servers, Stop(s) PROVE IInv'
  BY <1>3, CrashInv DEF Stop
<1>4. ASSUME NEW s \in Servers, Run(s) PROVE IInv'
  BY <1>4 DEF Run, vars, IInv, TypeOK, BeatInv, NoExpiryIsHalf
<1>5. CASE UNCHANGED clusterVars
  BY <1>5 DEF clusterVars, vars, IInv, TypeOK, BeatInv, NoExpiryIsHalf
<1>6. QED
  BY <1>1, <1>2, <1>3, <1>4, <1>5 DEF ClusterNext

\* main.go:145-167: what the managers of a cluster do with Redis takes no
\* server whose heartbeat is in time off the list, and no TTL off a key.
THEOREM ClusterListed == ClusterSpec => [](BeatingIsListed /\ NoExpiryIsHalf)
<1>1. ClusterInit => IInv
  BY InitInv DEF ClusterInit
<1>2. IInv /\ [ClusterNext]_clusterVars => IInv'
  BY ClusterStepInv
<1>3. IInv => BeatingIsListed /\ NoExpiryIsHalf
  BY DEF IInv, BeatInv, BeatingIsListed
<1>4. QED
  BY <1>1, <1>2, <1>3, PTL DEF ClusterSpec

-----------------------------------------------------------------------------
(* What crosses between the servers of a cluster.                          *)

\* A manager runs in a process that runs; what waits for it, and what it has
\* taken, are items that were posted.
RelayInv ==
  /\ Exchange!TypeOK /\ running \subseteq up
  /\ pipe = [s \in Servers |-> pipe[s]] /\ inbox = [s \in Servers |-> inbox[s]]
  /\ shown = [s \in Servers |-> shown[s]]
  /\ handled = [s \in Servers |-> handled[s]]
  /\ Exchange!NothingForged

\* A function on 1..k is a sequence.
LEMMA FunctionIsList ==
  ASSUME NEW S, NEW k \in Nat, NEW q \in [1..k -> S]
  PROVE  q \in Seq(S)
BY SeqDef, Zenon

\* A list of items stays one when more are posted.
LEMMA MoreItems ==
  ASSUME NEW m \in Nat, NEW n \in Nat, m <= n, NEW q \in Seq(1..m)
  PROVE  q \in Seq(1..n)
<1>1. q \in [1..Len(q) -> 1..m] /\ Len(q) \in Nat
  BY LenProperties
<1>2. q \in [1..Len(q) -> 1..n]
  BY <1>1, SMT
<1> QED
  BY <1>1, <1>2, FunctionIsList

LEMMA RelayInit == ClusterInit => RelayInv
<1> SUFFICES ASSUME ClusterInit PROVE RelayInv
  OBVIOUS
<1>1. /\ faults \in 0..MaxFaults /\ running = {} /\ linked = {} /\ posted = <<>>
      /\ pipe  = [s \in Servers |-> <<>>] /\ inbox = [s \in Servers |-> <<>>]
      /\ shown = [s \in Servers |-> {}] /\ handled = [s \in Servers |-> {}]
  BY RegistryAssumption, SMT DEF ClusterInit, Init, Exchange!Init
<1>2. /\ <<>> \in Seq([server : Servers, kind : Exchange!Kinds])
      /\ <<>> \in Seq(1..Len(<<>>)) /\ Len(<<>>) = 0
  BY EmptySeq
<1>3. Exchange!TypeOK
  BY <1>1, <1>2, ClusterAssumption DEF Exchange!TypeOK
<1> QED
  BY <1>1, <1>3 DEF RelayInv, Exchange!NothingForged

\* Publish: the item gets the next index and is shown as what it is.
LEMMA PublishRelay ==
  ASSUME RelayInv, UNCHANGED up, faults' \in 0..MaxFaults,
         NEW s \in Servers, NEW kind \in Exchange!Kinds,
         Exchange!Publish(s, kind)
  PROVE  RelayInv'
<1> DEFINE n == Len(posted) + 1
           new == [server |-> s, kind |-> kind]
           sent == [t \in Servers |-> IF t \in linked THEN Append(pipe[t], n)
                                                      ELSE pipe[t]]
<1>1. /\ s \in running /\ n <= MaxItems /\ posted' = Append(posted, new)
      /\ pipe' \in {pipe, sent}
      /\ shown' = [shown EXCEPT ![s] = @ \union {<<n, kind>>}]
      /\ UNCHANGED <<running, linked, inbox, handled>>
  BY SMT DEF Exchange!Publish
<1>2. /\ posted \in Seq([server : Servers, kind : Exchange!Kinds])
      /\ Len(posted) \in Nat
      /\ \A t \in Servers : pipe[t] \in Seq(1..Len(posted))
  BY LenProperties DEF RelayInv, Exchange!TypeOK
<1>3. /\ posted' \in Seq([server : Servers, kind : Exchange!Kinds])
      /\ Len(posted') = n /\ posted'[n].kind = kind
      /\ \A i \in 1..Len(posted) : posted'[i] = posted[i]
  BY <1>1, <1>2, AppendProperties
<1>4. \A t \in Servers : pipe[t] \in Seq(1..n) /\ inbox[t] \in Seq(1..n)
  BY <1>2, MoreItems, SMT DEF RelayInv, Exchange!TypeOK
<1>5. \A t \in Servers : sent[t] \in Seq(1..n)
  BY <1>2, <1>4, AppendProperties, n \in 1..n
<1>6. \A t \in Servers : pipe'[t] \in Seq(1..n)
  BY <1>1, <1>4, <1>5
<1>7. pipe' = [t \in Servers |-> pipe'[t]]
  <2>1. sent = [t \in Servers |-> sent[t]]
    OBVIOUS
  <2> HIDE DEF sent
  <2> QED
    BY <1>1, <2>1 DEF RelayInv
<1>8. \A t \in Servers : shown'[t] \subseteq (1..n) \X Exchange!Kinds
  BY <1>1, <1>2, SMT DEF RelayInv, Exchange!TypeOK
<1>9. \A t \in Servers : handled'[t] \subseteq 1..n
  BY <1>1, <1>2, SMT DEF RelayInv, Exchange!TypeOK
<1>10. Exchange!TypeOK'
  BY <1>1, <1>3, <1>4, <1>6, <1>8, <1>9 DEF RelayInv, Exchange!TypeOK
<1>11. Exchange!NothingForged'
  <2> SUFFICES ASSUME NEW t \in Servers, NEW item \in shown'[t]
               PROVE  posted'[item[1]].kind = item[2]
    BY DEF Exchange!NothingForged
  <2>1. CASE item \in shown[t]
    <3>1. item[1] \in 1..Len(posted) /\ posted[item[1]].kind = item[2]
      BY <2>1 DEF RelayInv, Exchange!TypeOK, Exchange!NothingForged
    <3> QED
      BY <3>1, <1>3
  <2>2. CASE item = <<n, kind>>
    BY <2>2, <1>3
  <2> QED
    BY <1>1, <2>1, <2>2 DEF RelayInv
<1> QED
  BY <1>1, <1>7, <1>10, <1>11 DEF RelayInv

\* Break, Resubscribe, Receive and Process show nothing: what comes from
\* another server decodes as nothing.
LEMMA ServeRelay ==
  ASSUME RelayInv, UNCHANGED up, faults' \in 0..MaxFaults, NEW s \in Servers,
         Exchange!Break(s) \/ Exchange!Serve(s)
  PROVE  RelayInv'
<1> DEFINE Items == 1..Len(posted)
<1>1. /\ \A t \in Servers : /\ pipe[t] \in Seq(Items) /\ inbox[t] \in Seq(Items)
                            /\ handled[t] \subseteq Items
                            /\ Len(inbox[t]) <= RedisCap
      /\ pipe = [t \in Servers |-> pipe[t]]
      /\ inbox = [t \in Servers |-> inbox[t]]
      /\ shown = [t \in Servers |-> shown[t]]
      /\ handled = [t \in Servers |-> handled[t]]
  BY DEF RelayInv, Exchange!TypeOK
<1>2. /\ shown' = shown /\ UNCHANGED <<running, posted>>
      /\ linked' \subseteq running
      /\ \A t \in Servers : /\ pipe'[t] \in Seq(Items) /\ inbox'[t] \in Seq(Items)
                            /\ handled'[t] \subseteq Items
                            /\ Len(inbox'[t]) <= RedisCap
      /\ pipe' = [t \in Servers |-> pipe'[t]]
      /\ inbox' = [t \in Servers |-> inbox'[t]]
      /\ handled' = [t \in Servers |-> handled'[t]]
  <2>1. linked \subseteq running /\ s \in Servers
    BY DEF RelayInv, Exchange!TypeOK
  <2> HIDE DEF Items
  <2>2. CASE Exchange!Break(s)
    <3>1. PICK n \in {0, 1} : /\ n <= Len(pipe[s])
                              /\ pipe' = [pipe EXCEPT ![s] = SubSeq(@, 1, n)]
      BY <2>2 DEF Exchange!Break
    <3>2. SubSeq(pipe[s], 1, n) \in Seq(Items)
      BY <1>1, <3>1, SMT
    <3>3. /\ linked' = linked \ {s}
          /\ UNCHANGED <<running, posted, inbox, shown, handled>>
      BY <2>2 DEF Exchange!Break
    <3> QED
      BY <1>1, <2>1, <3>1, <3>2, <3>3
  <2>3. CASE Exchange!Resubscribe(s)
    BY <1>1, <2>1, <2>3 DEF Exchange!Resubscribe
  <2>4. CASE Exchange!Receive(s)
    <3>1. /\ pipe[s] # <<>> /\ Len(inbox[s]) < RedisCap
          /\ inbox' = [inbox EXCEPT ![s] = Append(@, Head(pipe[s]))]
          /\ pipe' = [pipe EXCEPT ![s] = Tail(@)]
          /\ UNCHANGED <<running, posted, linked, shown, handled>>
      BY <2>4 DEF Exchange!Receive
    <3>2. /\ Append(inbox[s], Head(pipe[s])) \in Seq(Items)
          /\ Len(Append(inbox[s], Head(pipe[s]))) <= RedisCap
          /\ Tail(pipe[s]) \in Seq(Items)
      BY <1>1, <3>1, ClusterAssumption, SMT
    <3> QED
      BY <1>1, <2>1, <3>1, <3>2
  <2>5. CASE Exchange!Process(s)
    <3> DEFINE n == Head(inbox[s])
               as == IF posted[n].server = s THEN {}
                     ELSE Exchange!Decoded(Exchange!Envelope(posted[n].kind))
    <3>1. /\ inbox[s] # <<>> /\ inbox' = [inbox EXCEPT ![s] = Tail(@)]
          /\ shown' = [shown EXCEPT ![s] = @ \union {<<n, k>> : k \in as}]
          /\ handled' = [handled EXCEPT ![s] = @ \union {n}]
          /\ UNCHANGED <<running, posted, linked, pipe>>
      BY <2>5 DEF Exchange!Process
    <3>2. as = {}
      BY DEF Exchange!Decoded, Exchange!Envelope
    <3>3. n \in Items /\ Tail(inbox[s]) \in Seq(Items)
          /\ Len(Tail(inbox[s])) <= RedisCap
      BY <1>1, <3>1, ClusterAssumption, SMT
    <3> HIDE DEF n, as
    <3>4. {<<n, k>> : k \in as} = {}
      BY <3>2
    <3>5. shown' = shown
      BY <1>1, <3>1, <3>4
    <3> QED
      BY <1>1, <2>1, <3>1, <3>3, <3>5
  <2> QED
    BY <2>2, <2>3, <2>4, <2>5 DEF Exchange!Serve
<1>3. Exchange!TypeOK'
  BY <1>2 DEF RelayInv, Exchange!TypeOK
<1> QED
  BY <1>2, <1>3 DEF RelayInv, Exchange!NothingForged

\* Start and Crash: a manager begins with its process and ends with it.
LEMMA RunRelay ==
  ASSUME RelayInv, IInv, NEW s \in Servers, Run(s)
  PROVE  RelayInv'
<1>1. s \in up
  BY SMT DEF Run, IInv, BeatInv
<1>2. /\ running' = running \union {s} /\ linked' = linked \union {s}
      /\ UNCHANGED <<posted, pipe, inbox, shown, handled, faults, up>>
  BY DEF Run, vars, Exchange!Start
<1>3. Exchange!TypeOK' /\ Exchange!NothingForged'
  BY <1>2 DEF RelayInv, Exchange!TypeOK, Exchange!NothingForged
<1> QED
  BY <1>1, <1>2, <1>3 DEF RelayInv

LEMMA StopRelay ==
  ASSUME RelayInv, faults' \in 0..MaxFaults, NEW s \in Servers, Stop(s)
  PROVE  RelayInv'
<1>1. up' = up \ {s}
  BY DEF Stop, Crash
<1>2. CASE s \in running
  <2>1. /\ running' = running \ {s} /\ linked' = linked \ {s}
        /\ pipe' = [pipe EXCEPT ![s] = <<>>]
        /\ inbox' = [inbox EXCEPT ![s] = <<>>]
        /\ UNCHANGED <<posted, shown, handled>>
    BY <1>2 DEF Stop, Exchange!Crash
  <2>2. <<>> \in Seq(1..Len(posted)) /\ Len(<<>>) <= RedisCap
    BY EmptySeq, ClusterAssumption
  <2>3. /\ pipe' = [t \in Servers |-> pipe'[t]]
        /\ inbox' = [t \in Servers |-> inbox'[t]]
        /\ \A t \in Servers : /\ pipe'[t] \in {pipe[t], <<>>}
                              /\ inbox'[t] \in {inbox[t], <<>>}
    BY <2>1 DEF RelayInv
  <2>4. Exchange!TypeOK'
    BY <2>1, <2>2, <2>3 DEF RelayInv, Exchange!TypeOK
  <2> QED
    BY <1>1, <2>1, <2>3, <2>4 DEF RelayInv, Exchange!NothingForged
<1>3. CASE s \notin running
  <2>1. UNCHANGED relayVars
    BY <1>3 DEF Stop
  <2> QED
    BY <1>1, <1>3, <2>1
       DEF relayVars, RelayInv, Exchange!TypeOK, Exchange!NothingForged
<1> QED
  BY <1>2, <1>3

\* The invariant of a cluster.
THEOREM ClusterInvariant == ClusterSpec => [](IInv /\ RelayInv)
<1>1. ClusterInit => IInv /\ RelayInv
  BY InitInv, RelayInit DEF ClusterInit
<1>2. IInv /\ RelayInv /\ [ClusterNext]_clusterVars => (IInv /\ RelayInv)'
  <2> SUFFICES ASSUME IInv, RelayInv, [ClusterNext]_clusterVars
               PROVE  (IInv /\ RelayInv)'
    OBVIOUS
  <2>1. IInv' /\ faults' \in 0..MaxFaults
    BY ClusterStepInv DEF IInv, TypeOK
  <2>2. CASE Registry
    <3>1. running \subseteq up'
      BY <2>2, SMT
         DEF Registry, Pass, Start, Goroutine, RegisterHSet, RegisterExpire,
             BeatHSet, BeatExpire, RelayInv
    <3> QED
      BY <2>1, <2>2, <3>1
         DEF Registry, relayVars, RelayInv, Exchange!TypeOK,
             Exchange!NothingForged
  <2>3. CASE Relayed
    <3>1. UNCHANGED up
      BY <2>3 DEF Relayed
    <3>2. PICK s \in Servers : Exchange!Work(s)
      BY <2>3 DEF Relayed
    <3> QED
      BY <2>1, <3>1, <3>2, PublishRelay, ServeRelay DEF Exchange!Work
  <2>4. ASSUME NEW s \in Servers, Run(s) PROVE RelayInv'
    BY <2>4, RunRelay
  <2>5. ASSUME NEW s \in Servers, Stop(s) PROVE RelayInv'
    BY <2>1, <2>5, StopRelay
  <2>6. CASE UNCHANGED clusterVars
    BY <2>1, <2>6 DEF clusterVars, vars, relayVars, RelayInv, Exchange!TypeOK,
                      Exchange!NothingForged
  <2> QED
    BY <2>1, <2>2, <2>3, <2>4, <2>5, <2>6 DEF ClusterNext
<1> QED
  BY <1>1, <1>2, PTL DEF ClusterSpec

\* Every variable of a cluster has its type, RedisMsgCh its bound, and only
\* the managers of processes that run are running and subscribed.
THEOREM ClusterTypes == ClusterSpec => []ClusterTypeOK
<1>1. IInv /\ RelayInv => ClusterTypeOK
  BY DEF IInv, RelayInv, ClusterTypeOK
<1> QED
  BY <1>1, ClusterInvariant, PTL

\* manager.go:485-594: whatever crosses between servers, is lost or comes back,
\* no client is shown a file event as a message, or a message as a file event.
THEOREM NoForgery == ClusterSpec => []NothingForged
<1>1. RelayInv => NothingForged
  BY DEF RelayInv, NothingForged
<1> QED
  BY <1>1, ClusterInvariant, PTL
=============================================================================
