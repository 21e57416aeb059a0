-------------------------------- MODULE Relay --------------------------------
(***************************************************************************)
(* The exchange of messages and file events between servers over Redis     *)
(* Pub/Sub (internal/websocket/manager.go): the manager publishes what it  *)
(* takes from Broadcast or FileEvents and then fans it out to the clients  *)
(* of its own server; a goroutine receives from Redis into RedisMsgCh, and *)
(* another decodes from there.  Redis keeps nothing for a server that is   *)
(* not connected, and a connection that breaks takes along what it has not *)
(* delivered.  Edits and online lists are not published.                   *)
(*                                                                         *)
(* An item is the index of its record in `posted`.  Fanning out to the     *)
(* clients of a server is one step here: module Hub has its steps.         *)
(*                                                                         *)
(* A definition named X_Y is X with a fault Y a programmer could make: a   *)
(* property must fail once X is replaced by it.                            *)
(***************************************************************************)
EXTENDS Integers, Sequences

CONSTANTS
  Servers,    \* the values of -server-id
  RedisCap,   \* cap(Manager.RedisMsgCh)  (100)
  MaxItems,   \* bound: messages and file events posted in a run
  MaxFaults   \* bound: crashes, broken connections and failed calls in a run

VARIABLES
  running,  \* servers whose manager runs
  posted,   \* every item so far: the server it came to and its kind
  linked,   \* servers with a subscribed connection to Redis
  pipe,     \* what Redis has sent down that connection
  inbox,    \* Manager.RedisMsgCh
  shown,    \* <<item, kind>> fanned out to a server's clients, as that kind
  handled,  \* history: items processRedisMessages has taken
  faults    \* crashes, broken connections and failed calls so far

vars == <<running, posted, linked, pipe, inbox, shown, handled,
          faults>>

-----------------------------------------------------------------------------
Kinds == {"chat", "file"}

Init ==
  /\ running = {} /\ faults = 0
  /\ posted = <<>>
  /\ linked = {}
  /\ pipe  = [s \in Servers |-> <<>>]
  /\ inbox = [s \in Servers |-> <<>>]
  /\ shown = [s \in Servers |-> {}]
  /\ handled = [s \in Servers |-> {}]

Fails == faults < MaxFaults /\ faults' = faults + 1

\* Run: subscribeToRedis, then the manager's loop.
Start(s) ==
  /\ s \notin running /\ running' = running \union {s}
  /\ linked' = linked \union {s}
  /\ UNCHANGED <<posted, pipe, inbox, shown, handled, faults>>

Crash(s) ==
  /\ s \in running /\ Fails
  /\ running' = running \ {s} /\ linked' = linked \ {s}
  /\ pipe' = [pipe EXCEPT ![s] = <<>>]
  /\ inbox' = [inbox EXCEPT ![s] = <<>>]
  /\ UNCHANGED <<posted, shown, handled>>

-----------------------------------------------------------------------------
(* The manager: publishToRedis or publishFileEventToRedis, whose errors    *)
(* are only logged (Redis may have taken the item all the same), then      *)
(* broadcastToLocalClients or its like for files.  The two are one step:   *)
(* what is lost between them is lost with the server and its clients.      *)

Publish(s, kind) ==
  LET n == Len(posted) + 1
      sent == [t \in Servers |-> IF t \in linked THEN Append(pipe[t], n)
                                                 ELSE pipe[t]]
  IN /\ s \in running /\ n <= MaxItems
     /\ posted' = Append(posted, [server |-> s, kind |-> kind])
     /\ \/ pipe' = sent /\ UNCHANGED faults
        \/ Fails /\ pipe' \in {pipe, sent}
     /\ shown' = [shown EXCEPT ![s] = @ \union {<<n, kind>>}]
     /\ UNCHANGED <<running, linked, inbox, handled>>

-----------------------------------------------------------------------------
(* subscribeToRedis                                                        *)

\* The connection breaks; a payload the goroutine has in hand it keeps.
Break(s) ==
  /\ s \in linked /\ Fails
  /\ linked' = linked \ {s}
  /\ \E n \in {0, 1} : /\ n <= Len(pipe[s])
                       /\ pipe' = [pipe EXCEPT ![s] = SubSeq(@, 1, n)]
  /\ UNCHANGED <<running, posted, inbox, shown, handled>>

\* After an error and a second, ReceiveMessage connects and subscribes anew.
Resubscribe(s) ==
  /\ s \in running \ linked /\ pipe[s] = <<>>
  /\ linked' = linked \union {s}
  /\ UNCHANGED <<running, posted, pipe, inbox, shown, handled, faults>>

\* Puts what it has got in a list without end.
Receive_Unbounded(s) ==
  /\ pipe[s] # <<>>
  /\ inbox' = [inbox EXCEPT ![s] = Append(@, Head(pipe[s]))]
  /\ pipe' = [pipe EXCEPT ![s] = Tail(@)]
  /\ UNCHANGED <<running, posted, linked, shown, handled, faults>>

\* The send to RedisMsgCh waits while the channel is full.
Receive(s) ==
  /\ pipe[s] # <<>> /\ Len(inbox[s]) < RedisCap
  /\ inbox' = [inbox EXCEPT ![s] = Append(@, Head(pipe[s]))]
  /\ pipe' = [pipe EXCEPT ![s] = Tail(@)]
  /\ UNCHANGED <<running, posted, linked, shown, handled, faults>>

-----------------------------------------------------------------------------
(* processRedisMessages                                                    *)

\* Puts the payload in the envelope as it is.
Envelope_Raw(payload) == "object"

\* The envelope's Data is a []byte, which json.Marshal writes as a string in
\* base64; the receiver keeps it as it came, in a json.RawMessage.
Envelope(payload) == "string"

\* What clients get.  A string decodes neither as a Message nor as a
\* FileEventData; any object decodes as a Message, which is tried first.
Decoded(data) == IF data = "object" THEN {"chat"} ELSE {}

\* What this server has published comes back to it and is left out.
Process(s) ==
  /\ inbox[s] # <<>>
  /\ LET n == Head(inbox[s])
         as == IF posted[n].server = s THEN {}
                                       ELSE Decoded(Envelope(posted[n].kind))
     IN /\ shown' = [shown EXCEPT ![s] = @ \union {<<n, k>> : k \in as}]
        /\ handled' = [handled EXCEPT ![s] = @ \union {n}]
  /\ inbox' = [inbox EXCEPT ![s] = Tail(@)]
  /\ UNCHANGED <<running, posted, linked, pipe, faults>>

\* One of the goroutines of a server goes on with what it has.
Serve(s) == Resubscribe(s) \/ Receive(s) \/ Process(s)

\* All that a server does while its manager runs.
Work(s) == (\E kind \in Kinds : Publish(s, kind)) \/ Break(s) \/ Serve(s)

Next == \E s \in Servers : Start(s) \/ Crash(s) \/ Work(s)

Spec == Init /\ [][Next]_vars

-----------------------------------------------------------------------------
(* Properties.                                                             *)

TypeOK ==
  /\ running \subseteq Servers /\ linked \subseteq running
  /\ posted \in Seq([server : Servers, kind : Kinds]) /\ Len(posted) <= MaxItems
  /\ \A s \in Servers :
       /\ pipe[s] \in Seq(1..Len(posted))
       /\ inbox[s] \in Seq(1..Len(posted)) /\ Len(inbox[s]) <= RedisCap
       /\ shown[s] \subseteq (1..Len(posted)) \X Kinds
       /\ handled[s] \subseteq 1..Len(posted)
  /\ faults \in 0..MaxFaults

\* Whatever crosses between servers, no client gets a file event as a chat
\* message: what is shown is of the kind that was posted.
NothingForged ==
  \A s \in Servers : \A item \in shown[s] : posted[item[1]].kind = item[2]

\* What README.md says: "Events received from another `serverID` are
\* broadcast to local clients".
ForeignEventsReachLocals ==
  \A s \in Servers : \A n \in handled[s] :
    posted[n].server # s => \E k \in Kinds : <<n, k>> \in shown[s]
=============================================================================
