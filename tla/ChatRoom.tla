------------------------------ MODULE ChatRoom ------------------------------
(***************************************************************************)
(* What the hub promises of chat messages and edits: an ordered broadcast  *)
(* to the clients who are in the room.  Every item gets one place in the   *)
(* log of the room.  Every member is served every item said while it is in *)
(* the room before the next is said, and misses one only because its queue *)
(* is full then, or because its line is down when the item is sent.  It    *)
(* hears those it gets in the order of the log, none twice, and none from  *)
(* before it joined except as history.  Module Hub implements this with    *)
(* goroutines, locks and bounded channels.                                 *)
(*                                                                         *)
(* As in Hub, X_Y is X with a fault Y, and no specification uses it.       *)
(***************************************************************************)
EXTENDS Integers, Sequences

CONSTANTS
  Clients,   \* those who may join
  Items,     \* messages and edits
  Stored,    \* any message that is replayed from the history, none of Items
  Cap        \* what the queue of a client holds

VARIABLES
  log,       \* the items said so far, in order
  members,   \* who is in the room
  told,      \* how far in the log each member has been served
  queue,     \* what each client is still to hear
  heard,     \* what each client has heard
  line       \* whether the line to each client is up

vars == <<log, members, told, queue, heard, line>>

Init ==
  /\ log = <<>>
  /\ members = {}
  /\ told = [c \in Clients |-> 0]
  /\ queue = [c \in Clients |-> <<>>]
  /\ heard = [c \in Clients |-> <<>>]
  /\ line = [c \in Clients |-> "down"]

\* A client dials before it joins.
Dial(c) ==
  /\ c \notin members
  /\ line' = [line EXCEPT ![c] = "up"]
  /\ UNCHANGED <<log, members, told, queue, heard>>

\* Or the network does it.
HangUp(c) ==
  /\ line' = [line EXCEPT ![c] = "down"]
  /\ UNCHANGED <<log, members, told, queue, heard>>

Join(c) ==
  /\ c \notin members
  /\ members' = members \union {c}
  /\ told' = [told EXCEPT ![c] = Len(log)]
  /\ UNCHANGED <<log, queue, heard, line>>

\* What is queued for a client who leaves may still reach it.
Leave(c) ==
  /\ c \in members
  /\ members' = members \ {c}
  /\ told' = [told EXCEPT ![c] = 0]
  /\ UNCHANGED <<log, queue, heard, line>>

\* One item at a time: the last one has been offered to every member.
Say(n) ==
  /\ \A i \in 1..Len(log) : log[i] # n
  /\ \A c \in members : told[c] = Len(log)
  /\ log' = Append(log, n)
  /\ UNCHANGED <<members, told, queue, heard, line>>

\* What the queue of c is with n in it, if there is room.
Offered(c, n) ==
  IF Len(queue[c]) < Cap THEN [queue EXCEPT ![c] = Append(@, n)] ELSE queue

\* A member is offered the newest item.
Tell(c) ==
  /\ c \in members /\ told[c] < Len(log)
  /\ told' = [told EXCEPT ![c] = Len(log)]
  /\ queue' = Offered(c, log[Len(log)])
  /\ UNCHANGED <<log, members, heard, line>>

Replay(c) ==
  /\ c \in members
  /\ queue' = Offered(c, Stored)
  /\ UNCHANGED <<log, members, told, heard, line>>

Hear(c) ==
  /\ queue[c] # <<>> /\ line[c] = "up"
  /\ queue' = [queue EXCEPT ![c] = Tail(@)]
  /\ heard' = [heard EXCEPT ![c] = Append(@, Head(queue[c]))]
  /\ UNCHANGED <<log, members, told, line>>

\* What is sent on a line that is down is lost.
Lose(c) ==
  /\ queue[c] # <<>> /\ line[c] = "down"
  /\ queue' = [queue EXCEPT ![c] = Tail(@)]
  /\ UNCHANGED <<log, members, told, heard, line>>

Serve(c) == Tell(c) \/ Replay(c) \/ Hear(c) \/ Lose(c)

Next ==
  \/ \E n \in Items : Say(n)
  \/ \E c \in Clients : \/ Dial(c) \/ HangUp(c) \/ Join(c) \/ Leave(c)
                        \/ Serve(c)

Spec == Init /\ [][Next]_vars

-----------------------------------------------------------------------------
\* All that c has got or will get.
Stream(c) == heard[c] \o queue[c]

\* a comes before b in s.
Before(s, a, b) ==
  \E i, j \in 1..Len(s) : i < j /\ s[i] = a /\ s[j] = b

\* Any two clients get the items they both get in one order, and none of
\* them twice.
AgreedOrder ==
  \A c, d \in Clients, a, b \in Items :
    Before(Stream(c), a, b) => ~Before(Stream(d), b, a)
=============================================================================
