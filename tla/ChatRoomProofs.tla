--------------------------- MODULE ChatRoomProofs ---------------------------
(***************************************************************************)
(* Why the members of a room agree on the order of what they hear: what a  *)
(* client has got lies in the log in the order it got it, and a member     *)
(* has got nothing from beyond the place it has been served to.            *)
(***************************************************************************)
EXTENDS ChatRoom, TLAPS

StoredIsNoItem == Stored \notin Items

Messages == Items \union {Stored}

RoomTypeOK ==
  /\ log \in Seq(Items)
  /\ members \subseteq Clients
  /\ told \in [Clients -> Nat]
  /\ queue \in [Clients -> Seq(Messages)]
  /\ heard \in [Clients -> Seq(Messages)]

\* Every item has one place in the log.
SaidOnce == \A i, j \in 1..Len(log) : log[i] = log[j] => i = j

\* c has been served everything it has got.
Served(c) ==
  \A i \in 1..Len(Stream(c)) : Stream(c)[i] \in Items =>
    \E a \in 1..Len(log) : /\ log[a] = Stream(c)[i]
                           /\ c \in members => a <= told[c]

\* c has got its items in the order of the log.
InOrder(c) ==
  \A i, j \in 1..Len(Stream(c)) :
    i < j /\ Stream(c)[i] \in Items /\ Stream(c)[j] \in Items =>
      \E a, b \in 1..Len(log) :
        a < b /\ log[a] = Stream(c)[i] /\ log[b] = Stream(c)[j]

RoomInv ==
  /\ RoomTypeOK /\ SaidOnce
  /\ \A c \in Clients : told[c] <= Len(log) /\ Served(c) /\ InOrder(c)

-----------------------------------------------------------------------------
(* What the steps do to a stream.                                          *)

LEMMA StreamType ==
  ASSUME RoomTypeOK, NEW c \in Clients
  PROVE  Stream(c) \in Seq(Messages)
BY DEF RoomTypeOK, Stream

\* What is queued comes last.
LEMMA QueuedLast ==
  ASSUME NEW h \in Seq(Messages), NEW q \in Seq(Messages), NEW n \in Messages
  PROVE  /\ Len(h \o Append(q, n)) = Len(h \o q) + 1
         /\ \A i \in 1..Len(h \o q) : (h \o Append(q, n))[i] = (h \o q)[i]
         /\ (h \o Append(q, n))[Len(h \o q) + 1] = n
<1>1. /\ Append(q, n) \in Seq(Messages) /\ Len(Append(q, n)) = Len(q) + 1
      /\ \A i \in 1..Len(q) : Append(q, n)[i] = q[i]
      /\ Append(q, n)[Len(q) + 1] = n
  OBVIOUS
<1>2. /\ Len(h \o q) = Len(h) + Len(q)
      /\ \A i \in 1..(Len(h) + Len(q)) :
           (h \o q)[i] = IF i <= Len(h) THEN h[i] ELSE q[i - Len(h)]
  OBVIOUS
<1>3. /\ Len(h \o Append(q, n)) = Len(h) + Len(q) + 1
      /\ \A i \in 1..(Len(h) + Len(q) + 1) :
           (h \o Append(q, n))[i] =
             IF i <= Len(h) THEN h[i] ELSE Append(q, n)[i - Len(h)]
  BY <1>1
<1> QED
  BY <1>1, <1>2, <1>3

\* What is heard was next, and stays where it is.
LEMMA HeardInPlace ==
  ASSUME NEW h \in Seq(Messages), NEW q \in Seq(Messages), q # <<>>
  PROVE  Append(h, Head(q)) \o Tail(q) = h \o q
<1>1. /\ Append(h, Head(q)) \in Seq(Messages) /\ Tail(q) \in Seq(Messages)
      /\ Len(Append(h, Head(q))) = Len(h) + 1 /\ Len(Tail(q)) = Len(q) - 1
      /\ \A i \in 1..(Len(q) - 1) : Tail(q)[i] = q[i + 1]
      /\ \A i \in 1..Len(h) : Append(h, Head(q))[i] = h[i]
      /\ Append(h, Head(q))[Len(h) + 1] = q[1]
  OBVIOUS
<1>2. /\ Len(Append(h, Head(q)) \o Tail(q)) = Len(h) + Len(q)
      /\ \A i \in 1..(Len(h) + Len(q)) :
           (Append(h, Head(q)) \o Tail(q))[i] =
             IF i <= Len(h) + 1 THEN Append(h, Head(q))[i]
             ELSE Tail(q)[i - (Len(h) + 1)]
  BY <1>1
<1>3. /\ Len(h \o q) = Len(h) + Len(q)
      /\ \A i \in 1..(Len(h) + Len(q)) :
           (h \o q)[i] = IF i <= Len(h) THEN h[i] ELSE q[i - Len(h)]
  OBVIOUS
<1>4. \A i \in 1..(Len(h) + Len(q)) :
        (Append(h, Head(q)) \o Tail(q))[i] = (h \o q)[i]
  BY <1>1, <1>2, <1>3
<1>5. Append(h, Head(q)) \o Tail(q) \in Seq(Messages) /\ h \o q \in Seq(Messages)
  BY <1>1
<1> QED
  BY <1>2, <1>3, <1>4, <1>5

\* What is lost leaves the rest in order.
LEMMA LostFromStream ==
  ASSUME NEW h \in Seq(Messages), NEW q \in Seq(Messages), q # <<>>
  PROVE  /\ Len(h \o Tail(q)) = Len(h \o q) - 1
         /\ \A i \in 1..Len(h \o Tail(q)) :
              (h \o Tail(q))[i] =
                (h \o q)[IF i <= Len(h) THEN i ELSE i + 1]
<1>1. /\ Tail(q) \in Seq(Messages) /\ Len(Tail(q)) = Len(q) - 1
      /\ \A i \in 1..(Len(q) - 1) : Tail(q)[i] = q[i + 1]
      /\ Len(q) > 0
  OBVIOUS
<1>2. /\ Len(h \o q) = Len(h) + Len(q)
      /\ \A i \in 1..(Len(h) + Len(q)) :
           (h \o q)[i] = IF i <= Len(h) THEN h[i] ELSE q[i - Len(h)]
  OBVIOUS
<1>3. /\ Len(h \o Tail(q)) = Len(h) + Len(q) - 1
      /\ \A i \in 1..(Len(h) + Len(q) - 1) :
           (h \o Tail(q))[i] =
             IF i <= Len(h) THEN h[i] ELSE Tail(q)[i - Len(h)]
  BY <1>1
<1> QED
  BY <1>1, <1>2, <1>3

\* A client whose stream a step leaves alone, while the log may grow.
LEMMA StreamKept ==
  ASSUME RoomInv, NEW c \in Clients, Stream(c)' = Stream(c),
         log' \in Seq(Items), Len(log') >= Len(log),
         \A i \in 1..Len(log) : log'[i] = log[i],
         c \in members' =>
           /\ told'[c] \in Nat
           /\ \/ c \in members /\ told'[c] >= told[c]
              \/ told'[c] >= Len(log)
  PROVE  Served(c)' /\ InOrder(c)'
<1>1. \A a \in 1..Len(log) : a \in 1..Len(log')
  BY DEF RoomInv, RoomTypeOK
<1>2. Served(c)'
  <2> SUFFICES ASSUME NEW i \in 1..Len(Stream(c)), Stream(c)[i] \in Items
               PROVE  \E a \in 1..Len(log') : /\ log'[a] = Stream(c)[i]
                                              /\ c \in members' => a <= told'[c]
    BY DEF Served
  <2>1. PICK a \in 1..Len(log) : /\ log[a] = Stream(c)[i]
                                 /\ c \in members => a <= told[c]
    BY DEF RoomInv, Served
  <2>2. c \in members' => a <= told'[c]
    BY <2>1 DEF RoomInv, RoomTypeOK
  <2> QED
    BY <1>1, <2>1, <2>2
<1>3. InOrder(c)'
  BY <1>1 DEF RoomInv, InOrder
<1> QED
  BY <1>2, <1>3

-----------------------------------------------------------------------------
LEMMA RoomInit == Init => RoomInv
<1> SUFFICES ASSUME Init PROVE RoomInv
  OBVIOUS
<1>1. log \in Seq(Items) /\ Len(log) = 0
  BY DEF Init
<1>2. queue \in [Clients -> Seq(Messages)]
  BY DEF Init
<1>3. heard \in [Clients -> Seq(Messages)]
  BY DEF Init
<1>4. RoomTypeOK
  BY <1>1, <1>2, <1>3 DEF Init, RoomTypeOK
<1>5. SaidOnce
  BY <1>1 DEF SaidOnce
<1>6. \A c \in Clients : told[c] <= Len(log) /\ Len(Stream(c)) = 0
  <2> SUFFICES ASSUME NEW c \in Clients
               PROVE  told[c] <= Len(log) /\ Len(Stream(c)) = 0
    OBVIOUS
  <2>1. heard[c] = <<>> /\ queue[c] = <<>> /\ told[c] = 0
    BY DEF Init
  <2>2. heard[c] \in Seq(Messages) /\ queue[c] \in Seq(Messages)
    BY <1>2, <1>3
  <2>3. Len(heard[c] \o queue[c]) = Len(heard[c]) + Len(queue[c])
    BY <2>2
  <2>4. Len(heard[c]) = 0 /\ Len(queue[c]) = 0
    BY <2>1
  <2> QED
    BY <1>1, <2>1, <2>3, <2>4 DEF Stream
<1>7. \A c \in Clients : Served(c) /\ InOrder(c)
  <2>1. \A c \in Clients : \A i \in 1..Len(Stream(c)) : FALSE
    BY <1>6
  <2> QED
    BY <2>1, Zenon DEF Served, InOrder
<1> QED
  BY <1>4, <1>5, <1>6, <1>7 DEF RoomInv

LEMMA RoomStep ==
  ASSUME StoredIsNoItem, RoomInv, [Next]_vars
  PROVE  RoomInv'
<1>t. RoomTypeOK /\ SaidOnce /\ \A c \in Clients : told[c] <= Len(log)
  BY DEF RoomInv
<1>l. Len(log) \in Nat /\ told \in [Clients -> Nat] /\ members \subseteq Clients
  BY <1>t DEF RoomTypeOK
<1>q. queue \in [Clients -> Seq(Messages)] /\ heard \in [Clients -> Seq(Messages)]
  BY <1>t DEF RoomTypeOK
<1>1. ASSUME NEW n \in Items, Say(n) PROVE RoomInv'
  <2>1. /\ log' \in Seq(Items) /\ Len(log') = Len(log) + 1
        /\ \A i \in 1..Len(log) : log'[i] = log[i]
        /\ log'[Len(log) + 1] = n
    BY <1>1, <1>t DEF Say, RoomTypeOK
  <2>2. UNCHANGED <<members, told, queue, heard>>
    BY <1>1 DEF Say
  <2>3. RoomTypeOK'
    BY <1>t, <2>1, <2>2 DEF RoomTypeOK
  <2>4. SaidOnce'
    BY <1>1, <1>t, <2>1 DEF SaidOnce, Say, RoomTypeOK
  <2>5. \A c \in Clients : told'[c] <= Len(log')
    BY <1>t, <2>1, <2>2 DEF RoomTypeOK
  <2>6. \A c \in Clients : (Served(c) /\ InOrder(c))'
    <3> SUFFICES ASSUME NEW c \in Clients PROVE (Served(c) /\ InOrder(c))'
      OBVIOUS
    <3>1. Stream(c)' = Stream(c)
      BY <2>2 DEF Stream
    <3>2. Len(log') >= Len(log) /\ told[c] \in Nat
      BY <1>t, <2>1 DEF RoomTypeOK
    <3> QED
      BY <2>1, <2>2, <3>1, <3>2, StreamKept
  <2> QED
    BY <2>3, <2>4, <2>5, <2>6 DEF RoomInv
<1>2. ASSUME NEW c \in Clients, Join(c) \/ Leave(c) PROVE RoomInv'
  <2>1. /\ UNCHANGED <<log, queue, heard>>
        /\ members' \subseteq Clients
        /\ told' \in [Clients -> Nat]
    <3>1. CASE Join(c)
      BY <3>1, <1>l DEF Join
    <3>2. CASE Leave(c)
      BY <3>2, <1>l DEF Leave
    <3> QED
      BY <1>2, <3>1, <3>2
  <2>2. RoomTypeOK' /\ SaidOnce'
    BY <1>t, <2>1 DEF RoomTypeOK, SaidOnce
  <2>3. \A d \in Clients : told'[d] <= Len(log')
    <3>1. CASE Join(c)
      BY <3>1, <1>l, <1>t, <2>1 DEF Join
    <3>2. CASE Leave(c)
      BY <3>2, <1>l, <1>t, <2>1 DEF Leave
    <3> QED
      BY <1>2, <3>1, <3>2
  <2>4. \A d \in Clients : (Served(d) /\ InOrder(d))'
    <3> SUFFICES ASSUME NEW d \in Clients PROVE (Served(d) /\ InOrder(d))'
      OBVIOUS
    <3>1. Stream(d)' = Stream(d)
      BY <2>1 DEF Stream
    <3>2. d \in members' => \/ d \in members /\ told'[d] >= told[d]
                            \/ told'[d] >= Len(log)
      BY <1>2, <1>t DEF Join, Leave, RoomTypeOK
    <3>3. told'[d] \in Nat /\ Len(log') >= Len(log) /\ log' \in Seq(Items)
      BY <1>t, <2>1 DEF RoomTypeOK
    <3> QED
      BY <2>1, <3>1, <3>2, <3>3, StreamKept
  <2> QED
    BY <2>2, <2>3, <2>4 DEF RoomInv
<1>3. ASSUME NEW c \in Clients, Tell(c) \/ Replay(c) PROVE RoomInv'
  <2>1. /\ UNCHANGED <<log, members, heard>>
        /\ \A d \in Clients : d # c => queue'[d] = queue[d] /\ told'[d] = told[d]
        /\ told'[c] \in {told[c], Len(log)}
        /\ told' \in [Clients -> Nat]
    <3>1. CASE Tell(c)
      BY <3>1, <1>l, <1>q DEF Tell, Offered
    <3>2. CASE Replay(c)
      BY <3>2, <1>l, <1>q DEF Replay, Offered
    <3> QED
      BY <1>3, <3>1, <3>2
  <2>n. PICK n \in Messages :
          /\ \/ queue' = queue
             \/ queue' = [queue EXCEPT ![c] = Append(@, n)]
          /\ n \in Items =>
               /\ Len(log) > 0 /\ n = log[Len(log)]
               /\ told[c] < Len(log) /\ told'[c] = Len(log) /\ c \in members
    <3>1. CASE Tell(c)
      <4>1. Len(log) > 0 /\ log[Len(log)] \in Items
        BY <3>1, <1>t DEF Tell, RoomTypeOK
      <4> QED
        BY <3>1, <4>1, <1>l DEF Tell, Offered, Messages
    <3>2. CASE Replay(c)
      BY <3>2 DEF Replay, Offered, Messages, StoredIsNoItem
    <3> QED
      BY <1>3, <3>1, <3>2
  <2>2. queue' \in [Clients -> Seq(Messages)]
    <3>1. Append(queue[c], n) \in Seq(Messages)
      BY <1>q
    <3> QED
      BY <3>1, <2>n, <1>q
  <2>3. RoomTypeOK' /\ SaidOnce'
    BY <1>t, <2>1, <2>2 DEF RoomTypeOK, SaidOnce
  <2>4. \A d \in Clients : told'[d] <= Len(log')
    BY <1>t, <1>l, <2>1
  <2>5. ASSUME NEW d \in Clients, Stream(d)' = Stream(d)
        PROVE  (Served(d) /\ InOrder(d))'
    <3>1. told'[d] >= told[d] /\ told'[d] \in Nat
      BY <1>t, <1>l, <2>1
    <3>2. log' \in Seq(Items) /\ Len(log') >= Len(log)
      BY <1>t, <2>1 DEF RoomTypeOK
    <3> QED
      BY <2>1, <2>5, <3>1, <3>2, StreamKept
  <2>6. ASSUME queue' = [queue EXCEPT ![c] = Append(@, n)]
        PROVE  (Served(c) /\ InOrder(c))'
    <3>1. /\ queue'[c] = Append(queue[c], n) /\ heard'[c] = heard[c]
          /\ queue[c] \in Seq(Messages)
          /\ heard[c] \in Seq(Messages)
      BY <2>6, <2>1, <1>t DEF RoomTypeOK
    <3>2. /\ Len(Stream(c)') = Len(Stream(c)) + 1
          /\ \A i \in 1..Len(Stream(c)) : Stream(c)'[i] = Stream(c)[i]
          /\ Stream(c)'[Len(Stream(c)) + 1] = n
      <4>1. Stream(c)' = heard[c] \o Append(queue[c], n)
        BY <3>1 DEF Stream
      <4>2. n \in Messages
        BY DEF Messages
      <4>3. /\ Len(heard[c] \o Append(queue[c], n)) = Len(heard[c] \o queue[c]) + 1
            /\ \A i \in 1..Len(heard[c] \o queue[c]) :
                 (heard[c] \o Append(queue[c], n))[i] = (heard[c] \o queue[c])[i]
            /\ (heard[c] \o Append(queue[c], n))[Len(heard[c] \o queue[c]) + 1] = n
        BY <3>1, <4>2, QueuedLast
      <4> QED
        BY <4>1, <4>3 DEF Stream
    <3>3. Len(Stream(c)) \in Nat
      BY <1>t, StreamType
    <3>4. \A i \in 1..Len(Stream(c)') :
            i \in 1..Len(Stream(c)) \/ i = Len(Stream(c)) + 1
      BY <3>2, <3>3
    <3>5. told[c] \in Nat /\ told'[c] \in Nat /\ told[c] <= told'[c]
      BY <2>1, <1>t DEF RoomTypeOK
    <3>5a. Len(log) \in Nat
      BY <1>t DEF RoomTypeOK
    <3>6. Served(c)'
      <4> SUFFICES ASSUME NEW i \in 1..Len(Stream(c)'), Stream(c)'[i] \in Items
                   PROVE  \E a \in 1..Len(log) :
                            /\ log[a] = Stream(c)'[i]
                            /\ c \in members => a <= told'[c]
        BY <2>1 DEF Served
      <4>1. CASE i \in 1..Len(Stream(c))
        <5>1. PICK a \in 1..Len(log) : /\ log[a] = Stream(c)[i]
                                       /\ c \in members => a <= told[c]
          BY <4>1, <3>2 DEF RoomInv, Served
        <5>2. c \in members => a <= told'[c]
          BY <5>1, <3>5
        <5> QED
          BY <5>1, <5>2, <4>1, <3>2
      <4>2. CASE i = Len(Stream(c)) + 1
        BY <4>2, <3>2, <3>5, <3>5a, <2>n
      <4> QED
        BY <4>1, <4>2, <3>4
    <3>7. InOrder(c)'
      <4> SUFFICES ASSUME NEW i \in 1..Len(Stream(c)'),
                          NEW j \in 1..Len(Stream(c)'), i < j,
                          Stream(c)'[i] \in Items, Stream(c)'[j] \in Items
                   PROVE  \E a, b \in 1..Len(log) :
                            a < b /\ log[a] = Stream(c)'[i]
                                  /\ log[b] = Stream(c)'[j]
        BY <2>1 DEF InOrder
      <4>1. i \in 1..Len(Stream(c))
        BY <3>2, <3>3
      <4>2. CASE j \in 1..Len(Stream(c))
        BY <4>1, <4>2, <3>2 DEF RoomInv, InOrder
      <4>3. CASE j = Len(Stream(c)) + 1
        <5>1. n \in Items /\ n = log[Len(log)] /\ Stream(c)'[j] = n
              /\ told[c] < Len(log) /\ c \in members /\ Len(log) > 0
          BY <4>3, <3>2, <2>n
        <5>2. PICK a \in 1..Len(log) : log[a] = Stream(c)[i] /\ a <= told[c]
          BY <4>1, <3>2, <5>1 DEF RoomInv, Served
        <5>3. a < Len(log) /\ Len(log) \in 1..Len(log)
          BY <5>1, <5>2, <3>5, <3>5a
        <5> QED
          BY <5>1, <5>2, <5>3, <4>1, <3>2
      <4> QED
        BY <4>2, <4>3, <3>4
    <3> QED
      BY <3>6, <3>7
  <2>7. \A d \in Clients : (Served(d) /\ InOrder(d))'
    <3> SUFFICES ASSUME NEW d \in Clients PROVE (Served(d) /\ InOrder(d))'
      OBVIOUS
    <3>1. CASE queue'[d] = queue[d]
      BY <3>1, <2>1, <2>5 DEF Stream
    <3>2. CASE d = c /\ queue' # queue
      BY <3>2, <2>n, <2>6
    <3> QED
      BY <3>1, <3>2, <2>1
  <2> QED
    BY <2>3, <2>4, <2>7 DEF RoomInv
<1>4. ASSUME NEW c \in Clients, Hear(c) PROVE RoomInv'
  <2>1. UNCHANGED <<log, members, told>>
    BY <1>4 DEF Hear
  <2>2. /\ queue[c] \in Seq(Messages) /\ queue[c] # <<>>
        /\ heard[c] \in Seq(Messages)
    BY <1>4, <1>t DEF Hear, RoomTypeOK
  <2>3. /\ Head(queue[c]) \in Messages
        /\ Tail(queue[c]) \in Seq(Messages)
    BY <2>2
  <2>4. /\ queue' \in [Clients -> Seq(Messages)]
        /\ heard' \in [Clients -> Seq(Messages)]
    <3>1. Append(heard[c], Head(queue[c])) \in Seq(Messages)
      BY <2>2, <2>3
    <3> QED
      BY <1>4, <2>3, <3>1, <1>q DEF Hear
  <2>5. RoomTypeOK' /\ SaidOnce'
    BY <1>t, <2>1, <2>4 DEF RoomTypeOK, SaidOnce
  <2>6. ASSUME NEW d \in Clients PROVE Stream(d)' = Stream(d)
    <3>1. CASE d = c
      BY <3>1, <1>4, <1>t, <2>2, HeardInPlace DEF Hear, Stream, RoomTypeOK
    <3>2. CASE d # c
      BY <3>2, <1>4, <1>t DEF Hear, Stream, RoomTypeOK
    <3> QED
      BY <3>1, <3>2
  <2>7. \A d \in Clients : (Served(d) /\ InOrder(d))'
    BY <2>1, <2>6 DEF RoomInv, Served, InOrder
  <2> QED
    BY <1>t, <2>1, <2>5, <2>7 DEF RoomInv
<1>5. ASSUME NEW c \in Clients, Lose(c) PROVE RoomInv'
  <2>1. UNCHANGED <<log, members, told, heard>>
    BY <1>5 DEF Lose
  <2>2. /\ queue[c] \in Seq(Messages) /\ queue[c] # <<>>
        /\ heard[c] \in Seq(Messages)
    BY <1>5, <1>t DEF Lose, RoomTypeOK
  <2>3. Tail(queue[c]) \in Seq(Messages)
    BY <2>2
  <2>4. queue' \in [Clients -> Seq(Messages)]
    BY <1>5, <2>2, <2>3, <1>t DEF Lose, RoomTypeOK
  <2>5. RoomTypeOK' /\ SaidOnce'
    BY <1>t, <2>1, <2>4 DEF RoomTypeOK, SaidOnce
  <2>6. ASSUME NEW d \in Clients PROVE (Served(d) /\ InOrder(d))'
    <3>1. CASE d = c
      <4>1. queue'[c] = Tail(queue[c])
        BY <1>5, <1>t DEF Lose, RoomTypeOK
      <4>2. /\ Len(Stream(c)') = Len(Stream(c)) - 1
            /\ \A i \in 1..Len(Stream(c)') :
                 Stream(c)'[i] =
                   Stream(c)[IF i <= Len(heard[c]) THEN i ELSE i + 1]
        <5>1. Stream(c)' = heard[c] \o Tail(queue[c])
          BY <4>1, <2>1 DEF Stream
        <5>2. /\ Len(heard[c] \o Tail(queue[c])) = Len(heard[c] \o queue[c]) - 1
              /\ \A i \in 1..Len(heard[c] \o Tail(queue[c])) :
                   (heard[c] \o Tail(queue[c]))[i] =
                     (heard[c] \o queue[c])[IF i <= Len(heard[c]) THEN i
                                             ELSE i + 1]
          BY <2>2, LostFromStream
        <5> QED
          BY <5>1, <5>2 DEF Stream
      <4>3. Len(Stream(c)) \in Nat /\ Len(heard[c]) \in Nat
        BY <1>t, <2>2, StreamType
      <4>4. DEFINE at(i) == IF i <= Len(heard[c]) THEN i ELSE i + 1
      <4>5. \A i \in 1..Len(Stream(c)') : /\ at(i) \in 1..Len(Stream(c))
                                          /\ Stream(c)'[i] = Stream(c)[at(i)]
        BY <4>2, <4>3
      <4>6. \A i, j \in 1..Len(Stream(c)') : i < j => at(i) < at(j)
        BY <4>2, <4>3
      <4> HIDE DEF at
      <4>7. Served(c)'
        BY <4>5, <2>1 DEF RoomInv, Served
      <4>8. InOrder(c)'
        BY <4>5, <4>6, <2>1 DEF RoomInv, InOrder
      <4> QED
        BY <3>1, <4>7, <4>8
    <3>2. CASE d # c
      <4>1. Stream(d)' = Stream(d)
        BY <3>2, <1>5, <1>t DEF Lose, Stream, RoomTypeOK
      <4> QED
        BY <4>1, <2>1 DEF RoomInv, Served, InOrder
    <3> QED
      BY <3>1, <3>2
  <2> QED
    BY <1>t, <2>1, <2>5, <2>6 DEF RoomInv
\* A line goes up or down, or nothing happens.
<1>6. ASSUME UNCHANGED <<log, members, told, queue, heard>> PROVE RoomInv'
  <2>1. RoomTypeOK' /\ SaidOnce' /\ \A d \in Clients : told'[d] <= Len(log')
    BY <1>6, <1>t DEF RoomTypeOK, SaidOnce
  <2>2. \A d \in Clients : Stream(d)' = Stream(d)
    BY <1>6 DEF Stream
  <2>3. \A d \in Clients : (Served(d) /\ InOrder(d))'
    BY <1>6, <2>2 DEF RoomInv, Served, InOrder
  <2> QED
    BY <2>1, <2>3 DEF RoomInv
<1>7. ASSUME NEW c \in Clients, Dial(c) \/ HangUp(c) PROVE RoomInv'
  BY <1>6, <1>7 DEF Dial, HangUp
<1>8. CASE UNCHANGED vars
  BY <1>6, <1>8 DEF vars
<1> QED
  BY <1>1, <1>2, <1>3, <1>4, <1>5, <1>7, <1>8 DEF Next, Serve

\* Every item has one place, and what a client got lies in the log in order.
THEOREM RoomInvariant ==
  ASSUME StoredIsNoItem PROVE Spec => []RoomInv
<1> QED
  BY RoomInit, RoomStep, PTL DEF Spec

\* Two clients get the items they both get in one order, none of them twice:
\* each order is that of the log, where an item has one place.
THEOREM RoomAgrees ==
  ASSUME StoredIsNoItem PROVE Spec => []AgreedOrder
<1>1. RoomInv => AgreedOrder
  <2> SUFFICES ASSUME RoomInv, NEW c \in Clients, NEW d \in Clients,
                      NEW a \in Items, NEW b \in Items,
                      Before(Stream(c), a, b), Before(Stream(d), b, a)
               PROVE  FALSE
    BY DEF AgreedOrder
  <2>0. InOrder(c) /\ InOrder(d)
    BY DEF RoomInv
  <2>1. PICK p, q \in 1..Len(log) : p < q /\ log[p] = a /\ log[q] = b
    <3>1. PICK i, j \in 1..Len(Stream(c)) :
            i < j /\ Stream(c)[i] = a /\ Stream(c)[j] = b
      BY DEF Before
    <3> QED
      BY <3>1, <2>0 DEF InOrder
  <2>2. PICK r, s \in 1..Len(log) : r < s /\ log[r] = b /\ log[s] = a
    <3>1. PICK i, j \in 1..Len(Stream(d)) :
            i < j /\ Stream(d)[i] = b /\ Stream(d)[j] = a
      BY DEF Before
    <3> QED
      BY <3>1, <2>0 DEF InOrder
  <2>3. p = s /\ q = r
    BY <2>1, <2>2 DEF RoomInv, SaidOnce
  <2> QED
    BY <2>1, <2>2, <2>3
<1> QED
  BY <1>1, RoomInvariant, PTL
=============================================================================
