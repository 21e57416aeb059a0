----------------------------- MODULE ChatHistory -----------------------------
(***************************************************************************)
(* Where chat messages are kept: the messages table and the cache of the   *)
(* most recent ones, and the goroutines that share them.  For each message *)
(* it takes, the manager spawns saveMessageToDB and updateCache and waits  *)
(* for neither; an edit it applies itself; every new connection gets a     *)
(* sendMessageHistory goroutine.                                           *)
(*                                                                         *)
(* A message is its rank by Timestamp.  An entry [msg, rev, id] of the     *)
(* cache is a message with its text after rev edits, and with the ID of    *)
(* its row or, as it is broadcast, with ID 0.  Each call of the database   *)
(* or of the cache is one step (module MemoryCache) and may fail; the      *)
(* callers log and go on.  The table is taken to have the columns edited   *)
(* and edited_at of its entity.                                            *)
(*                                                                         *)
(* A definition named X_Y is X with a fault Y a programmer could make: a   *)
(* property must fail once X is replaced by it.                            *)
(***************************************************************************)
EXTENDS Integers, Sequences, Functions

CONSTANTS
  Viewers,   \* sendMessageHistory goroutines that may run at a time
  MaxMsgs,   \* bound: messages posted in a run
  MaxRev,    \* bound: edits of one message
  Old,       \* messages that were in the table when the server started
  Limit,     \* most messages in the cache and in GetRecent (100)
  Faults     \* whether calls of the database and the cache may fail

ASSUME HistoryAssumption ==
  /\ MaxMsgs \in Nat /\ MaxRev \in Nat
  /\ Old \subseteq 1..MaxMsgs
  /\ Limit \in Nat \ {0} /\ Faults \in BOOLEAN

VARIABLES
  taken,    \* messages the manager has taken from Broadcast
  row,      \* edits made to each row of the messages table, or NoRow
  cache,    \* the cached list; empty when absent, expired or invalidated
  saver,    \* saveMessageToDB of each message
  updater,  \* updateCache of each message
  list,     \* the list updateCache has read
  edit,     \* the message whose edit the manager has stored, or 0
  viewer,   \* sendMessageHistory goroutines
  history,  \* the list each has got hold of and sorts in place
  loaded,   \* that list as it was loaded
  at,       \* the outer loop of the sort, from 1
  against   \* its inner loop

historyVars == <<viewer, history, loaded, at, against>>
vars == <<taken, row, cache, saver, updater, list, edit, historyVars>>

-----------------------------------------------------------------------------
Msgs  == 1..MaxMsgs
NoRow == -1
Entry == [msg : Msgs, rev : 0..MaxRev, id : BOOLEAN]

Saved == {n \in Msgs : row[n] # NoRow}

\* Off by one at the limit.
Trim_OneMore(s) ==
  SubSeq(s, IF Len(s) > Limit + 1 THEN Len(s) - Limit ELSE 1, Len(s))

\* The last Limit entries of a list.
Trim(s) == SubSeq(s, IF Len(s) > Limit THEN Len(s) - Limit + 1 ELSE 1, Len(s))

\* The lists of entries of S, at most Limit of them.
Lists(S) == UNION {[1..k -> S] : k \in 0..Limit}

\* MessageRepository.GetRecent(ctx, 100): the latest rows, oldest first.
\* There is exactly one such list.
Recent ==
  {s \in Lists({[msg |-> n, rev |-> row[n], id |-> TRUE] : n \in Saved}) :
     /\ \A i, j \in 1..Len(s) : i < j => s[i].msg < s[j].msg
     /\ \A n \in Saved : \/ \E i \in 1..Len(s) : s[i].msg = n
                         \/ Len(s) = Limit /\ \A i \in 1..Limit : n < s[i].msg}

\* What is there after a call that puts new for old, and what a read of the
\* cached list or of the table gives: a failed read is treated like a miss.
Stores(old, new) == IF Faults THEN {old, new} ELSE {new}
CacheReads == IF Faults THEN {cache, <<>>} ELSE {cache}
TableReads == IF Faults THEN Recent \union {<<>>} ELSE Recent

Init ==
  /\ taken = Old /\ cache = <<>>
  /\ row = [n \in Msgs |-> IF n \in Old THEN 0 ELSE NoRow]
  /\ saver = [n \in Msgs |-> IF n \in Old THEN "done" ELSE "off"]
  /\ updater = saver /\ list = [n \in Msgs |-> <<>>]
  /\ edit = 0
  /\ viewer = [v \in Viewers |-> "idle"]
  /\ history = [v \in Viewers |-> <<>>] /\ loaded = history
  /\ at = [v \in Viewers |-> 1] /\ against = [v \in Viewers |-> 2]

-----------------------------------------------------------------------------
(* The manager.                                                            *)

\* case message := <-m.Broadcast.  Two ReadPumps may queue their messages in
\* the other order than they stamped them.
Post(n) ==
  /\ edit = 0 /\ n \notin taken
  /\ taken' = taken \union {n}
  /\ saver' = [saver EXCEPT ![n] = "create"]
  /\ updater' = [updater EXCEPT ![n] = "get"]
  /\ UNCHANGED <<row, cache, list, edit, historyVars>>

\* Counts the edit twice.
StoreEdit_Twice(n) ==
  /\ edit = 0 /\ n \in Saved /\ row[n] < MaxRev
  /\ row' = [row EXCEPT ![n] = @ + 2]
  /\ edit' = n
  /\ UNCHANGED <<taken, cache, saver, updater, list, historyVars>>

\* Puts the new text in the cached list, and the row is written only if the
\* database answers.
StoreEdit_CacheFirst(n) ==
  /\ edit = 0 /\ n \in Saved /\ row[n] < MaxRev
  /\ cache' = [i \in 1..Len(cache) |->
                IF cache[i].msg = n THEN [cache[i] EXCEPT !.rev = row[n] + 1]
                                    ELSE cache[i]]
  /\ row' \in Stores(row, [row EXCEPT ![n] = @ + 1])
  /\ edit' = n
  /\ UNCHANGED <<taken, saver, updater, list, historyVars>>

\* case edit := <-m.EditMessage.  UpdateMessage finds the row and its author
\* before it writes; when it fails the edit is dropped and nothing changes.
StoreEdit(n) ==
  /\ edit = 0 /\ n \in Saved /\ row[n] < MaxRev
  /\ row' = [row EXCEPT ![n] = @ + 1]
  /\ edit' = n
  /\ UNCHANGED <<taken, cache, saver, updater, list, historyVars>>

\* InvalidateMessages, whose error is ignored; the new text is then fanned
\* out as in module Hub.
PublishEdit ==
  /\ edit # 0
  /\ cache' \in Stores(cache, <<>>)
  /\ edit' = 0
  /\ UNCHANGED <<taken, row, saver, updater, list, historyVars>>

-----------------------------------------------------------------------------
(* saveMessageToDB                                                         *)

Create(n) ==
  /\ saver[n] = "create"
  /\ saver' = [saver EXCEPT ![n] = "done"]
  /\ row' \in Stores(row, [row EXCEPT ![n] = 0])
  /\ UNCHANGED <<taken, cache, updater, list, edit, historyVars>>

-----------------------------------------------------------------------------
(* updateCache: a read and a write with nothing to keep them together.     *)

ReadCache(n) ==
  /\ updater[n] = "get"
  /\ \E got \in CacheReads : list' = [list EXCEPT ![n] = got]
  /\ updater' = [updater EXCEPT ![n] = "set"]
  /\ UNCHANGED <<taken, row, cache, saver, edit, historyVars>>

Appended(s, n) == Trim(Append(s, [msg |-> n, rev |-> 0, id |-> FALSE]))

WriteCache(n) ==
  /\ updater[n] = "set"
  /\ cache' \in Stores(cache, Appended(list[n], n))
  /\ updater' = [updater EXCEPT ![n] = "done"]
  /\ list' = [list EXCEPT ![n] = <<>>]
  /\ UNCHANGED <<taken, row, saver, edit, historyVars>>

-----------------------------------------------------------------------------
(* sendMessageHistory *)

Load(v, got, next) ==
  /\ history' = [history EXCEPT ![v] = got]
  /\ loaded' = [loaded EXCEPT ![v] = got]
  /\ viewer' = [viewer EXCEPT ![v] = next]
  /\ UNCHANGED <<at, against>>

AskCache(v) ==
  /\ viewer[v] = "idle"
  /\ \E got \in CacheReads : Load(v, got, IF got # <<>> THEN "sort" ELSE "miss")
  /\ UNCHANGED <<taken, row, cache, saver, updater, list, edit>>

\* Nothing is cached when the query fails or finds no message.
AskDatabase(v) ==
  /\ viewer[v] = "miss"
  /\ \E got \in TableReads : Load(v, got, IF got # <<>> THEN "fill" ELSE "sort")
  /\ UNCHANGED <<taken, row, cache, saver, updater, list, edit>>

FillCache(v) ==
  /\ viewer[v] = "fill"
  /\ cache' \in Stores(cache, history[v])
  /\ viewer' = [viewer EXCEPT ![v] = "sort"]
  /\ UNCHANGED <<taken, row, saver, updater, list, edit, history, loaded, at,
                 against>>

\* The list is sorted by time before it is sent.
Sorting(v) == viewer[v] = "sort" /\ at[v] < Len(history[v])
Sorted(v)  == viewer[v] = "sort" /\ at[v] >= Len(history[v])

Swap(s, i, j) == [s EXCEPT ![i] = s[j], ![j] = s[i]]

\* Puts the earlier message first and forgets the other.
Compare_OneWay(v) ==
  /\ Sorting(v) /\ against[v] <= Len(history[v])
  /\ LET s == history[v]
         i == at[v]
         j == against[v]
     IN history' = [history EXCEPT ![v] =
          IF s[i].msg > s[j].msg THEN [s EXCEPT ![i] = s[j]] ELSE s]
  /\ against' = [against EXCEPT ![v] = @ + 1]
  /\ UNCHANGED <<taken, row, cache, saver, updater, list, edit, viewer, loaded,
                 at>>

\* The body of the inner loop.
Compare(v) ==
  /\ Sorting(v) /\ against[v] <= Len(history[v])
  /\ LET s == history[v]
         i == at[v]
         j == against[v]
     IN history' = [history EXCEPT ![v] =
          IF s[i].msg > s[j].msg THEN Swap(s, i, j) ELSE s]
  /\ against' = [against EXCEPT ![v] = @ + 1]
  /\ UNCHANGED <<taken, row, cache, saver, updater, list, edit, viewer, loaded,
                 at>>

\* The inner loop is over and the outer one goes on.
Advance(v) ==
  /\ Sorting(v) /\ against[v] > Len(history[v])
  /\ at' = [at EXCEPT ![v] = @ + 1]
  /\ against' = [against EXCEPT ![v] = at[v] + 2]
  /\ UNCHANGED <<taken, row, cache, saver, updater, list, edit, viewer, history,
                 loaded>>

\* The goroutine sends the list, as in module Hub, and ends; a later
\* connection may take its place.
Leave(v) ==
  /\ Sorted(v)
  /\ viewer' = [viewer EXCEPT ![v] = "idle"]
  /\ history' = [history EXCEPT ![v] = <<>>]
  /\ loaded' = [loaded EXCEPT ![v] = <<>>]
  /\ at' = [at EXCEPT ![v] = 1] /\ against' = [against EXCEPT ![v] = 2]
  /\ UNCHANGED <<taken, row, cache, saver, updater, list, edit>>

-----------------------------------------------------------------------------
\* The list is stored without a TTL.
Expire_Never == FALSE /\ UNCHANGED vars

\* The TTL of the cached list runs out.
Expire ==
  /\ cache # <<>> /\ cache' = <<>>
  /\ UNCHANGED <<taken, row, saver, updater, list, edit, historyVars>>

\* The server ends and another is started on the same table: the goroutines
\* are gone, also between the write of an edit and its invalidation; the
\* list of a Redis cache is still there.
Restart ==
  /\ cache' \in {cache, <<>>}
  /\ saver' = [n \in Msgs |-> IF n \in taken THEN "done" ELSE "off"]
  /\ updater' = saver'
  /\ list' = [n \in Msgs |-> <<>>] /\ edit' = 0
  /\ viewer' = [v \in Viewers |-> "idle"]
  /\ history' = [v \in Viewers |-> <<>>] /\ loaded' = history'
  /\ at' = [v \in Viewers |-> 1] /\ against' = [v \in Viewers |-> 2]
  /\ UNCHANGED <<taken, row>>

Update(n) == ReadCache(n) \/ WriteCache(n)

\* What a viewer goroutine does once it runs; a new connection starts it.
View(v) == \/ AskDatabase(v) \/ FillCache(v) \/ Compare(v) \/ Advance(v)
           \/ Leave(v)

Next ==
  \/ PublishEdit \/ Expire \/ Restart
  \/ \E n \in Msgs : Post(n) \/ StoreEdit(n) \/ Create(n) \/ Update(n)
  \/ \E v \in Viewers : AskCache(v) \/ View(v)

Spec == Init /\ [][Next]_vars

\* Goroutines end, the manager finishes the edit it has begun, and an entry
\* that nobody sets again expires.  No user has to post, edit or connect.
Fairness ==
  /\ WF_vars(PublishEdit) /\ WF_vars(Expire)
  /\ \A n \in Msgs : WF_vars(Create(n)) /\ WF_vars(Update(n))
  /\ \A v \in Viewers : WF_vars(View(v))

FairSpec == Spec /\ Fairness

-----------------------------------------------------------------------------
(* Properties.                                                             *)

TypeOK ==
  /\ taken \subseteq Msgs
  /\ row \in [Msgs -> NoRow..MaxRev]
  /\ cache \in Seq(Entry)
  /\ saver \in [Msgs -> {"off", "create", "done"}]
  /\ updater \in [Msgs -> {"off", "get", "set", "done"}]
  /\ list \in [Msgs -> Seq(Entry)]
  /\ edit \in 0..MaxMsgs
  /\ viewer \in [Viewers -> {"idle", "miss", "fill", "sort"}]
  /\ history \in [Viewers -> Seq(Entry)] /\ loaded \in [Viewers -> Seq(Entry)]
  /\ at \in [Viewers -> Nat \ {0}] /\ against \in [Viewers -> Nat]

\* No interleaving of updates and fills makes the cached list, or a history,
\* longer than a hundred messages.
CacheBounded ==
  /\ Len(cache) <= Limit
  /\ \A v \in Viewers : Len(history[v]) <= Limit

\* Nothing that was not broadcast is cached or replayed, and no text that
\* the database does not have: an edit is visible only once it is stored.
NothingAhead ==
  \A s \in {cache} \union {history[v] : v \in Viewers} :
    \A e \in Range(s) : e.msg \in taken /\ (e.rev > 0 => e.rev <= row[e.msg])

Ordered(s) == \A i, j \in 1..Len(s) : i < j => s[i].msg <= s[j].msg

Rearranged(s) ==
  {[k \in 1..Len(s) |-> s[p[k]]] : p \in Bijection(1..Len(s), 1..Len(s))}

\* A history is sent in the order of the timestamps, whatever order the cache
\* was filled in, and the loops that sort it lose and repeat nothing of what
\* was loaded, also when it has a message twice.
HistoryInOrder ==
  \A v \in Viewers :
    Sorted(v) => Ordered(history[v]) /\ history[v] \in Rearranged(loaded[v])

\* Lost updates, stale fills and partial lists do not last: once messages
\* and edits stop, the cache ends up empty or equal to what the database
\* would answer, and so does every later history.
CacheHeals == <>[](cache \in Recent \union {<<>>})
=============================================================================
