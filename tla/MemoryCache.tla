----------------------------- MODULE MemoryCache -----------------------------
(***************************************************************************)
(* The cache in memory (repository/cache/memory.go) lock by lock: the list *)
(* of recent messages under messagesMu, the entries of a session under     *)
(* sessionsMu, the statistics under statsMu, which a read takes while it   *)
(* holds the other, and the cleanup goroutine.  The mutexes are those of   *)
(* package sync: a writer that waits keeps new readers out.                *)
(*                                                                         *)
(* Left out are the calls no part of the program makes (AddMessage,        *)
(* GetStats), the cached users, which are stored like sessions and never   *)
(* read, and the numbers that are counted.  Of the sessions one is enough: *)
(* different keys meet only in the lock.                                   *)
(*                                                                         *)
(* A definition named X_Y is X with a fault Y a programmer could make: a   *)
(* property must fail once X is replaced by it.                            *)
(***************************************************************************)
EXTENDS Integers

CONSTANTS
  Callers,  \* goroutines that call the cache
  Cleaner,  \* the goroutine of cleanupLoop
  Values,   \* lists and sessions that are stored
  None,     \* an absent entry, or the empty list
  TTL,      \* MemoryCache.ttl
  MaxTime   \* bound: the time at which a run ends

ASSUME CacheAssumption ==
  Cleaner \notin Callers /\ None \notin Values /\ TTL \in Nat /\ MaxTime \in Nat

VARIABLES
  clock,    \* the time
  value,    \* c.messages and the entry of c.sessions
  stamp,    \* c.messagesTime and the timestamp of that entry
  readers,  \* goroutines that hold messagesMu or sessionsMu for reading
  writer,   \* the one that holds it for writing or is next to, in a set
  counting, \* the one that holds statsMu, in a set
  pc,       \* where each goroutine is
  job,      \* its call
  hit,      \* whether its read found the entry fresh
  now,      \* the time cleanup has begun at
  oldTime   \* messagesTime as cleanup has read it

vars == <<clock, value, stamp, readers, writer, counting, pc, job, hit, now,
          oldTime>>

-----------------------------------------------------------------------------
Cells == {"messages", "sessions"}
Procs == Callers \union {Cleaner}

NoJob == [op |-> "none", cell |-> None, val |-> None]

\* time.Time{}: older than any TTL.
Never == -(TTL + 1)

Fresh(at, c) == at - stamp[c] <= TTL

Goto(p, label) == pc' = [pc EXCEPT ![p] = label]

Init ==
  /\ clock = 0
  /\ value = [c \in Cells |-> None] /\ stamp = [c \in Cells |-> Never]
  /\ readers = [c \in Cells |-> {}] /\ writer = [c \in Cells |-> {}]
  /\ counting = {}
  /\ pc = [p \in Procs |-> "idle"] /\ job = [p \in Procs |-> NoJob]
  /\ hit = [p \in Callers |-> FALSE]
  /\ now = 0 /\ oldTime = Never

-----------------------------------------------------------------------------
(* A caller begins a call.                                                 *)

Get(p, c) ==
  /\ pc[p] = "idle" /\ Goto(p, "rlock")
  /\ job' = [job EXCEPT ![p] = [op |-> "get", cell |-> c, val |-> None]]
  /\ UNCHANGED <<clock, value, stamp, readers, writer, counting, hit, now,
                 oldTime>>

Set(p, c, v) ==
  /\ pc[p] = "idle" /\ Goto(p, "lock")
  /\ job' = [job EXCEPT ![p] = [op |-> "set", cell |-> c, val |-> v]]
  /\ UNCHANGED <<clock, value, stamp, readers, writer, counting, hit, now,
                 oldTime>>

Invalidate(p, c) ==
  /\ pc[p] = "idle" /\ Goto(p, "lock")
  /\ job' = [job EXCEPT ![p] = [op |-> "invalidate", cell |-> c, val |-> None]]
  /\ UNCHANGED <<clock, value, stamp, readers, writer, counting, hit, now,
                 oldTime>>

-----------------------------------------------------------------------------
(* RWMutex.  Lock keeps new readers out, then waits for those there are.   *)

RLock(p) ==
  LET c == job[p].cell IN
    /\ pc[p] = "rlock" /\ writer[c] = {}
    /\ readers' = [readers EXCEPT ![c] = @ \union {p}]
    /\ Goto(p, IF p = Cleaner THEN "look" ELSE "check")
    /\ UNCHANGED <<clock, value, stamp, writer, counting, job, hit, now, oldTime>>

Lock(p) ==
  LET c == job[p].cell IN
    /\ pc[p] = "lock" /\ writer[c] = {}
    /\ writer' = [writer EXCEPT ![c] = {p}]
    /\ Goto(p, "write")
    /\ UNCHANGED <<clock, value, stamp, readers, counting, job, hit, now, oldTime>>

RUnlock(p, c) == readers' = [readers EXCEPT ![c] = @ \ {p}]

Locked(p, c) == pc[p] = "write" /\ readers[c] = {}

-----------------------------------------------------------------------------
(* GetRecentMessages and GetSession                                        *)

\* Gives the lock back before it counts, so as never to hold two.
Check_Unlocks(p) ==
  LET c == job[p].cell IN
    /\ pc[p] = "check" /\ Goto(p, "stats")
    /\ hit' = [hit EXCEPT ![p] = Fresh(clock, c) /\ value[c] # None]
    /\ RUnlock(p, c)
    /\ UNCHANGED <<clock, value, stamp, writer, counting, job, now, oldTime>>

\* Removes an entry that is too old at once, with the read lock held.
Check_Removes(p) ==
  LET c == job[p].cell IN
    /\ pc[p] = "check"
    /\ IF Fresh(clock, c) \/ value[c] = None
       THEN Goto(p, "stats") /\ UNCHANGED job
       ELSE /\ Goto(p, "lock")
            /\ job' = [job EXCEPT ![p].op = "invalidate"]
    /\ hit' = [hit EXCEPT ![p] = Fresh(clock, c) /\ value[c] # None]
    /\ UNCHANGED <<clock, value, stamp, readers, writer, counting, now, oldTime>>

Check(p) ==
  LET c == job[p].cell IN
    /\ pc[p] = "check" /\ Goto(p, "stats")
    /\ hit' = [hit EXCEPT ![p] = Fresh(clock, c) /\ value[c] # None]
    /\ UNCHANGED <<clock, value, stamp, readers, writer, counting, job, now,
                   oldTime>>

\* updateStats, with the other lock held.
CountLock(p) ==
  /\ pc[p] = "stats" /\ counting = {} /\ counting' = {p}
  /\ Goto(p, "count")
  /\ UNCHANGED <<clock, value, stamp, readers, writer, job, hit, now, oldTime>>

Count(p) ==
  /\ pc[p] = "count" /\ counting' = {}
  /\ Goto(p, "copy")
  /\ UNCHANGED <<clock, value, stamp, readers, writer, job, hit, now, oldTime>>

\* Returns on a miss before it has given the lock back.
Copy_KeepsLock(p) ==
  LET c == job[p].cell IN
    /\ pc[p] = "copy" /\ Goto(p, "done")
    /\ IF hit[p] THEN /\ job' = [job EXCEPT ![p].val = value[c]]
                      /\ RUnlock(p, c)
                 ELSE UNCHANGED <<job, readers>>
    /\ hit' = [hit EXCEPT ![p] = FALSE]
    /\ UNCHANGED <<clock, value, stamp, writer, counting, now, oldTime>>

Copy(p) ==
  LET c == job[p].cell IN
    /\ pc[p] = "copy" /\ Goto(p, "done")
    /\ job' = [job EXCEPT ![p].val = IF hit[p] THEN value[c] ELSE None]
    /\ hit' = [hit EXCEPT ![p] = FALSE]
    /\ RUnlock(p, c)
    /\ UNCHANGED <<clock, value, stamp, writer, counting, now, oldTime>>

-----------------------------------------------------------------------------
(* SetRecentMessages and SetSession, InvalidateMessages and                *)
(* InvalidateSession; a session that is deleted has no timestamp either.   *)

Write(p) ==
  LET c == job[p].cell IN
    /\ Locked(p, c) /\ job[p].op \in {"set", "invalidate"}
    /\ value' = [value EXCEPT ![c] = job[p].val]
    /\ stamp' = [stamp EXCEPT ![c] = IF job[p].op = "set" THEN clock ELSE Never]
    /\ writer' = [writer EXCEPT ![c] = {}]
    /\ Goto(p, "done")
    /\ UNCHANGED <<clock, readers, counting, job, hit, now, oldTime>>

Return(p) ==
  /\ pc[p] = "done" /\ Goto(p, "idle")
  /\ job' = [job EXCEPT ![p] = NoJob]
  /\ IF p = Cleaner THEN now' = 0 /\ oldTime' = Never
                    ELSE UNCHANGED <<now, oldTime>>
  /\ UNCHANGED <<clock, value, stamp, readers, writer, counting, hit>>

-----------------------------------------------------------------------------
(* cleanup                                                                 *)

\* The ticker has fired; the time is read once for all that follows.
Cleanup ==
  /\ pc[Cleaner] = "idle" /\ Goto(Cleaner, "lock")
  /\ now' = clock
  /\ job' = [job EXCEPT ![Cleaner] =
              [op |-> "sweep", cell |-> "sessions", val |-> None]]
  /\ UNCHANGED <<clock, value, stamp, readers, writer, counting, hit, oldTime>>

\* Deletes every session there is.
Sweep_All ==
  LET c == job[Cleaner].cell IN
    /\ Locked(Cleaner, c) /\ job[Cleaner].op = "sweep"
    /\ value' = [value EXCEPT ![c] = None]
    /\ stamp' = [stamp EXCEPT ![c] = Never]
    /\ writer' = [writer EXCEPT ![c] = {}]
    /\ job' = [job EXCEPT ![Cleaner].cell = "messages"]
    /\ Goto(Cleaner, "rlock")
    /\ UNCHANGED <<clock, readers, counting, hit, now, oldTime>>

\* The sessions are looked at and deleted under one lock.
Sweep ==
  LET c == job[Cleaner].cell IN
    /\ Locked(Cleaner, c) /\ job[Cleaner].op = "sweep"
    /\ IF Fresh(now, c) THEN UNCHANGED <<value, stamp>>
                        ELSE /\ value' = [value EXCEPT ![c] = None]
                             /\ stamp' = [stamp EXCEPT ![c] = Never]
    /\ writer' = [writer EXCEPT ![c] = {}]
    /\ job' = [job EXCEPT ![Cleaner].cell = "messages"]
    /\ Goto(Cleaner, "rlock")
    /\ UNCHANGED <<clock, readers, counting, hit, now, oldTime>>

\* Takes the age of the list for its time.
Look_Age ==
  /\ pc[Cleaner] = "look" /\ Goto(Cleaner, "decide")
  /\ oldTime' = now - stamp["messages"]
  /\ RUnlock(Cleaner, "messages")
  /\ UNCHANGED <<clock, value, stamp, writer, counting, job, hit, now>>

\* The age of the list is read under the lock ...
Look ==
  /\ pc[Cleaner] = "look" /\ Goto(Cleaner, "decide")
  /\ oldTime' = stamp["messages"]
  /\ RUnlock(Cleaner, "messages")
  /\ UNCHANGED <<clock, value, stamp, writer, counting, job, hit, now>>

\* Looks again before it invalidates, so as not to drop a list that has come
\* in between, and never gets further.
Decide_LooksAgain ==
  /\ pc[Cleaner] = "decide"
  /\ Goto(Cleaner, IF now - oldTime > TTL THEN "rlock" ELSE "done")
  /\ UNCHANGED <<clock, value, stamp, readers, writer, counting, job, hit, now,
                 oldTime>>

\* ... and what it says is acted on without it: a list that was stored in
\* between goes too.
Decide ==
  /\ pc[Cleaner] = "decide"
  /\ IF now - oldTime > TTL
     THEN /\ Goto(Cleaner, "lock")
          /\ job' = [job EXCEPT ![Cleaner].op = "invalidate"]
     ELSE Goto(Cleaner, "done") /\ UNCHANGED job
  /\ UNCHANGED <<clock, value, stamp, readers, writer, counting, hit, now,
                 oldTime>>

Pass ==
  /\ clock < MaxTime /\ clock' = clock + 1
  /\ UNCHANGED <<value, stamp, readers, writer, counting, pc, job, hit, now,
                 oldTime>>

-----------------------------------------------------------------------------
Begin(p) ==
  \E c \in Cells : \/ Get(p, c) \/ Invalidate(p, c)
                   \/ \E v \in Values : Set(p, c, v)

Acquire(p) == RLock(p) \/ Lock(p) \/ CountLock(p)

Work(p) ==
  \/ Write(p) \/ Return(p)
  \/ p \in Callers /\ (Check(p) \/ Count(p) \/ Copy(p))
  \/ p = Cleaner /\ (Sweep \/ Look \/ Decide)

Next ==
  \/ Pass \/ Cleanup
  \/ \E p \in Callers : Begin(p)
  \/ \E p \in Procs : Acquire(p) \/ Work(p)

Spec == Init /\ [][Next]_vars

\* A goroutine that can run does, and sync's mutexes starve nobody: readers
\* that wait come before the next writer, and a writer before new readers.
Fairness ==
  /\ \A p \in Procs : SF_vars(Acquire(p)) /\ WF_vars(Work(p))

FairSpec == Spec /\ Fairness

-----------------------------------------------------------------------------
(* Properties.                                                             *)

Labels == {"idle", "rlock", "lock", "check", "stats", "count", "copy",
           "write", "done", "look", "decide"}

TypeOK ==
  /\ clock \in 0..MaxTime
  /\ value \in [Cells -> Values \union {None}]
  /\ stamp \in [Cells -> {Never} \union 0..MaxTime]
  /\ readers \in [Cells -> SUBSET Procs] /\ writer \in [Cells -> SUBSET Procs]
  /\ counting \subseteq Callers
  /\ pc \in [Procs -> Labels]
  /\ job \in [Procs -> [op : {"none", "get", "set", "invalidate", "sweep"},
                        cell : Cells \union {None},
                        val : Values \union {None}]]
  /\ hit \in [Callers -> BOOLEAN]
  /\ now \in 0..MaxTime /\ oldTime \in {Never} \union 0..MaxTime

\* A goroutine holds the locks it works under and no other: none is kept on
\* the way out of a call.
LocksBalanced ==
  \A p \in Procs :
    /\ p \in counting <=> pc[p] = "count"
    /\ \A c \in Cells :
         LET there == job[p].cell = c IN
           /\ p \in readers[c] <=>
                there /\ pc[p] \in {"check", "stats", "count", "copy", "look"}
           /\ p \in writer[c] <=> there /\ pc[p] = "write"

\* q keeps p from going on: it has the lock p asks for, as its writer or the
\* next one, as a reader, or to count.
WaitsFor(p, q) ==
  \/ pc[p] \in {"rlock", "lock"} /\ q \in writer[job[p].cell]
  \/ pc[p] = "write" /\ q \in readers[job[p].cell]
  \/ pc[p] = "stats" /\ q \in counting

Waits(p) == \E q \in Procs : WaitsFor(p, q)

\* A goroutine of a call waits for no lock.
Runs(p) == pc[p] # "idle" /\ ~Waits(p)

\* Nobody waits in a circle: behind every goroutine that waits, at most three
\* locks away, is one in the middle of a call that can go on.
NoDeadlock ==
  \A p \in Procs : Waits(p) =>
    \E q \in Procs :
      /\ WaitsFor(p, q)
      /\ \/ Runs(q)
         \/ \E r \in Procs :
              /\ WaitsFor(q, r)
              /\ Runs(r) \/ \E s \in Procs : WaitsFor(r, s) /\ Runs(s)

\* A call as its caller sees it: a read has found what it returns when it has
\* looked at the age, and what it copies later is still that.
Call(p) ==
  [op |-> job[p].op, cell |-> job[p].cell,
   val |-> IF pc[p] \in {"stats", "count", "copy"} /\ hit[p]
           THEN value[job[p].cell] ELSE job[p].val,
   at |-> IF pc[p] \in {"stats", "count", "copy", "done"} THEN "over"
                                                          ELSE "begun"]

Cache == INSTANCE ExpiringCache
           WITH Lossy <- {"messages"}, call <- [p \in Callers |-> Call(p)]

\* Every call has its effect in one moment, and no session is lost before
\* its time, whatever the cleanup and the other callers do.
CacheSpec == Cache!Spec

\* No call waits for ever, although a read takes statsMu while it holds the
\* other lock and a waiting writer keeps new readers out.
CallsReturn == \A p \in Procs : []<>(pc[p] = "idle")
=============================================================================
