-------------------------- MODULE MemoryCacheProofs --------------------------
(***************************************************************************)
(* Proofs about MemoryCache, for any number of callers, values and any     *)
(* TTL: no lock is kept on the way out of a call, and the cache, with its  *)
(* locks and its cleanup, implements ExpiringCache.                        *)
(***************************************************************************)
EXTENDS MemoryCache, TLAPS

-----------------------------------------------------------------------------
(* The inductive invariant.                                                *)

\* Between checking the age and giving the lock back.
Reading == {"stats", "count", "copy"}

\* A caller's goroutine does the call it has begun.
CallerInv ==
  \A p \in Callers :
    /\ pc[p] = "idle" => job[p] = NoJob
    /\ pc[p] # "idle" => job[p].cell \in Cells
    /\ pc[p] \in {"rlock", "check"} \union Reading =>
         job[p].op = "get" /\ job[p].val = None
    /\ pc[p] \in {"lock", "write"} => job[p].op \in {"set", "invalidate"}
    /\ job[p].op = "invalidate" => job[p].val = None
    /\ pc[p] \notin {"look", "decide"}

\* The cleanup goroutine sweeps the sessions, then may invalidate the list.
CleanerInv ==
  /\ now <= clock
  /\ pc[Cleaner] \in {"lock", "write"} =>
       \/ job[Cleaner].op = "sweep" /\ job[Cleaner].cell = "sessions"
       \/ job[Cleaner].op = "invalidate" /\ job[Cleaner].cell = "messages"
  /\ pc[Cleaner] \in {"rlock", "look", "decide"} =>
       job[Cleaner].op = "sweep" /\ job[Cleaner].cell = "messages"
  /\ job[Cleaner].val = None
  /\ pc[Cleaner] \notin {"check"} \union Reading

\* At most one goroutine writes a cell or is next to, and one counts.
OneWriter ==
  /\ \A c \in Cells : \A p, q \in writer[c] : p = q
  /\ \A p, q \in counting : p = q

IInv == TypeOK /\ LocksBalanced /\ OneWriter /\ CallerInv /\ CleanerInv

LEMMA InitInv == Init => IInv
  BY CacheAssumption, SMT
     DEF Init, IInv, TypeOK, LocksBalanced, OneWriter, CallerInv, CleanerInv, Procs, Cells,
         NoJob, Never, Labels, Reading

-----------------------------------------------------------------------------
(* One lemma for each step: it keeps the invariant.                        *)

LEMMA BeginInv ==
  ASSUME IInv, NEW p \in Callers, Begin(p)
  PROVE  IInv'
  BY CacheAssumption, SMT
     DEF Begin, Get, Set, Invalidate, Goto, IInv, TypeOK, LocksBalanced,
         OneWriter, CallerInv, CleanerInv, Procs, Cells, Labels, Reading

LEMMA RLockInv ==
  ASSUME IInv, NEW p \in Procs, RLock(p)
  PROVE  IInv'
  BY CacheAssumption, SMT
     DEF RLock, Goto, IInv, TypeOK, LocksBalanced, OneWriter, CallerInv, CleanerInv,
         Procs, Cells, Labels, Reading, NoJob

LEMMA LockInv ==
  ASSUME IInv, NEW p \in Procs, Lock(p)
  PROVE  IInv'
  BY CacheAssumption, SMT
     DEF Lock, Goto, IInv, TypeOK, LocksBalanced, OneWriter, CallerInv, CleanerInv,
         Procs, Cells, Labels, Reading, NoJob

LEMMA CheckInv ==
  ASSUME IInv, NEW p \in Callers, Check(p)
  PROVE  IInv'
  BY CacheAssumption, SMT
     DEF Check, Fresh, Goto, IInv, TypeOK, LocksBalanced, OneWriter, CallerInv, CleanerInv,
         Procs, Cells, Labels, Reading, NoJob

LEMMA CountLockInv ==
  ASSUME IInv, NEW p \in Callers, CountLock(p)
  PROVE  IInv'
  BY CacheAssumption, SMT
     DEF CountLock, Goto, IInv, TypeOK, LocksBalanced, OneWriter, CallerInv, CleanerInv,
         Procs, Cells, Labels, Reading, NoJob

LEMMA CountLockCallerInv ==
  ASSUME IInv, NEW p \in Procs, CountLock(p)
  PROVE  IInv'
<1>1. p \in Callers
  BY SMT DEF CountLock, IInv, CleanerInv, Reading, Procs
<1>2. QED
  BY <1>1, CountLockInv

LEMMA CountInv ==
  ASSUME IInv, NEW p \in Callers, Count(p)
  PROVE  IInv'
  BY CacheAssumption, SMT
     DEF Count, Goto, IInv, TypeOK, LocksBalanced, OneWriter, CallerInv, CleanerInv,
         Procs, Cells, Labels, Reading, NoJob

LEMMA CopyInv ==
  ASSUME IInv, NEW p \in Callers, Copy(p)
  PROVE  IInv'
  BY CacheAssumption, SMT
     DEF Copy, RUnlock, Goto, IInv, TypeOK, LocksBalanced, OneWriter, CallerInv,
         CleanerInv, Procs, Cells, Labels, Reading, NoJob

LEMMA WriteInv ==
  ASSUME IInv, NEW p \in Procs, Write(p)
  PROVE  IInv'
  BY CacheAssumption, SMT
     DEF Write, Locked, Goto, IInv, TypeOK, LocksBalanced, OneWriter, CallerInv,
         CleanerInv, Procs, Cells, Labels, Reading, NoJob

LEMMA ReturnInv ==
  ASSUME IInv, NEW p \in Procs, Return(p)
  PROVE  IInv'
  BY CacheAssumption, SMT
     DEF Return, Goto, IInv, TypeOK, LocksBalanced, OneWriter, CallerInv, CleanerInv,
         Procs, Cells, Labels, Reading, NoJob

LEMMA CleanupInv ==
  ASSUME IInv, Cleanup
  PROVE  IInv'
  BY CacheAssumption, SMT
     DEF Cleanup, Goto, IInv, TypeOK, LocksBalanced, OneWriter, CallerInv, CleanerInv,
         Procs, Cells, Labels, Reading, NoJob

LEMMA SweepInv ==
  ASSUME IInv, Sweep
  PROVE  IInv'
  BY CacheAssumption, SMT
     DEF Sweep, Locked, Fresh, Goto, IInv, TypeOK, LocksBalanced, OneWriter, CallerInv,
         CleanerInv, Procs, Cells, Labels, Reading, NoJob

LEMMA LookInv ==
  ASSUME IInv, Look
  PROVE  IInv'
  BY CacheAssumption, SMT
     DEF Look, RUnlock, Goto, IInv, TypeOK, LocksBalanced, OneWriter, CallerInv,
         CleanerInv, Procs, Cells, Labels, Reading, NoJob

LEMMA DecideInv ==
  ASSUME IInv, Decide
  PROVE  IInv'
  BY CacheAssumption, SMT
     DEF Decide, Goto, IInv, TypeOK, LocksBalanced, OneWriter, CallerInv, CleanerInv,
         Procs, Cells, Labels, Reading, NoJob

LEMMA PassInv ==
  ASSUME IInv, Pass
  PROVE  IInv'
  BY CacheAssumption, SMT
     DEF Pass, IInv, TypeOK, LocksBalanced, OneWriter, CallerInv, CleanerInv

\* The invariant of the cache: Spec keeps it.
THEOREM CacheInvariant == Spec => []IInv
<1>1. IInv /\ [Next]_vars => IInv'
  <2> SUFFICES ASSUME IInv, [Next]_vars PROVE IInv'
    OBVIOUS
  <2>1. CASE Pass \/ Cleanup
    BY <2>1, PassInv, CleanupInv
  <2>2. ASSUME NEW p \in Callers, Begin(p) PROVE IInv'
    BY <2>2, BeginInv
  <2>3. ASSUME NEW p \in Procs, Acquire(p) PROVE IInv'
    BY <2>3, RLockInv, LockInv, CountLockCallerInv DEF Acquire
  <2>4. ASSUME NEW p \in Procs, Work(p) PROVE IInv'
    BY <2>4, CheckInv, CountInv, CopyInv, WriteInv, ReturnInv, SweepInv,
       LookInv, DecideInv DEF Work
  <2>5. CASE UNCHANGED vars
    BY <2>5, SMT DEF vars, IInv, TypeOK, LocksBalanced, OneWriter, CallerInv,
       CleanerInv
  <2>6. QED
    BY <2>1, <2>2, <2>3, <2>4, <2>5 DEF Next
<1>2. QED
  BY <1>1, InitInv, PTL DEF Spec

\* Every variable of the cache has its type.
THEOREM CacheTypes == Spec => []TypeOK
<1>1. IInv => TypeOK
  BY DEF IInv
<1>2. QED
  BY <1>1, CacheInvariant, PTL

\* memory.go:62-134 and 174-206: every call gives its lock back on every path
\* out of it, and works under no other.
THEOREM LocksGivenBack == Spec => []LocksBalanced
<1>1. IInv => LocksBalanced
  BY DEF IInv
<1>2. QED
  BY <1>1, CacheInvariant, PTL

-----------------------------------------------------------------------------
(* Deadlock freedom.  The locks are ordered: to be a writer, to have the   *)
(* readers gone, to count.  Who is waited for is further on than who waits.*)

\* The one a goroutine waits for, by the lock it waits for.
LEMMA WaitsInOrder ==
  ASSUME IInv, NEW p \in Procs, NEW q \in Procs, WaitsFor(p, q)
  PROVE  /\ pc[p] \in {"rlock", "lock"} => pc[q] = "write"
         /\ pc[p] = "write" => pc[q] \in {"check", "stats", "count", "copy", "look"}
         /\ pc[p] = "stats" => pc[q] = "count"
         /\ pc[p] \in {"rlock", "lock", "write", "stats"}
<1>1. pc[p] \in {"rlock", "lock", "write"} => job[p].cell \in Cells
  BY CacheAssumption, SMT
     DEF IInv, CallerInv, CleanerInv, Procs, Reading, Cells
<1>2. QED
  BY <1>1, SMT DEF WaitsFor, IInv, LocksBalanced

LEMMA OneWaitsOrRuns ==
  ASSUME NEW p \in Procs, pc[p] # "idle", ~Runs(p)
  PROVE  \E q \in Procs : WaitsFor(p, q)
  BY DEF Runs, Waits

\* memory.go:67-76, 180-184 and 210: a read counts while it holds the lock it reads
\* under, and no number of callers gets into a circle that way.
THEOREM NoCircularWait == Spec => []NoDeadlock
<1>1. ASSUME IInv PROVE NoDeadlock
  <2> SUFFICES ASSUME NEW p \in Procs, NEW q \in Procs, WaitsFor(p, q)
               PROVE  \E t \in Procs :
                        /\ WaitsFor(p, t)
                        /\ \/ Runs(t)
                           \/ \E r \in Procs :
                                /\ WaitsFor(t, r)
                                /\ \/ Runs(r)
                                   \/ \E s \in Procs : WaitsFor(r, s) /\ Runs(s)
    BY Zenon DEF NoDeadlock, Waits
  <2>1. pc[q] \in {"write", "check", "stats", "count", "copy", "look"}
    BY <1>1, WaitsInOrder
  <2>2. CASE Runs(q)
    BY <2>2
  <2>3. CASE ~Runs(q)
    <3>1. PICK r \in Procs : WaitsFor(q, r)
      BY <2>1, <2>3, OneWaitsOrRuns
    <3>2. pc[r] \in {"check", "stats", "count", "copy", "look"}
      BY <1>1, <2>1, <3>1, WaitsInOrder
    <3>3. CASE Runs(r)
      BY <3>1, <3>3
    <3>4. CASE ~Runs(r)
      <4>1. PICK s \in Procs : WaitsFor(r, s)
        BY <3>2, <3>4, OneWaitsOrRuns
      <4>2. pc[s] = "count"
        BY <1>1, <3>2, <4>1, WaitsInOrder
      <4>3. Runs(s)
        BY <1>1, <4>2, WaitsInOrder DEF Runs, Waits
      <4>4. QED
        BY <3>1, <4>1, <4>3
    <3>5. QED
      BY <3>3, <3>4
  <2>4. QED
    BY <2>2, <2>3
<1>2. QED
  BY <1>1, CacheInvariant, PTL

-----------------------------------------------------------------------------
(* The refinement: one lemma for each step that is more than a stutter.    *)

\* What the users of the cache see is as before.
Unseen == /\ UNCHANGED <<clock, value, stamp>>
          /\ \A p \in Callers : Call(p)' = Call(p)

LEMMA UnseenStutters == ASSUME Unseen PROVE UNCHANGED Cache!vars
  BY DEF Unseen, Cache!vars

\* Only the call of p is not as before.
Others(p) == \A q \in Callers \ {p} : Call(q)' = Call(q)

LEMMA CallChanges ==
  ASSUME NEW p \in Callers, Others(p), NEW r, Call(p)' = r
  PROVE  [q \in Callers |-> Call(q)]' =
           [[q \in Callers |-> Call(q)] EXCEPT ![p] = r]
  BY DEF Others

\* The same, for a call whose moment this is.
LEMMA CallTakes ==
  ASSUME NEW p \in Callers, Others(p), NEW o, NEW c, NEW v, NEW w,
         Call(p)  = [op |-> o, cell |-> c, val |-> v, at |-> "begun"],
         Call(p)' = [op |-> o, cell |-> c, val |-> w, at |-> "over"]
  PROVE  /\ [q \in Callers |-> Call(q)][p] =
              [op |-> o, cell |-> c, val |-> v, at |-> "begun"]
         /\ Cache!Passed(p, w)
  BY CallChanges DEF Cache!Passed

LEMMA InitMaps == ASSUME Init PROVE Cache!Init
<1>1. \A p \in Callers : Call(p) = Cache!NoCall
  BY DEF Init, Call, NoJob, Cache!NoCall, Procs
<1>2. [p \in Callers |-> Call(p)] = [p \in Callers |-> Cache!NoCall]
  BY <1>1
<1>3. QED
  BY <1>2 DEF Init, Cache!Init, Never, Cache!Never

\* What the steps below need of the types.
LEMMA Shapes ==
  ASSUME IInv, NEW p \in Callers
  PROVE  /\ p \in Procs /\ pc \in [Procs -> Labels]
         /\ hit \in [Callers -> BOOLEAN]
         /\ job \in [Procs -> [op : {"none", "get", "set", "invalidate", "sweep"},
                              cell : Cells \union {None},
                              val : Values \union {None}]]
         /\ value \in [Cells -> Values \union {None}]
         /\ stamp \in [Cells -> {Never} \union 0..MaxTime]
  BY DEF IInv, TypeOK, Procs

LEMMA BeginMaps ==
  ASSUME IInv, NEW p \in Callers, Begin(p)
  PROVE  Cache!Next
<1>1. PICK op \in {"get", "set", "invalidate"}, c \in Cells,
           v \in Values \union {None} :
        /\ pc[p] = "idle" /\ pc' = [pc EXCEPT ![p] = IF op = "get" THEN "rlock" ELSE "lock"]
        /\ job' = [job EXCEPT ![p] = [op |-> op, cell |-> c, val |-> v]]
        /\ UNCHANGED <<clock, value, stamp, hit>>
  BY Zenon DEF Begin, Get, Set, Invalidate, Goto
<1>2. job[p] = NoJob
  BY <1>1 DEF IInv, CallerInv
<1>3. Others(p)
  BY <1>1, Shapes, SMT DEF Others, Call, Procs
<1>4. /\ Call(p) = Cache!NoCall
      /\ Call(p)' = [op |-> op, cell |-> c, val |-> v, at |-> "begun"]
  BY <1>1, <1>2, Shapes, SMT DEF Call, Cache!NoCall, NoJob, Procs
<1>5. Cache!Begin(p, op, c, v)
  BY <1>1, <1>3, <1>4, CallChanges DEF Cache!Begin
<1>6. QED
  BY <1>5 DEF Cache!Next

LEMMA CheckMaps ==
  ASSUME IInv, NEW p \in Callers, Check(p)
  PROVE  Cache!Next
<1> DEFINE c == job[p].cell
<1>1. /\ p \in Procs /\ pc[p] = "check" /\ pc' = [pc EXCEPT ![p] = "stats"]
      /\ hit' = [hit EXCEPT ![p] = Fresh(clock, c) /\ value[c] # None]
      /\ UNCHANGED <<clock, value, stamp, job>>
  BY DEF Check, Goto, Procs
<1>2. job[p].op = "get" /\ job[p].val = None /\ c \in Cells
  BY <1>1, SMT DEF IInv, CallerInv
<1>3. Others(p)
  BY <1>1, <1>2, Shapes, SMT DEF Others, Call, Procs
<1>4. /\ pc'[p] = "stats" /\ value' = value /\ job' = job
      /\ hit'[p] <=> clock - stamp[c] <= TTL /\ value[c] # None
  BY <1>1, Shapes DEF Fresh
<1>5. (IF hit'[p] THEN value[c] ELSE None) = Cache!Found(c)
  BY <1>4, Zenon DEF Cache!Found
<1>6. Call(p) = [op |-> "get", cell |-> c, val |-> None, at |-> "begun"]
  BY <1>1, <1>2 DEF Call
<1>7. Call(p)' = [op |-> "get", cell |-> c, val |-> Cache!Found(c), at |-> "over"]
  BY <1>2, <1>4, <1>5 DEF Call
<1>8. Cache!Take(p)
  BY <1>1, <1>3, <1>6, <1>7, CallTakes DEF Cache!Take, Cache!NoCall
<1>9. QED
  BY <1>8 DEF Cache!Next

\* What the abstract call is at the moment of a write.
LEMMA CallNow ==
  ASSUME NEW p \in Callers, Others(p), NEW o, NEW c, NEW v, o # "none",
         Call(p)  = [op |-> o, cell |-> c, val |-> v, at |-> "begun"],
         Call(p)' = [op |-> o, cell |-> c, val |-> v, at |-> "over"]
  PROVE  LET r == [q \in Callers |-> Call(q)][p] IN
           /\ r # Cache!NoCall /\ r.op = o /\ r.cell = c /\ r.at = "begun"
           /\ r.val = v /\ Cache!Passed(p, r.val)
<1>1. /\ [q \in Callers |-> Call(q)][p] =
           [op |-> o, cell |-> c, val |-> v, at |-> "begun"]
      /\ Cache!Passed(p, v)
  BY CallTakes
<1>2. QED
  BY <1>1 DEF Cache!NoCall

LEMMA WriteMaps ==
  ASSUME IInv, NEW p \in Callers, Write(p)
  PROVE  Cache!Next
<1> DEFINE c == job[p].cell
<1>1. /\ p \in Procs /\ pc[p] = "write" /\ pc' = [pc EXCEPT ![p] = "done"]
      /\ readers[c] = {} /\ job[p].op \in {"set", "invalidate"}
      /\ value' = [value EXCEPT ![c] = job[p].val]
      /\ stamp' = [stamp EXCEPT ![c] = IF job[p].op = "set" THEN clock ELSE Never]
      /\ UNCHANGED <<clock, job, hit>>
  BY DEF Write, Locked, Goto, Procs
<1>2. c \in Cells /\ (job[p].op = "invalidate" => job[p].val = None)
  BY <1>1, SMT DEF IInv, CallerInv
<1>3. \A q \in Callers : pc[q] \in Reading => job[q].cell # c
  BY <1>1, <1>2, SMT DEF IInv, LocksBalanced, Procs, Reading
<1>4. Others(p)
  BY <1>1, <1>2, <1>3, Shapes, SMT DEF Others, Call, Procs, Reading
<1>5. /\ Call(p) = [op |-> job[p].op, cell |-> c, val |-> job[p].val,
                    at |-> "begun"]
      /\ Call(p)' = [op |-> job[p].op, cell |-> c, val |-> job[p].val,
                     at |-> "over"]
  BY <1>1, <1>2, Shapes, SMT DEF Call
<1>6. CASE job[p].op = "set"
  <2>1. /\ Call(p) = [op |-> "set", cell |-> c, val |-> job[p].val, at |-> "begun"]
        /\ Call(p)' = [op |-> "set", cell |-> c, val |-> job[p].val, at |-> "over"]
        /\ stamp' = [stamp EXCEPT ![c] = clock]
    BY <1>1, <1>5, <1>6
  <2>2. LET r == [q \in Callers |-> Call(q)][p] IN
          /\ r # Cache!NoCall /\ r.op = "set" /\ r.cell = c /\ r.at = "begun"
          /\ r.val = job[p].val /\ Cache!Passed(p, r.val)
    BY <1>4, <2>1, <1>2, <1>6, CallNow
  <2>3. Cache!Take(p)
    BY <1>1, <2>1, <2>2, Zenon DEF Cache!Take
  <2>4. QED
    BY <2>3 DEF Cache!Next
<1>7. CASE job[p].op = "invalidate"
  <2>1. /\ Call(p) = [op |-> "invalidate", cell |-> c, val |-> None, at |-> "begun"]
        /\ Call(p)' = [op |-> "invalidate", cell |-> c, val |-> None, at |-> "over"]
        /\ value' = [value EXCEPT ![c] = None]
        /\ stamp' = [stamp EXCEPT ![c] = Cache!Never]
    BY <1>1, <1>2, <1>5, <1>7 DEF Never, Cache!Never
  <2>2. LET r == [q \in Callers |-> Call(q)][p] IN
          /\ r # Cache!NoCall /\ r.op = "invalidate" /\ r.cell = c /\ r.at = "begun"
          /\ r.val = job[p].val /\ Cache!Passed(p, r.val)
    BY <1>4, <2>1, <1>2, <1>7, CallNow
  <2>3. Cache!Take(p)
    BY <1>1, <2>1, <2>2, Zenon DEF Cache!Take
  <2>4. QED
    BY <2>3 DEF Cache!Next
<1>8. QED
  BY <1>1, <1>6, <1>7

LEMMA EndMaps ==
  ASSUME IInv, NEW p \in Callers, Return(p)
  PROVE  Cache!Next
<1>1. /\ p \in Procs /\ pc[p] = "done" /\ pc' = [pc EXCEPT ![p] = "idle"]
      /\ job' = [job EXCEPT ![p] = NoJob]
      /\ UNCHANGED <<clock, value, stamp, hit>>
  BY DEF Return, Goto, Procs
<1>2. Others(p)
  BY <1>1, Shapes, SMT DEF Others, Call, Procs
<1>3. Call(p).at = "over" /\ Call(p)' = Cache!NoCall
  BY <1>1, Shapes, SMT DEF Call, NoJob, Cache!NoCall
<1>4. Cache!End(p)
  BY <1>1, <1>2, <1>3, CallChanges DEF Cache!End
<1>5. QED
  BY <1>4 DEF Cache!Next

\* InvalidateMessages, called by cleanup: a list that is still fresh may go.
LEMMA DropMaps ==
  ASSUME IInv, Write(Cleaner)
  PROVE  Cache!Next
<1>1. /\ pc[Cleaner] = "write" /\ pc' = [pc EXCEPT ![Cleaner] = "done"]
      /\ job[Cleaner].op = "invalidate" /\ job[Cleaner].cell = "messages"
      /\ job[Cleaner].val = None /\ readers["messages"] = {}
      /\ UNCHANGED <<clock, job, hit>>
  BY SMT DEF Write, Locked, Goto, IInv, CleanerInv
<1>2. /\ value' = [value EXCEPT !["messages"] = None]
      /\ stamp' = [stamp EXCEPT !["messages"] = Cache!Never]
  BY <1>1 DEF Write, Never, Cache!Never
<1>3. ASSUME NEW q \in Callers PROVE Call(q)' = Call(q)
  <2>1. q # Cleaner /\ (pc[q] \in Reading => job[q].cell # "messages")
    BY <1>1, CacheAssumption, SMT
       DEF IInv, LocksBalanced, Procs, Reading, Cells
  <2>2. QED
    BY <1>1, <1>2, <2>1, Shapes, SMT DEF IInv, CallerInv, Call, Reading
<1>4. [q \in Callers |-> Call(q)]' = [q \in Callers |-> Call(q)]
  BY <1>3
<1>5. Cache!Lose("messages")
  BY <1>1, <1>2, <1>4 DEF Cache!Lose
<1>6. QED
  BY <1>5 DEF Cache!Next, Cells

\* The sessions whose TTL is over.
LEMMA SweepMaps ==
  ASSUME IInv, Sweep
  PROVE  Cache!Next \/ Unseen
<1>1. /\ pc[Cleaner] = "write" /\ pc' = [pc EXCEPT ![Cleaner] = "rlock"]
      /\ job[Cleaner].cell = "sessions" /\ readers["sessions"] = {}
      /\ job' = [job EXCEPT ![Cleaner].cell = "messages"]
      /\ UNCHANGED <<clock, hit>>
  BY SMT DEF Sweep, Locked, Goto, IInv, CleanerInv
<1>2. ASSUME NEW q \in Callers
      PROVE  /\ q # Cleaner /\ pc'[q] = pc[q] /\ job'[q] = job[q]
             /\ hit'[q] = hit[q]
             /\ pc[q] \in Reading => job[q].cell \in Cells \ {"sessions"}
  BY <1>1, CacheAssumption, Shapes, SMT
     DEF IInv, CallerInv, LocksBalanced, Procs, Reading, Cells
<1>3. CASE Fresh(now, "sessions")
  <2>1. UNCHANGED <<value, stamp>>
    BY <1>1, <1>3 DEF Sweep
  <2>2. QED
    BY <1>1, <1>2, <2>1 DEF Unseen, Call
<1>4. CASE ~Fresh(now, "sessions")
  <2>1. /\ value' = [value EXCEPT !["sessions"] = None]
        /\ stamp' = [stamp EXCEPT !["sessions"] = Cache!Never]
    BY <1>1, <1>4 DEF Sweep, Never, Cache!Never
  <2>2. ~(clock - stamp["sessions"] <= TTL)
    BY <1>4, CacheAssumption, SMT
       DEF Fresh, IInv, TypeOK, CleanerInv, Never, Cells
  <2>3. ASSUME NEW q \in Callers PROVE Call(q)' = Call(q)
    BY <1>2, <2>1, Shapes, SMT DEF Call, Reading
  <2>4. [q \in Callers |-> Call(q)]' = [q \in Callers |-> Call(q)]
    BY <2>3
  <2>5. Cache!Lose("sessions")
    BY <1>1, <2>1, <2>2, <2>4 DEF Cache!Lose, Cache!Found
  <2>6. QED
    BY <2>5 DEF Cache!Next, Cells
<1>5. QED
  BY <1>3, <1>4

-----------------------------------------------------------------------------
(* The other steps are not seen.                                           *)

LEMMA AcquireUnseen ==
  ASSUME IInv, NEW p \in Procs, Acquire(p)
  PROVE  Unseen
<1>1. /\ UNCHANGED <<clock, value, stamp, job, hit>>
      /\ \/ /\ pc[p] = "rlock"
            /\ \/ pc' = [pc EXCEPT ![p] = "look"]
               \/ pc' = [pc EXCEPT ![p] = "check"]
         \/ pc[p] = "lock" /\ pc' = [pc EXCEPT ![p] = "write"]
         \/ pc[p] = "stats" /\ pc' = [pc EXCEPT ![p] = "count"]
  BY Zenon DEF Acquire, RLock, Lock, CountLock, Goto
<1>2. ASSUME NEW q \in Callers PROVE Call(q)' = Call(q)
  <2>1. /\ q \in Procs /\ pc \in [Procs -> Labels]
    BY Shapes
  <2>2. CASE q # p
    BY <1>1, <2>1, <2>2, Zenon DEF Call
  <2>3. CASE q = p
    <3>1. \/ pc[q] = "rlock" /\ pc'[q] \in {"look", "check"}
          \/ pc[q] = "lock" /\ pc'[q] = "write"
          \/ pc[q] = "stats" /\ pc'[q] = "count"
      BY <1>1, <2>1, <2>3, SMT
    <3>2. QED
      BY <1>1, <3>1, SMT DEF Call
  <2>4. QED
    BY <2>2, <2>3
<1>3. QED
  BY <1>1, <1>2 DEF Unseen

LEMMA CountUnseen ==
  ASSUME IInv, NEW p \in Callers, Count(p)
  PROVE  Unseen
<1>1. /\ UNCHANGED <<clock, value, stamp, job, hit>>
      /\ pc[p] = "count" /\ pc' = [pc EXCEPT ![p] = "copy"]
  BY DEF Count, Goto
<1>2. ASSUME NEW q \in Callers PROVE Call(q)' = Call(q)
  BY <1>1, Shapes, SMT DEF Call
<1>3. QED
  BY <1>1, <1>2 DEF Unseen

\* The copy is what the check found: nothing is written under a reader.
LEMMA CopyUnseen ==
  ASSUME IInv, NEW p \in Callers, Copy(p)
  PROVE  Unseen
<1> DEFINE c == job[p].cell
<1>1. /\ p \in Procs /\ pc[p] = "copy" /\ pc' = [pc EXCEPT ![p] = "done"]
      /\ job' = [job EXCEPT ![p].val = IF hit[p] THEN value[c] ELSE None]
      /\ hit' = [hit EXCEPT ![p] = FALSE]
      /\ UNCHANGED <<clock, value, stamp>>
  BY DEF Copy, Goto, Procs
<1>2. job[p].op = "get" /\ job[p].val = None /\ c \in Cells
  BY <1>1, SMT DEF IInv, CallerInv, Reading
<1>3. Others(p)
  BY <1>1, Shapes, SMT DEF Others, Call, Procs
<1>4. /\ pc'[p] = "done"
      /\ job'[p] = [op |-> "get", cell |-> c,
                    val |-> IF hit[p] THEN value[c] ELSE None]
  BY <1>1, <1>2, Shapes, Zenon
<1>5. Call(p) = [op |-> "get", cell |-> c,
                 val |-> IF hit[p] THEN value[c] ELSE None, at |-> "over"]
  BY <1>1, <1>2 DEF Call
<1>6. Call(p)' = [op |-> "get", cell |-> c,
                  val |-> IF hit[p] THEN value[c] ELSE None, at |-> "over"]
  BY <1>4 DEF Call
<1>7. QED
  BY <1>1, <1>3, <1>5, <1>6 DEF Unseen, Others

\* The cleanup goroutine's other steps.
CleanerMoves ==
  \/ Cleanup \/ Look \/ Decide \/ Return(Cleaner)

LEMMA CleanerUnseen ==
  ASSUME IInv, CleanerMoves
  PROVE  Unseen
<1>1. UNCHANGED <<clock, value, stamp, hit>>
  BY DEF CleanerMoves, Cleanup, Look, Decide, Return
<1>2. ASSUME NEW q \in Callers PROVE pc'[q] = pc[q] /\ job'[q] = job[q]
  BY CacheAssumption, Shapes, SMT
     DEF CleanerMoves, Cleanup, Look, Decide, Return, Goto
<1>3. QED
  BY <1>1, <1>2 DEF Unseen, Call

LEMMA PassMaps ==
  ASSUME Pass
  PROVE  Cache!Next
<1>1. \A q \in Callers : Call(q)' = Call(q)
  BY DEF Pass, Call
<1>2. [q \in Callers |-> Call(q)]' = [q \in Callers |-> Call(q)]
  BY <1>1
<1>3. Cache!Pass
  BY <1>2 DEF Pass, Cache!Pass
<1>4. QED
  BY <1>3 DEF Cache!Next

\* cache.go, memory.go: every call takes effect at one moment, and a session
\* stays until its TTL is over or it is invalidated; only the list of recent
\* messages can be lost, to the cleanup.
THEOREM CacheImplements == Spec => CacheSpec
<1>1. IInv /\ [Next]_vars => [Cache!Next]_(Cache!vars)
  <2> SUFFICES ASSUME IInv, [Next]_vars
               PROVE  Cache!Next \/ UNCHANGED Cache!vars
    BY DEF Cache!vars
  <2>1. CASE Pass
    BY <2>1, PassMaps
  <2>2. CASE Cleanup
    BY <2>2, CleanerUnseen, UnseenStutters DEF CleanerMoves
  <2>3. ASSUME NEW p \in Callers, Begin(p)
        PROVE  Cache!Next \/ UNCHANGED Cache!vars
    BY <2>3, BeginMaps
  <2>4. ASSUME NEW p \in Procs, Acquire(p)
        PROVE  Cache!Next \/ UNCHANGED Cache!vars
    BY <2>4, AcquireUnseen, UnseenStutters
  <2>5. ASSUME NEW p \in Callers, Work(p)
        PROVE  Cache!Next \/ UNCHANGED Cache!vars
    <3>1. p # Cleaner
      BY CacheAssumption
    <3>2. QED
      BY <2>5, <3>1, WriteMaps, EndMaps, CheckMaps, CountUnseen, CopyUnseen,
         UnseenStutters DEF Work
  <2>6. ASSUME Work(Cleaner)
        PROVE  Cache!Next \/ UNCHANGED Cache!vars
    <3>1. Cleaner \notin Callers
      BY CacheAssumption
    <3>2. QED
      BY <2>6, <3>1, DropMaps, SweepMaps, CleanerUnseen, UnseenStutters
         DEF Work, CleanerMoves
  <2>7. CASE UNCHANGED vars
    <3>1. Unseen
      BY <2>7 DEF vars, Unseen, Call
    <3>2. QED
      BY <3>1, UnseenStutters
  <2>8. QED
    BY <2>1, <2>2, <2>3, <2>4, <2>5, <2>6, <2>7 DEF Next, Procs
<1>2. QED
  BY <1>1, InitMaps, CacheInvariant, PTL DEF Spec, CacheSpec, Cache!Spec
=============================================================================
