---------------------------- MODULE ExpiringCache ----------------------------
(***************************************************************************)
(* What the users of the memory cache count on, and what the modules       *)
(* ChatHistory and Sessions take for granted: each call on an entry takes  *)
(* effect at one moment between its beginning and its end, and an entry    *)
(* that is stored stays until its TTL is over, is invalidated or, where    *)
(* the cache does not promise more, is lost.                               *)
(***************************************************************************)
EXTENDS Integers

CONSTANTS
  Callers,  \* goroutines that call the cache, one call at a time
  Cells,    \* entries of the cache
  Lossy,    \* the entries that may be lost before their time
  Values,   \* what is stored
  None,     \* no entry
  TTL,      \* how long an entry lasts
  MaxTime   \* bound: the time at which a run ends

VARIABLES
  clock,  \* the time
  value,  \* the entry of each cell, or None
  stamp,  \* when it was stored
  call    \* the call of each caller: its operation and cell, the value it stores
          \* or has found, and whether its moment is over

vars == <<clock, value, stamp, call>>

\* An entry that was never stored is older than any TTL.
Never == -(TTL + 1)

NoCall == [op |-> "none", cell |-> None, val |-> None, at |-> "begun"]

\* What a read of a cell finds.
Found(c) == IF clock - stamp[c] <= TTL THEN value[c] ELSE None

Init ==
  /\ clock = 0
  /\ value = [c \in Cells |-> None] /\ stamp = [c \in Cells |-> Never]
  /\ call = [p \in Callers |-> NoCall]

Begin(p, op, c, v) ==
  /\ call[p] = NoCall
  /\ call' = [call EXCEPT ![p] = [op |-> op, cell |-> c, val |-> v,
                                  at |-> "begun"]]
  /\ UNCHANGED <<clock, value, stamp>>

\* The moment of a call is over, and v is its value.
Passed(p, v) ==
  call' = [call EXCEPT ![p] = [op |-> call[p].op, cell |-> call[p].cell,
                               val |-> v, at |-> "over"]]

\* The moment of a call: a read finds, a write stores or removes.
Take(p) ==
  LET c == call[p].cell IN
    /\ call[p] # NoCall /\ call[p].at = "begun"
    /\ \/ /\ call[p].op = "get"
          /\ Passed(p, Found(c))
          /\ UNCHANGED <<value, stamp>>
       \/ /\ call[p].op = "set"
          /\ Passed(p, call[p].val)
          /\ value' = [value EXCEPT ![c] = call[p].val]
          /\ stamp' = [stamp EXCEPT ![c] = clock]
       \/ /\ call[p].op = "invalidate"
          /\ Passed(p, call[p].val)
          /\ value' = [value EXCEPT ![c] = None]
          /\ stamp' = [stamp EXCEPT ![c] = Never]
    /\ UNCHANGED clock

End(p) ==
  /\ call[p].at = "over"
  /\ call' = [call EXCEPT ![p] = NoCall]
  /\ UNCHANGED <<clock, value, stamp>>

\* An entry goes by itself: after its TTL, or at any time if it may be lost.
Lose(c) ==
  /\ c \in Lossy \/ Found(c) = None
  /\ value' = [value EXCEPT ![c] = None]
  /\ stamp' = [stamp EXCEPT ![c] = Never]
  /\ UNCHANGED <<clock, call>>

Pass ==
  /\ clock < MaxTime /\ clock' = clock + 1
  /\ UNCHANGED <<value, stamp, call>>

Next ==
  \/ Pass
  \/ \E c \in Cells : Lose(c)
  \/ \E p \in Callers :
       \/ \E op \in {"get", "set", "invalidate"}, c \in Cells,
             v \in Values \union {None} : Begin(p, op, c, v)
       \/ Take(p) \/ End(p)

Spec == Init /\ [][Next]_vars
=============================================================================
