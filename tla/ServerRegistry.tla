--------------------------- MODULE ServerRegistry ---------------------------
(***************************************************************************)
(* The registry of running servers: one Redis key with a TTL per server,   *)
(* written by internal/websocket/server_registry.go.  Register and every   *)
(* heartbeat are two calls, HSET and EXPIRE, and the process can end, or a *)
(* call fail, between them.  The deferred Unregister of main never runs:   *)
(* main only ends in log.Fatal or a signal, which skip deferred calls.     *)
(*                                                                         *)
(* Time is counted in units, some of which make a TTL.  Nothing is         *)
(* assumed of how long a call or a goroutine takes: Pass may happen at any *)
(* moment, and `beat` remembers whether the last heartbeat was in time.    *)
(*                                                                         *)
(* A definition named X_Y is X with a fault Y a programmer could make: a   *)
(* property must fail once X is replaced by it.                            *)
(***************************************************************************)
EXTENDS Integers

CONSTANTS
  Servers,    \* the values of -server-id; a restarted server keeps its own
  TTL,        \* ServerRegistry.TTL, in units of time  (10 s)
  MaxFaults   \* bound: crashes and failed calls in a run

ASSUME RegistryAssumption == TTL \in Nat /\ TTL >= 2 /\ MaxFaults \in Nat

VARIABLES
  up,       \* the server processes that run
  key,      \* what is left of the TTL of server:<id>; 0 when there is no key
  reg,      \* the goroutine that registers, and then the heartbeat
  due,      \* time until the ticker of the heartbeat fires; 0 when there is none
  tick,     \* servers whose ticker has fired and has not been heard
  beat,     \* history: "set" by an HSET, "whole" by its EXPIRE at once after
            \* it and as long as no tick is late, or else "late"
  half,     \* history: an HSET of a new key was not followed by its EXPIRE
  faults    \* crashes and failed calls so far

vars == <<up, key, reg, due, tick, beat, half, faults>>

-----------------------------------------------------------------------------
\* A ticker as slow as the TTL.
Period_Whole == TTL

\* time.NewTicker(r.TTL / 2)
Period == TTL \div 2

\* A key that HSET has made and EXPIRE has not reached.
NoExpiry == TTL + 1

Init ==
  /\ up = {}
  /\ key = [s \in Servers |-> 0]
  /\ reg = [s \in Servers |-> "off"]
  /\ due = [s \in Servers |-> 0]
  /\ beat = [s \in Servers |-> "late"]
  /\ tick = {} /\ half = {} /\ faults = 0

\* main reaches registry.Register.
Start(s) ==
  /\ s \notin up
  /\ up' = up \union {s}
  /\ reg' = [reg EXCEPT ![s] = "register"]
  /\ UNCHANGED <<key, due, tick, beat, half, faults>>

\* A server that stops between the two calls leaves the key without a TTL.
Halved(s) == half' = IF key'[s] = NoExpiry THEN half \union {s} ELSE half

\* Whatever ends the process, the key stays.
Crash(s) ==
  /\ s \in up /\ faults < MaxFaults
  /\ up' = up \ {s} /\ faults' = faults + 1
  /\ reg' = [reg EXCEPT ![s] = "off"]
  /\ due' = [due EXCEPT ![s] = 0]
  /\ tick' = tick \ {s} /\ beat' = [beat EXCEPT ![s] = "late"]
  /\ UNCHANGED key /\ Halved(s)

\* HSET makes a key without TTL, or leaves the one there is with its TTL;
\* EXPIRE of a key that is gone is no error and makes none.
WithHSet(s)   == [key EXCEPT ![s] = IF @ = 0 THEN NoExpiry ELSE @]
WithExpire(s) == [key EXCEPT ![s] = IF @ = 0 THEN 0 ELSE TTL]

HSet(s) ==
  /\ key' = WithHSet(s)
  /\ beat' = [beat EXCEPT ![s] = "set"]
  /\ UNCHANGED <<half, faults>>

Expire(s) ==
  /\ key' = WithExpire(s)
  /\ beat' = [beat EXCEPT ![s] = IF @ = "set" THEN "whole" ELSE "late"]
  /\ half' = half \ {s}
  /\ UNCHANGED faults

\* A call fails; Redis may have carried it out all the same.
Fails(s, done) ==
  /\ faults < MaxFaults /\ faults' = faults + 1
  /\ key' \in {key, done}
  /\ beat' = [beat EXCEPT ![s] = "late"]

\* Register: an error of either call is returned, and main logs it and goes
\* on without a heartbeat.
RegisterHSet(s) ==
  /\ reg[s] = "register"
  /\ \/ HSet(s) /\ reg' = [reg EXCEPT ![s] = "registerExpire"]
     \/ /\ Fails(s, WithHSet(s)) /\ Halved(s)
        /\ reg' = [reg EXCEPT ![s] = "failed"]
  /\ UNCHANGED <<up, due, tick>>

RegisterExpire(s) ==
  /\ reg[s] = "registerExpire"
  /\ \/ /\ Expire(s)
        /\ reg' = [reg EXCEPT ![s] = "beating"]
        /\ due' = [due EXCEPT ![s] = Period]
     \/ /\ Fails(s, WithExpire(s)) /\ Halved(s)
        /\ reg' = [reg EXCEPT ![s] = "failed"]
        /\ UNCHANGED due
  /\ UNCHANGED <<up, tick>>

\* Takes it that the key is still there.
BeatHSet_OnlyRenews(s) ==
  /\ reg[s] = "beating" /\ s \in tick /\ tick' = tick \ {s}
  /\ reg' = [reg EXCEPT ![s] = "beatExpire"]
  /\ beat' = [beat EXCEPT ![s] = "set"]
  /\ UNCHANGED <<up, key, due, half, faults>>

\* heartbeat: the ticker has fired.  The errors of both calls are ignored.
BeatHSet(s) ==
  /\ reg[s] = "beating" /\ s \in tick /\ tick' = tick \ {s}
  /\ \/ HSet(s)
     \/ Fails(s, WithHSet(s)) /\ UNCHANGED half
  /\ reg' = [reg EXCEPT ![s] = "beatExpire"]
  /\ UNCHANGED <<up, due>>

\* Leaves the TTL to Register.
BeatExpire_Skipped(s) ==
  /\ reg[s] = "beatExpire"
  /\ reg' = [reg EXCEPT ![s] = "beating"]
  /\ UNCHANGED <<up, key, due, tick, beat, half, faults>>

BeatExpire(s) ==
  /\ reg[s] = "beatExpire"
  /\ \/ Expire(s)
     \/ Fails(s, WithExpire(s)) /\ Halved(s)
  /\ reg' = [reg EXCEPT ![s] = "beating"]
  /\ UNCHANGED <<up, due, tick>>

\* A unit of time: keys age, tickers count down and fire again whether or not
\* they are heard.  A tick not heard, or a call not back by now, is late.
Pass ==
  /\ key' = [s \in Servers |->
              IF key[s] \in {0, NoExpiry} THEN key[s] ELSE key[s] - 1]
  /\ due' = [s \in Servers |-> IF due[s] = 1 THEN Period
                              ELSE IF due[s] = 0 THEN 0 ELSE due[s] - 1]
  /\ tick' = tick \union {s \in Servers : due[s] = 1}
  /\ beat' = [s \in Servers |->
               IF beat[s] = "whole" /\ reg[s] = "beating" /\ s \notin tick
               THEN "whole" ELSE "late"]
  /\ UNCHANGED <<up, reg, half, faults>>

Goroutine(s) ==
  RegisterHSet(s) \/ RegisterExpire(s) \/ BeatHSet(s) \/ BeatExpire(s)

Next == Pass \/ \E s \in Servers : Start(s) \/ Crash(s) \/ Goroutine(s)

Spec == Init /\ [][Next]_vars

-----------------------------------------------------------------------------
(* Properties.                                                             *)

TypeOK ==
  /\ up \subseteq Servers
  /\ key \in [Servers -> 0..NoExpiry]
  /\ reg \in [Servers -> {"off", "register", "registerExpire", "beating",
                          "beatExpire", "failed"}]
  /\ due \in [Servers -> 0..Period]
  /\ tick \subseteq Servers /\ half \subseteq Servers
  /\ beat \in [Servers -> {"late", "set", "whole"}]
  /\ faults \in 0..MaxFaults

\* From one heartbeat in time to the next the server is listed, whatever was
\* lost before: a heartbeat makes the key anew when it is gone, and the next
\* one falls within the TTL.
BeatingIsListed == \A s \in Servers : beat[s] = "whole" => key[s] # 0

\* A key has no TTL only while a server is between HSET and EXPIRE, or
\* because it failed or ended there.
NoExpiryIsHalf ==
  \A s \in Servers : key[s] = NoExpiry =>
    reg[s] \in {"registerExpire", "beatExpire"} \/ s \in half
=============================================================================
