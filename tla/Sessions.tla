------------------------------- MODULE Sessions -------------------------------
(***************************************************************************)
(* Accounts and sessions: LoginHandler, RegisterHandler, LogoutHandler and *)
(* getUserFromSession of web/handlers.go as concurrent HTTP requests over  *)
(* the tables users and sessions and the cache of sessions.                *)
(*                                                                         *)
(* Each call of the database or the cache is one step and may fail, which  *)
(* leaves things as they were.  Form checks that refuse a request before   *)
(* the first call are left out, and so is the cached user, which nobody    *)
(* reads.  A session ID is fresh each time it is made (32 random letters). *)
(*                                                                         *)
(* A definition named X_Y is X with a fault Y a programmer could make: a   *)
(* property must fail once X is replaced by it.                            *)
(***************************************************************************)
EXTENDS Integers

CONSTANTS
  Requests,  \* requests that may be served at a time
  Users,     \* user names
  IDs,       \* bound: session IDs made in a run
  None,      \* no session, no user
  Faults     \* whether calls of the database and the cache may fail

ASSUME SessionsAssumption ==
  /\ None \notin Users /\ None \notin IDs
  /\ Faults \in BOOLEAN

VARIABLES
  accounts,    \* rows of the table users
  row,         \* the row of each session in the table sessions
  cached,      \* sessions in the cache
  at,          \* where each request is
  user,        \* the user name it came with
  id,          \* the session it makes, or its cookie names
  \* history variables
  issued,      \* sessions whose ID has been sent in a cookie
  registered,  \* the user whose registration made the session
  out,         \* sessions whose logout has been answered
  late         \* requests that came with such a session

tables  == <<accounts, row>>
history == <<issued, registered, out, late>>
vars    == <<tables, cached, at, user, id, history>>

-----------------------------------------------------------------------------
Goto(r, label) == at' = [at EXCEPT ![r] = label]

\* What is there after a call that puts new for old.
Stores(old, new) == IF Faults THEN {old, new} ELSE {new}

\* An ID that no request has made before.
Fresh == {s \in IDs : /\ row[s] = "none" /\ s \notin issued
                      /\ \A r \in Requests : id[r] # s}

Init ==
  /\ accounts = {} /\ row = [s \in IDs |-> "none"] /\ cached = {}
  /\ at = [r \in Requests |-> "idle"]
  /\ user = [r \in Requests |-> None] /\ id = [r \in Requests |-> None]
  /\ issued = {} /\ registered = [s \in IDs |-> None]
  /\ out = {} /\ late = {}

-----------------------------------------------------------------------------
(* LoginHandler *)

StartLogin(r, u) ==
  /\ at[r] = "idle"
  /\ user' = [user EXCEPT ![r] = u]
  /\ Goto(r, "validate")
  /\ UNCHANGED <<tables, cached, id, history>>

\* userRepo.Validate and GetByUsername, with the right password or not.
\* Accounts are never deleted.
Validate(r) ==
  /\ at[r] = "validate"
  /\ \/ /\ user[r] \in accounts
        /\ \E s \in Fresh : id' = [id EXCEPT ![r] = s]
        /\ Goto(r, "storeLogin")
     \/ Goto(r, "denied") /\ UNCHANGED id
  /\ UNCHANGED <<tables, cached, user, history>>

\* Caches the session before its row is stored.
StoreLogin_CacheFirst(r) ==
  /\ at[r] = "storeLogin"
  /\ cached' = cached \union {id[r]}
  /\ row' \in Stores(row, [row EXCEPT ![id[r]] = "live"])
  /\ Goto(r, IF row'[id[r]] = "live" THEN "cacheNew" ELSE "denied")
  /\ UNCHANGED <<accounts, user, id, history>>

\* CreateUserSession; on an error the login is refused.
StoreLogin(r) ==
  /\ at[r] = "storeLogin"
  /\ row' \in Stores(row, [row EXCEPT ![id[r]] = "live"])
  /\ Goto(r, IF row'[id[r]] = "live" THEN "cacheNew" ELSE "denied")
  /\ UNCHANGED <<accounts, cached, user, id, history>>

\* SetSession, whose error is ignored, and the cookie; for a registration,
\* too.
CacheNew(r) ==
  /\ at[r] = "cacheNew"
  /\ cached' \in Stores(cached, cached \union {id[r]})
  /\ issued' = issued \union {id[r]}
  /\ Goto(r, "welcome")
  /\ UNCHANGED <<tables, user, id, registered, out, late>>

-----------------------------------------------------------------------------
(* RegisterHandler *)

StartRegister(r, u) ==
  /\ at[r] = "idle"
  /\ user' = [user EXCEPT ![r] = u]
  /\ Goto(r, "checkName")
  /\ UNCHANGED <<tables, cached, id, history>>

\* A failed query counts as a free name.
CheckName(r) ==
  /\ at[r] = "checkName"
  /\ \/ user[r] \in accounts /\ Goto(r, "denied")
     \/ (user[r] \notin accounts \/ Faults) /\ Goto(r, "createUser")
  /\ UNCHANGED <<tables, cached, user, id, history>>

\* The name need not be unique in the table.
CreateUser_NoConstraint(r) ==
  /\ at[r] = "createUser"
  /\ \/ accounts' = accounts \union {user[r]} /\ Goto(r, "findUser")
     \/ Faults /\ Goto(r, "denied") /\ UNCHANGED accounts
  /\ UNCHANGED <<row, cached, user, id, history>>

\* userRepo.Create: the table refuses a name it has.
CreateUser(r) ==
  /\ at[r] = "createUser"
  /\ \/ /\ user[r] \notin accounts
        /\ accounts' = accounts \union {user[r]}
        /\ Goto(r, "findUser")
     \/ /\ user[r] \in accounts \/ Faults
        /\ Goto(r, "denied") /\ UNCHANGED accounts
  /\ UNCHANGED <<row, cached, user, id, history>>

\* Makes the session ID only for a user it has found.
FindUser_NoID(r) ==
  /\ at[r] = "findUser"
  /\ \/ /\ \E s \in Fresh :
            /\ id' = [id EXCEPT ![r] = s]
            /\ registered' = [registered EXCEPT ![s] = user[r]]
        /\ Goto(r, "storeSession")
     \/ Faults /\ Goto(r, "cacheNew") /\ UNCHANGED <<id, registered>>
  /\ UNCHANGED <<tables, cached, user, issued, out, late>>

\* GetByUsername: when it fails, the session gets no row.
FindUser(r) ==
  /\ at[r] = "findUser"
  /\ \E s \in Fresh :
       /\ id' = [id EXCEPT ![r] = s]
       /\ registered' = [registered EXCEPT ![s] = user[r]]
  /\ \/ Goto(r, "storeSession")
     \/ Faults /\ Goto(r, "cacheNew")
  /\ UNCHANGED <<tables, cached, user, issued, out, late>>

\* CreateUserSession, whose error is ignored.
StoreSession(r) ==
  /\ at[r] = "storeSession"
  /\ row' \in Stores(row, [row EXCEPT ![id[r]] = "live"])
  /\ Goto(r, "cacheNew")
  /\ UNCHANGED <<accounts, cached, user, id, history>>

-----------------------------------------------------------------------------
(* getUserFromSession, called by AuthMiddleware and every handler.         *)

StartCheck(r, s) ==
  /\ at[r] = "idle" /\ s \in issued
  /\ id' = [id EXCEPT ![r] = s]
  /\ late' = IF s \in out THEN late \union {r} ELSE late
  /\ Goto(r, "askCache")
  /\ UNCHANGED <<tables, cached, user, issued, registered, out>>

\* A hit stores the session again to prolong it.
AskCache_Slides(r) ==
  /\ at[r] = "askCache"
  /\ \/ id[r] \in cached /\ Goto(r, "fill")
     \/ (id[r] \notin cached \/ Faults) /\ Goto(r, "askTable")
  /\ UNCHANGED <<tables, cached, user, id, history>>

AskCache(r) ==
  /\ at[r] = "askCache"
  /\ \/ id[r] \in cached /\ Goto(r, "accepted")
     \/ (id[r] \notin cached \/ Faults) /\ Goto(r, "askTable")
  /\ UNCHANGED <<tables, cached, user, id, history>>

\* Takes any row that was not deleted.
AskTable_IgnoresExpiry(r) ==
  /\ at[r] = "askTable"
  /\ \/ row[id[r]] \in {"live", "expired"} /\ Goto(r, "fill")
     \/ (row[id[r]] \notin {"live", "expired"} \/ Faults) /\ Goto(r, "refused")
  /\ UNCHANGED <<tables, cached, user, id, history>>

\* GetByID and IsExpired.
AskTable(r) ==
  /\ at[r] = "askTable"
  /\ \/ row[id[r]] = "live" /\ Goto(r, "fill")
     \/ (row[id[r]] # "live" \/ Faults) /\ Goto(r, "refused")
  /\ UNCHANGED <<tables, cached, user, id, history>>

\* SetSession, whatever has become of the row since.
Fill(r) ==
  /\ at[r] = "fill"
  /\ cached' \in Stores(cached, cached \union {id[r]})
  /\ Goto(r, "accepted")
  /\ UNCHANGED <<tables, user, id, history>>

-----------------------------------------------------------------------------
(* LogoutHandler: the errors of both calls are ignored.                    *)

StartLogout(r, s) ==
  /\ at[r] = "idle" /\ s \in issued
  /\ id' = [id EXCEPT ![r] = s]
  /\ Goto(r, "deleteRow")
  /\ UNCHANGED <<tables, cached, user, history>>

DeleteRow(r) ==
  /\ at[r] = "deleteRow"
  /\ row' \in Stores(row, IF row[id[r]] = "none" THEN row
                          ELSE [row EXCEPT ![id[r]] = "deleted"])
  /\ Goto(r, "dropCached")
  /\ UNCHANGED <<accounts, cached, user, id, history>>

DropCached(r) ==
  /\ at[r] = "dropCached"
  /\ cached' \in Stores(cached, cached \ {id[r]})
  /\ out' = out \union {id[r]}
  /\ Goto(r, "goodbye")
  /\ UNCHANGED <<tables, user, id, issued, registered, late>>

-----------------------------------------------------------------------------
\* The response is written; another request may take the place.
Answer(r) ==
  /\ at[r] \in {"welcome", "denied", "accepted", "refused", "goodbye"}
  /\ Goto(r, "idle")
  /\ user' = [user EXCEPT ![r] = None] /\ id' = [id EXCEPT ![r] = None]
  /\ late' = late \ {r}
  /\ UNCHANGED <<tables, cached, issued, registered, out>>

\* A cached session is older than the TTL (minutes).
ExpireCached(s) ==
  /\ s \in cached /\ cached' = cached \ {s}
  /\ UNCHANGED <<tables, at, user, id, history>>

\* A stored session is older than its 24 hours.
ExpireRow(s) ==
  /\ row[s] = "live" /\ row' = [row EXCEPT ![s] = "expired"]
  /\ UNCHANGED <<accounts, cached, at, user, id, history>>

Serve(r) ==
  \/ Validate(r) \/ StoreLogin(r) \/ CacheNew(r)
  \/ CheckName(r) \/ CreateUser(r) \/ FindUser(r) \/ StoreSession(r)
  \/ AskCache(r) \/ AskTable(r) \/ Fill(r)
  \/ DeleteRow(r) \/ DropCached(r) \/ Answer(r)

Next ==
  \/ \E r \in Requests : Serve(r)
  \/ \E r \in Requests, u \in Users : StartLogin(r, u) \/ StartRegister(r, u)
  \/ \E r \in Requests, s \in IDs : StartCheck(r, s) \/ StartLogout(r, s)
  \/ \E s \in IDs : ExpireCached(s) \/ ExpireRow(s)

Spec == Init /\ [][Next]_vars

\* A request that was begun is served to its end.  Time passes: a row grows
\* older than its 24 hours, and a cached session that nobody sets again older
\* than the TTL.  Nobody has to log in or out.
Fairness ==
  /\ \A r \in Requests : WF_vars(Serve(r))
  /\ \A s \in IDs : WF_vars(ExpireRow(s)) /\ WF_vars(ExpireCached(s))

FairSpec == Spec /\ Fairness

-----------------------------------------------------------------------------
(* Properties.                                                             *)

TypeOK ==
  /\ accounts \subseteq Users
  /\ row \in [IDs -> {"none", "live", "expired", "deleted"}]
  /\ cached \subseteq IDs
  /\ at \in [Requests -> {"idle", "validate", "storeLogin", "cacheNew",
                          "checkName", "createUser", "findUser",
                          "storeSession", "askCache", "askTable", "fill",
                          "deleteRow", "dropCached", "welcome", "denied",
                          "accepted", "refused", "goodbye"}]
  /\ user \in [Requests -> Users \union {None}]
  /\ id \in [Requests -> IDs \union {None}]
  /\ issued \subseteq IDs /\ out \subseteq IDs /\ late \subseteq Requests
  /\ registered \in [IDs -> Users \union {None}]

\* No check can meet a session that was not given to a browser: a login that
\* fails on the way leaves nothing in the cache, and a row only while its
\* request is about to send the cookie.
NoStraySession ==
  \A s \in IDs \ issued :
    /\ s \notin cached
    /\ row[s] # "none" => \E r \in Requests : id[r] = s /\ at[r] = "cacheNew"

\* A name is registered once, however many requests ask for it between the
\* check of the name and the insertion of the account.
OneRegistration ==
  \A s, t \in IDs : registered[s] = registered[t] /\ s # t
                      => registered[s] = None

\* A session without a live row, out of the cache and not about to be cached.
Dead(s) ==
  /\ s \in issued /\ row[s] # "live" /\ s \notin cached
  /\ \A r \in Requests : id[r] = s => at[r] # "fill"

\* Such a session never comes back, whatever request names it.
DeadStaysDead == [][\A s \in IDs : Dead(s) => Dead(s)']_vars

\* Every session ends, and for good, whether its user logs out or not and
\* whichever call failed unnoticed: one that a registration cached without a
\* row, one whose row a logout did not delete or whose entry it did not drop,
\* and one that a check stored again behind a logout.
SessionsEnd == \A s \in IDs : s \in issued ~> []Dead(s)

\* README: logout deletes the session and invalidates it in the cache.  So
\* no request that comes after its answer is accepted with it.
LoggedOutStaysOut == \A r \in late : at[r] # "accepted"
=============================================================================
