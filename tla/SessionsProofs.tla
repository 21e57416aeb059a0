--------------------------- MODULE SessionsProofs ---------------------------
(***************************************************************************)
(* What holds of accounts and sessions for any number of requests, users   *)
(* and session IDs, with or without failing calls.                         *)
(***************************************************************************)
EXTENDS Sessions, TLAPS

\* The steps of a request that has made an ID and not sent it yet ...
Making == {"storeLogin", "storeSession", "cacheNew"}

\* ... and those of a request whose cookie named one.
Naming == {"askCache", "askTable", "fill", "deleteRow", "dropCached"}

\* An ID being made is in one request's hands and nowhere else, but for the
\* row it may have at its last step.
MakingIsPrivate ==
  \A r \in Requests : at[r] \in Making =>
    /\ id[r] \in IDs \ issued /\ id[r] \notin cached
    /\ at[r] # "cacheNew" => row[id[r]] = "none"
    /\ \A q \in Requests : at[q] \in Making /\ q # r => id[q] # id[r]

NamedIsIssued ==
  \A r \in Requests : at[r] \in Naming => id[r] \in issued

\* A request that asks for an account has a user name.
HasName ==
  \A r \in Requests : at[r] \in {"checkName", "createUser", "findUser"}
                        => user[r] \in Users

IdHeld == HasName /\ MakingIsPrivate /\ NamedIsIssued /\ NoStraySession

IdInv == TypeOK /\ IdHeld

\* The request that has inserted an account is alone with it until it has
\* made the session.
InsertedOnce ==
  \A r \in Requests : at[r] = "findUser" =>
    /\ user[r] \in accounts
    /\ \A s \in IDs : registered[s] # user[r]
    /\ \A q \in Requests : at[q] = "findUser" /\ q # r => user[q] # user[r]

RegisteredHasAccount ==
  \A s \in IDs : registered[s] # None => registered[s] \in accounts

NameInv == InsertedOnce /\ RegisteredHasAccount /\ OneRegistration

-----------------------------------------------------------------------------
LEMMA InvInit == Init => IdInv /\ NameInv
BY SessionsAssumption
DEF Init, IdInv, IdHeld, NameInv, TypeOK, HasName, MakingIsPrivate,
    NamedIsIssued, NoStraySession, InsertedOnce, RegisteredHasAccount,
    OneRegistration, Making, Naming

LEMMA TypeStep == IdInv /\ [Next]_vars => TypeOK'
<1> SUFFICES ASSUME IdInv, [Next]_vars PROVE TypeOK'
  OBVIOUS
<1> USE SessionsAssumption
    DEF IdInv, IdHeld, TypeOK, HasName, MakingIsPrivate, NamedIsIssued, Making, Naming,
        Goto, Stores, Fresh, tables, history
<1>1. ASSUME NEW r \in Requests, NEW u \in Users, StartLogin(r, u)
      PROVE  TypeOK'
  BY <1>1 DEF StartLogin
<1>2. ASSUME NEW r \in Requests, NEW u \in Users, StartRegister(r, u)
      PROVE  TypeOK'
  BY <1>2 DEF StartRegister
<1>3. ASSUME NEW r \in Requests, NEW s \in IDs, StartCheck(r, s)
      PROVE  TypeOK'
  BY <1>3 DEF StartCheck
<1>4. ASSUME NEW r \in Requests, NEW s \in IDs, StartLogout(r, s)
      PROVE  TypeOK'
  BY <1>4 DEF StartLogout
<1>5. ASSUME NEW r \in Requests, Validate(r) PROVE TypeOK'
  BY <1>5 DEF Validate
<1>6. ASSUME NEW r \in Requests, StoreLogin(r) PROVE TypeOK'
  BY <1>6 DEF StoreLogin
<1>7. ASSUME NEW r \in Requests, CacheNew(r) PROVE TypeOK'
  BY <1>7 DEF CacheNew
<1>8. ASSUME NEW r \in Requests, CheckName(r) PROVE TypeOK'
  BY <1>8 DEF CheckName
<1>9. ASSUME NEW r \in Requests, CreateUser(r) PROVE TypeOK'
  BY <1>9 DEF CreateUser
<1>10. ASSUME NEW r \in Requests, FindUser(r) PROVE TypeOK'
  BY <1>10 DEF FindUser
<1>11. ASSUME NEW r \in Requests, StoreSession(r) PROVE TypeOK'
  BY <1>11 DEF StoreSession
<1>12. ASSUME NEW r \in Requests, AskCache(r) PROVE TypeOK'
  BY <1>12 DEF AskCache
<1>13. ASSUME NEW r \in Requests, AskTable(r) PROVE TypeOK'
  BY <1>13 DEF AskTable
<1>14. ASSUME NEW r \in Requests, Fill(r) PROVE TypeOK'
  BY <1>14 DEF Fill
<1>15. ASSUME NEW r \in Requests, DeleteRow(r) PROVE TypeOK'
  BY <1>15 DEF DeleteRow
<1>16. ASSUME NEW r \in Requests, DropCached(r) PROVE TypeOK'
  BY <1>16 DEF DropCached
<1>17. ASSUME NEW r \in Requests, Answer(r) PROVE TypeOK'
  BY <1>17 DEF Answer
<1>18. ASSUME NEW s \in IDs, ExpireCached(s) PROVE TypeOK'
  BY <1>18 DEF ExpireCached
<1>19. ASSUME NEW s \in IDs, ExpireRow(s) PROVE TypeOK'
  BY <1>19 DEF ExpireRow
<1>20. CASE UNCHANGED vars
  BY <1>20 DEF vars
<1> QED
  BY <1>1, <1>2, <1>3, <1>4, <1>5, <1>6, <1>7, <1>8, <1>9, <1>10, <1>11,
     <1>12, <1>13, <1>14, <1>15, <1>16, <1>17, <1>18, <1>19, <1>20 DEF
     Next, Serve

LEMMA IdStep == IdInv /\ [Next]_vars => IdHeld'
<1> SUFFICES ASSUME IdInv, [Next]_vars PROVE IdHeld'
  OBVIOUS
<1> USE SessionsAssumption
    DEF IdInv, IdHeld, TypeOK, HasName, MakingIsPrivate, NamedIsIssued,
        NoStraySession, Making, Naming, Goto, Stores, Fresh, tables, history
<1>1. ASSUME NEW r \in Requests, NEW u \in Users, StartLogin(r, u)
      PROVE  IdHeld'
  BY <1>1 DEF StartLogin
<1>2. ASSUME NEW r \in Requests, NEW u \in Users, StartRegister(r, u)
      PROVE  IdHeld'
  BY <1>2 DEF StartRegister
<1>3. ASSUME NEW r \in Requests, NEW s \in IDs, StartCheck(r, s)
      PROVE  IdHeld'
  BY <1>3 DEF StartCheck
<1>4. ASSUME NEW r \in Requests, NEW s \in IDs, StartLogout(r, s)
      PROVE  IdHeld'
  BY <1>4 DEF StartLogout
<1>5. ASSUME NEW r \in Requests, Validate(r) PROVE IdHeld'
  BY <1>5 DEF Validate
<1>6. ASSUME NEW r \in Requests, StoreLogin(r) PROVE IdHeld'
  BY <1>6 DEF StoreLogin
<1>7. ASSUME NEW r \in Requests, CacheNew(r) PROVE IdHeld'
  BY <1>7 DEF CacheNew
<1>8. ASSUME NEW r \in Requests, CheckName(r) PROVE IdHeld'
  BY <1>8 DEF CheckName
<1>9. ASSUME NEW r \in Requests, CreateUser(r) PROVE IdHeld'
  BY <1>9 DEF CreateUser
<1>10. ASSUME NEW r \in Requests, FindUser(r) PROVE IdHeld'
  BY <1>10 DEF FindUser
<1>11. ASSUME NEW r \in Requests, StoreSession(r) PROVE IdHeld'
  BY <1>11 DEF StoreSession
<1>12. ASSUME NEW r \in Requests, AskCache(r) PROVE IdHeld'
  BY <1>12 DEF AskCache
<1>13. ASSUME NEW r \in Requests, AskTable(r) PROVE IdHeld'
  BY <1>13 DEF AskTable
<1>14. ASSUME NEW r \in Requests, Fill(r) PROVE IdHeld'
  BY <1>14 DEF Fill
<1>15. ASSUME NEW r \in Requests, DeleteRow(r) PROVE IdHeld'
  BY <1>15 DEF DeleteRow
<1>16. ASSUME NEW r \in Requests, DropCached(r) PROVE IdHeld'
  BY <1>16 DEF DropCached
<1>17. ASSUME NEW r \in Requests, Answer(r) PROVE IdHeld'
  BY <1>17 DEF Answer
<1>18. ASSUME NEW s \in IDs, ExpireCached(s) PROVE IdHeld'
  BY <1>18 DEF ExpireCached
<1>19. ASSUME NEW s \in IDs, ExpireRow(s) PROVE IdHeld'
  BY <1>19 DEF ExpireRow
<1>20. CASE UNCHANGED vars
  BY <1>20 DEF vars
<1> QED
  BY <1>1, <1>2, <1>3, <1>4, <1>5, <1>6, <1>7, <1>8, <1>9, <1>10, <1>11,
     <1>12, <1>13, <1>14, <1>15, <1>16, <1>17, <1>18, <1>19, <1>20 DEF
     Next, Serve

LEMMA NameStep == IdInv /\ NameInv /\ [Next]_vars => NameInv'
<1> SUFFICES ASSUME IdInv, NameInv, [Next]_vars PROVE NameInv'
  OBVIOUS
<1> USE SessionsAssumption
    DEF IdInv, IdHeld, NameInv, TypeOK, HasName, InsertedOnce, RegisteredHasAccount,
        OneRegistration, Goto, Stores, Fresh, tables, history
<1>1. ASSUME NEW r \in Requests, NEW u \in Users, StartLogin(r, u)
      PROVE  NameInv'
  BY <1>1 DEF StartLogin
<1>2. ASSUME NEW r \in Requests, NEW u \in Users, StartRegister(r, u)
      PROVE  NameInv'
  BY <1>2 DEF StartRegister
<1>3. ASSUME NEW r \in Requests, NEW s \in IDs, StartCheck(r, s)
      PROVE  NameInv'
  BY <1>3 DEF StartCheck
<1>4. ASSUME NEW r \in Requests, NEW s \in IDs, StartLogout(r, s)
      PROVE  NameInv'
  BY <1>4 DEF StartLogout
<1>5. ASSUME NEW r \in Requests, Validate(r) PROVE NameInv'
  BY <1>5 DEF Validate
<1>6. ASSUME NEW r \in Requests, StoreLogin(r) PROVE NameInv'
  BY <1>6 DEF StoreLogin
<1>7. ASSUME NEW r \in Requests, CacheNew(r) PROVE NameInv'
  BY <1>7 DEF CacheNew
<1>8. ASSUME NEW r \in Requests, CheckName(r) PROVE NameInv'
  BY <1>8 DEF CheckName
<1>9. ASSUME NEW r \in Requests, CreateUser(r) PROVE NameInv'
  BY <1>9 DEF CreateUser
<1>10. ASSUME NEW r \in Requests, FindUser(r) PROVE NameInv'
  BY <1>10 DEF FindUser
<1>11. ASSUME NEW r \in Requests, StoreSession(r) PROVE NameInv'
  BY <1>11 DEF StoreSession
<1>12. ASSUME NEW r \in Requests, AskCache(r) PROVE NameInv'
  BY <1>12 DEF AskCache
<1>13. ASSUME NEW r \in Requests, AskTable(r) PROVE NameInv'
  BY <1>13 DEF AskTable
<1>14. ASSUME NEW r \in Requests, Fill(r) PROVE NameInv'
  BY <1>14 DEF Fill
<1>15. ASSUME NEW r \in Requests, DeleteRow(r) PROVE NameInv'
  BY <1>15 DEF DeleteRow
<1>16. ASSUME NEW r \in Requests, DropCached(r) PROVE NameInv'
  BY <1>16 DEF DropCached
<1>17. ASSUME NEW r \in Requests, Answer(r) PROVE NameInv'
  BY <1>17 DEF Answer
<1>18. ASSUME NEW s \in IDs, ExpireCached(s) PROVE NameInv'
  BY <1>18 DEF ExpireCached
<1>19. ASSUME NEW s \in IDs, ExpireRow(s) PROVE NameInv'
  BY <1>19 DEF ExpireRow
<1>20. CASE UNCHANGED vars
  BY <1>20 DEF vars
<1> QED
  BY <1>1, <1>2, <1>3, <1>4, <1>5, <1>6, <1>7, <1>8, <1>9, <1>10, <1>11,
     <1>12, <1>13, <1>14, <1>15, <1>16, <1>17, <1>18, <1>19, <1>20 DEF
     Next, Serve

\* Whoever makes a row live or caches a session holds it: as a new ID, which
\* is not issued, or at "fill".
LEMMA DeadStep ==
  ASSUME NEW d \in IDs, IdInv, Dead(d), [Next]_vars PROVE Dead(d)'
<1> USE SessionsAssumption
    DEF IdInv, IdHeld, TypeOK, HasName, MakingIsPrivate, NamedIsIssued,
        Dead, Making, Naming, Goto, Stores, Fresh, tables, history
<1>1. ASSUME NEW r \in Requests, NEW u \in Users, StartLogin(r, u)
      PROVE  Dead(d)'
  BY <1>1 DEF StartLogin
<1>2. ASSUME NEW r \in Requests, NEW u \in Users, StartRegister(r, u)
      PROVE  Dead(d)'
  BY <1>2 DEF StartRegister
<1>3. ASSUME NEW r \in Requests, NEW s \in IDs, StartCheck(r, s)
      PROVE  Dead(d)'
  BY <1>3 DEF StartCheck
<1>4. ASSUME NEW r \in Requests, NEW s \in IDs, StartLogout(r, s)
      PROVE  Dead(d)'
  BY <1>4 DEF StartLogout
<1>5. ASSUME NEW r \in Requests, Validate(r) PROVE Dead(d)'
  BY <1>5 DEF Validate
<1>6. ASSUME NEW r \in Requests, StoreLogin(r) PROVE Dead(d)'
  BY <1>6 DEF StoreLogin
<1>7. ASSUME NEW r \in Requests, CacheNew(r) PROVE Dead(d)'
  BY <1>7 DEF CacheNew
<1>8. ASSUME NEW r \in Requests, CheckName(r) PROVE Dead(d)'
  BY <1>8 DEF CheckName
<1>9. ASSUME NEW r \in Requests, CreateUser(r) PROVE Dead(d)'
  BY <1>9 DEF CreateUser
<1>10. ASSUME NEW r \in Requests, FindUser(r) PROVE Dead(d)'
  BY <1>10 DEF FindUser
<1>11. ASSUME NEW r \in Requests, StoreSession(r) PROVE Dead(d)'
  BY <1>11 DEF StoreSession
<1>12. ASSUME NEW r \in Requests, AskCache(r) PROVE Dead(d)'
  BY <1>12 DEF AskCache
<1>13. ASSUME NEW r \in Requests, AskTable(r) PROVE Dead(d)'
  BY <1>13 DEF AskTable
<1>14. ASSUME NEW r \in Requests, Fill(r) PROVE Dead(d)'
  BY <1>14 DEF Fill
<1>15. ASSUME NEW r \in Requests, DeleteRow(r) PROVE Dead(d)'
  BY <1>15 DEF DeleteRow
<1>16. ASSUME NEW r \in Requests, DropCached(r) PROVE Dead(d)'
  BY <1>16 DEF DropCached
<1>17. ASSUME NEW r \in Requests, Answer(r) PROVE Dead(d)'
  BY <1>17 DEF Answer
<1>18. ASSUME NEW s \in IDs, ExpireCached(s) PROVE Dead(d)'
  BY <1>18 DEF ExpireCached
<1>19. ASSUME NEW s \in IDs, ExpireRow(s) PROVE Dead(d)'
  BY <1>19 DEF ExpireRow
<1>20. CASE UNCHANGED vars
  BY <1>20 DEF vars
<1> QED
  BY <1>1, <1>2, <1>3, <1>4, <1>5, <1>6, <1>7, <1>8, <1>9, <1>10, <1>11,
     <1>12, <1>13, <1>14, <1>15, <1>16, <1>17, <1>18, <1>19, <1>20 DEF
     Next, Serve

-----------------------------------------------------------------------------
(* The theorems.                                                           *)

\* The invariants of session IDs and of user names.
THEOREM SessionsInvariant == Spec => [](IdInv /\ NameInv)
<1>1. Init => IdInv /\ NameInv
  BY InvInit
<1>2. IdInv /\ NameInv /\ [Next]_vars => (IdInv /\ NameInv)'
  BY TypeStep, IdStep, NameStep DEF IdInv
<1> QED
  BY <1>1, <1>2, PTL DEF Spec

\* Every variable has its type.
THEOREM SessionTypes == Spec => []TypeOK
<1>1. IdInv => TypeOK
  BY DEF IdInv
<1> QED
  BY <1>1, SessionsInvariant, PTL

\* Neither the cache nor the table keeps a session no browser was given
\* (LoginHandler, RegisterHandler).
THEOREM NoStrays == Spec => []NoStraySession
<1>1. IdInv => NoStraySession
  BY DEF IdInv, IdHeld
<1> QED
  BY <1>1, SessionsInvariant, PTL

\* Concurrent registrations of one name make one session between them
\* (RegisterHandler).
THEOREM NamesOnce == Spec => []OneRegistration
<1>1. NameInv => OneRegistration
  BY DEF NameInv
<1> QED
  BY <1>1, SessionsInvariant, PTL

\* A session that is in no table row, no cache and no request's hands stays
\* dead (getUserFromSession, LogoutHandler).
THEOREM DeadForGood == Spec => DeadStaysDead
<1>1. IdInv /\ [Next]_vars => [\A s \in IDs : Dead(s) => Dead(s)']_vars
  BY DeadStep
<1> QED
  BY <1>1, SessionsInvariant, PTL DEF Spec, DeadStaysDead
=============================================================================
