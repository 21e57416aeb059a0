--------------------------- MODULE FileStoreProofs ----------------------------
(***************************************************************************)
(* The file pages for any number of pages, users, times and things users   *)
(* do: what a page lists is what the bucket holds, unless the page has     *)
(* something to come or has missed something.                              *)
(***************************************************************************)
EXTENDS FileStore, TLAPS

\* A page that has a form has its key.
FormHasKey ==
  \A p \in Pages : up[p] = "form" => upFile[p].key \in Users \X Seconds

Types == TypeOK /\ FormHasKey

FileInv == Types /\ ListIsTrue

-----------------------------------------------------------------------------
LEMMA KeyTypes ==
  /\ \A p \in Pages : GuessedKey(User[p]) \in Keys
  /\ \A p \in Pages, s \in Seconds :
       <<User[p], s>> \in Keys /\ <<User[p], s>> \in Users \X Seconds
BY FileStoreAssumption DEF Keys, GuessedKey

LEMMA InfoTypes ==
  ASSUME NEW k \in Keys, NEW n \in Sizes \union {0}
  PROVE  Info(k, n) \in Files /\ Info(k, n).key = k
BY DEF Info, Files

LEMMA EventTypes ==
  /\ \A f \in Files : /\ Event("upload", f) \in Events
                      /\ Event("delete", f) \in Events
  /\ \A e \in Events : e.file \in Files
  /\ \A f \in Files : f.key \in Keys
BY DEF Event, Events, Files

LEMMA BucketTypes ==
  ASSUME NEW files, Bucket(files)
  PROVE  /\ files \subseteq Files
         /\ \A k : Under(k, files) \subseteq Files
         /\ \A k : Bucket(files \ Under(k, files))
<1>1. files \subseteq Files
  BY FileStoreAssumption DEF Bucket, Files, Keys
<1> QED
  BY <1>1 DEF Bucket, Under

\* What PostFile leaves: the file has the key to itself.
LEMMA BucketTakes ==
  ASSUME NEW files, Bucket(files), NEW k \in Users \X Seconds, NEW n \in Sizes
  PROVE  Bucket((files \ Under(k, files)) \union {Info(k, n)})
<1> DEFINE rest == files \ Under(k, files)
<1>1. \A f \in rest : f \in files /\ f.key # k
  BY DEF Under
<1>2. /\ Info(k, n) \in [key : Users \X Seconds, size : Sizes]
      /\ Info(k, n).key = k
  BY DEF Info
<1>3. /\ files \subseteq [key : Users \X Seconds, size : Sizes]
      /\ \A f, g \in files : f.key = g.key => f = g
  BY DEF Bucket
<1> HIDE DEF rest
<1>4. Bucket(rest \union {Info(k, n)})
  BY <1>1, <1>2, <1>3 DEF Bucket
<1> QED
  BY <1>4 DEF rest

LEMMA QueueTypes ==
  ASSUME NEW S, NEW q \in Seq(S)
  PROVE  /\ \A e \in S : Append(q, e) \in Seq(S)
         /\ q # <<>> => Head(q) \in S /\ Tail(q) \in Seq(S)
OBVIOUS

LEMMA AnnounceTypes ==
  ASSUME TypeOK, NEW e \in Events, Announce(e)
  PROVE  fileEvents' \in Seq(Events) /\ missed' \in [Pages -> BOOLEAN]
<1>1. CASE fileEvents' = Append(fileEvents, e) /\ UNCHANGED missed
  <2>1. Append(fileEvents, e) \in Seq(Events)
    BY QueueTypes DEF TypeOK
  <2> QED
    BY <1>1, <2>1 DEF TypeOK
<1>2. CASE missed' = [p \in Pages |-> TRUE] /\ UNCHANGED fileEvents
  BY <1>2 DEF TypeOK
<1> QED
  BY <1>1, <1>2 DEF Announce

LEMMA FileInit == Init => FileInv
<1> SUFFICES ASSUME Init PROVE FileInv
  OBVIOUS
<1>1. \A p \in Pages : Info(GuessedKey(User[p]), 0) \in Files
  BY KeyTypes, InfoTypes
<1>2. Bucket({})
  BY DEF Bucket
<1>3. TypeOK
  BY FileStoreAssumption, KeyTypes, <1>1, <1>2 DEF Init, TypeOK
<1>4. FormHasKey /\ ListIsTrue
  BY DEF Init, FormHasKey, ListIsTrue
<1> QED
  BY <1>3, <1>4 DEF FileInv, Types

\* Each step of the server, the hub or a page keeps the types.
LEMMA FileTypeStep == Types /\ [Next]_vars => Types'
<1> SUFFICES ASSUME Types, [Next]_vars PROVE Types'
  OBVIOUS
<1> USE FileStoreAssumption
    DEF Types, TypeOK, FormHasKey, Acts, Reload, lists, asks
<1>1. CASE FanOut
  <2>1. Head(fileEvents) \in Events /\ Tail(fileEvents) \in Seq(Events)
    BY <1>1, QueueTypes DEF FanOut
  <2>2. inbox' \in [Pages -> Seq(Events)]
    BY <1>1, <2>1, QueueTypes DEF FanOut
  <2>3. missed' \in [Pages -> BOOLEAN]
    BY <1>1 DEF FanOut
  <2> QED
    BY <1>1, <2>1, <2>2, <2>3 DEF FanOut
<1>2. ASSUME NEW p \in Pages, PostFile(p) PROVE Types'
  <2>1. CASE up' = [up EXCEPT ![p] = "idle"] /\ UNCHANGED objects
    BY <1>2, <2>1 DEF PostFile
  <2>2. ASSUME NEW n \in Sizes,
               objects' = (objects \ Under(upFile[p].key, objects))
                            \union {Info(upFile[p].key, n)},
               up' = [up EXCEPT ![p] = "stored"]
        PROVE  Types'
    <3>1. Bucket(objects')
      BY <1>2, <2>2, BucketTakes DEF PostFile
    <3> QED
      BY <1>2, <2>2, <3>1 DEF PostFile
  <2> QED
    BY <1>2, <2>1, <2>2 DEF PostFile
<1>3. ASSUME NEW p \in Pages, UploadComplete(p) PROVE Types'
  <2>1. \A k \in {upFile[p].key, GuessedKey(User[p])} :
          Under(k, objects) \union {Info(k, 0)} \subseteq Files
    BY KeyTypes, InfoTypes, EventTypes, BucketTypes
  <2>2. CASE /\ \E k \in {upFile[p].key, GuessedKey(User[p])} :
                  \E f \in Under(k, objects) \union {Info(k, 0)} :
                    upFile' = [upFile EXCEPT ![p] = f]
             /\ up' = [up EXCEPT ![p] = "found"]
             /\ UNCHANGED missed
    <3>1. PICK f \in Files : upFile' = [upFile EXCEPT ![p] = f]
      BY <2>1, <2>2
    <3> QED
      BY <1>3, <2>2, <3>1 DEF UploadComplete
  <2>3. CASE /\ missed' = [q \in Pages |-> TRUE]
             /\ up' = [up EXCEPT ![p] = "told"]
             /\ UNCHANGED upFile
    BY <1>3, <2>3 DEF UploadComplete
  <2> QED
    BY <1>3, <2>2, <2>3 DEF UploadComplete
<1>17. ASSUME NEW p \in Pages, AnnounceUpload(p) PROVE Types'
  <2>1. fileEvents' \in Seq(Events) /\ missed' \in [Pages -> BOOLEAN]
    BY <1>17, AnnounceTypes, EventTypes DEF AnnounceUpload
  <2> QED
    BY <1>17, <2>1 DEF AnnounceUpload
<1>4. ASSUME NEW p \in Pages, AfterUpload(p) PROVE Types'
  <2>1. Info(GuessedKey(User[p]), 0) \in Files
    BY KeyTypes, InfoTypes
  <2> QED
    BY <1>4, <2>1 DEF AfterUpload
<1>5. ASSUME NEW p \in Pages, StatObject(p) PROVE Types'
  BY <1>5 DEF StatObject
<1>6. ASSUME NEW p \in Pages, RemoveObject(p) PROVE Types'
  <2>1. Bucket(objects')
    <3>1. CASE objects' = objects \ Under(delKey[p], objects)
      <4>1. Bucket(objects \ Under(delKey[p], objects))
        BY BucketTypes
      <4> QED
        BY <3>1, <4>1
    <3>2. CASE objects' = objects
      BY <3>2
    <3> QED
      BY <1>6, <3>1, <3>2 DEF RemoveObject
  <2> QED
    BY <1>6, <2>1 DEF RemoveObject
<1>7. ASSUME NEW p \in Pages, AnnounceDelete(p) PROVE Types'
  <2>1. fileEvents' \in Seq(Events) /\ missed' \in [Pages -> BOOLEAN]
    <3>1. Event("delete", Info(delKey[p], 0)) \in Events
      BY InfoTypes, EventTypes
    <3> QED
      BY <1>7, <3>1, AnnounceTypes DEF AnnounceDelete
  <2> QED
    BY <1>7, <2>1 DEF AnnounceDelete
<1>8. ASSUME NEW p \in Pages, AfterDelete(p) PROVE Types'
  BY <1>8, KeyTypes DEF AfterDelete
<1>9. ASSUME NEW p \in Pages, HandleEvent(p) PROVE Types'
  <2>1. Head(inbox[p]) \in Events /\ Tail(inbox[p]) \in Seq(Events)
    BY <1>9, QueueTypes DEF HandleEvent
  <2>2. \A fs \in Edited(p, Head(inbox[p])) : fs \subseteq Files
    BY <2>1, EventTypes DEF Edited, Under
  <2>3. shown' \in [Pages -> SUBSET Files]
    BY <1>9, <2>2 DEF HandleEvent
  <2> QED
    BY <1>9, <2>1, <2>3 DEF HandleEvent
<1>10. ASSUME NEW p \in Pages, FireTimer(p) PROVE Types'
  <2>1. timers' \in [Pages -> Nat]
    BY <1>10 DEF FireTimer
  <2>2. load' \in [Pages -> {"none", "asked", "answered"}]
    BY <1>10 DEF FireTimer
  <2>3. missed' \in [Pages -> BOOLEAN]
    BY <1>10 DEF FireTimer
  <2> QED
    BY <1>10, <2>1, <2>2, <2>3 DEF FireTimer
<1>11. ASSUME NEW p \in Pages, ListFiles(p) PROVE Types'
  <2>1. objects \subseteq Files
    BY BucketTypes
  <2> QED
    BY <1>11, <2>1 DEF ListFiles
<1>12. ASSUME NEW p \in Pages, Render(p) PROVE Types'
  BY <1>12 DEF Render
<1>13. ASSUME NEW p \in Pages, RequestUpload(p) PROVE Types'
  <2>1. \A s \in Seconds :
          /\ Info(<<User[p], s>>, 0) \in Files
          /\ Info(<<User[p], s>>, 0).key \in Users \X Seconds
    <3> SUFFICES ASSUME NEW s \in Seconds
                 PROVE  /\ Info(<<User[p], s>>, 0) \in Files
                        /\ Info(<<User[p], s>>, 0).key \in Users \X Seconds
      OBVIOUS
    <3>1. <<User[p], s>> \in Keys /\ <<User[p], s>> \in Users \X Seconds
      BY KeyTypes
    <3>2. /\ Info(<<User[p], s>>, 0) \in Files
          /\ Info(<<User[p], s>>, 0).key = <<User[p], s>>
      BY <3>1, InfoTypes
    <3> QED
      BY <3>1, <3>2
  <2>2. PICK f \in Files : /\ f.key \in Users \X Seconds
                           /\ upFile' = [upFile EXCEPT ![p] = f]
    BY <1>13, <2>1 DEF RequestUpload
  <2>3. /\ upFile' \in [Pages -> Files]
        /\ \A q \in Pages : up'[q] = "form" =>
             \/ q = p /\ upFile'[q] = f
             \/ up[q] = "form" /\ upFile'[q] = upFile[q]
    <3>1. up \in [Pages -> {"idle", "form", "stored", "found", "told"}]
          /\ up' = [up EXCEPT ![p] = "form"]
      BY <1>13 DEF RequestUpload
    <3>2. upFile \in [Pages -> Files]
      OBVIOUS
    <3> QED
      BY <2>2, <3>1, <3>2, SMT
  <2>4. FormHasKey'
    BY <2>2, <2>3
  <2>5. /\ up' \in [Pages -> {"idle", "form", "stored", "found", "told"}]
        /\ ops' \in 0..MaxOps
        /\ UNCHANGED <<objects, fileEvents, lists, del, delKey, missed>>
    BY <1>13 DEF RequestUpload
  <2>6. TypeOK'
    BY <2>3, <2>5
  <2> QED
    BY <2>4, <2>6
<1>14. ASSUME NEW p \in Pages, OpenAgain(p) PROVE Types'
  BY <1>14 DEF OpenAgain
<1>15. ASSUME NEW p \in Pages, NEW k \in Keys, AskDelete(p, k) PROVE Types'
  BY <1>15 DEF AskDelete
<1>16. CASE UNCHANGED vars
  BY <1>16 DEF vars
<1> QED
  BY <1>1, <1>2, <1>3, <1>4, <1>5, <1>6, <1>7, <1>8, <1>9, <1>10, <1>11,
     <1>12, <1>13, <1>14, <1>15, <1>16, <1>17 DEF Next, Work

\* A step that changes the bucket leaves an announcement to make; an
\* announcement leaves an event, an event a timer, a timer a load, or the
\* page is marked as having missed it.
LEMMA ListStep == FileInv /\ [Next]_vars => ListIsTrue'
<1> SUFFICES ASSUME FileInv, [Next]_vars PROVE ListIsTrue'
  OBVIOUS
<1> USE FileStoreAssumption
    DEF FileInv, Types, TypeOK, ListIsTrue, Coming, Announce, Reload, lists, asks
<1>1. CASE FanOut
  <2> SUFFICES ASSUME NEW q \in Pages, ~Coming(q)', ~missed'[q]
               PROVE  FALSE
    BY <1>1 DEF FanOut
  <2>1. PICK got \in SUBSET Pages :
          /\ inbox' = [p \in Pages |-> IF p \in got
                                       THEN Append(inbox[p], Head(fileEvents))
                                       ELSE inbox[p]]
          /\ missed' = [p \in Pages |-> missed[p] \/ p \notin got]
    BY <1>1 DEF FanOut
  <2>2. q \in got
    BY <2>1
  <2>3. inbox'[q] = Append(inbox[q], Head(fileEvents))
    BY <2>1, <2>2
  <2>4. Head(fileEvents) \in Events
    BY <1>1, QueueTypes DEF FanOut
  <2>5. Len(inbox'[q]) = Len(inbox[q]) + 1 /\ Len(inbox[q]) \in Nat
    BY <2>3, <2>4
  <2>6. inbox'[q] # <<>>
    BY <2>5
  <2> QED
    BY <2>6
<1>2. ASSUME NEW p \in Pages, PostFile(p) PROVE ListIsTrue'
  BY <1>2 DEF PostFile
<1>3. ASSUME NEW p \in Pages, UploadComplete(p) PROVE ListIsTrue'
  BY <1>3 DEF UploadComplete
<1>17. ASSUME NEW p \in Pages, AnnounceUpload(p) PROVE ListIsTrue'
  BY <1>17 DEF AnnounceUpload
<1>4. ASSUME NEW p \in Pages, AfterUpload(p) PROVE ListIsTrue'
  BY <1>4 DEF AfterUpload
<1>5. ASSUME NEW p \in Pages, StatObject(p) PROVE ListIsTrue'
  BY <1>5 DEF StatObject
<1>6. ASSUME NEW p \in Pages, RemoveObject(p) PROVE ListIsTrue'
  BY <1>6 DEF RemoveObject
<1>7. ASSUME NEW p \in Pages, AnnounceDelete(p) PROVE ListIsTrue'
  BY <1>7 DEF AnnounceDelete
<1>8. ASSUME NEW p \in Pages, AfterDelete(p) PROVE ListIsTrue'
  BY <1>8 DEF AfterDelete
<1>9. ASSUME NEW p \in Pages, HandleEvent(p) PROVE ListIsTrue'
  BY <1>9 DEF HandleEvent
<1>10. ASSUME NEW p \in Pages, FireTimer(p) PROVE ListIsTrue'
  BY <1>10 DEF FireTimer
<1>11. ASSUME NEW p \in Pages, ListFiles(p) PROVE ListIsTrue'
  <2>1. CASE /\ answer' = [answer EXCEPT ![p] = objects]
             /\ load' = [load EXCEPT ![p] = "answered"]
             /\ missed' = [missed EXCEPT ![p] = FALSE]
             /\ UNCHANGED shown
    BY <1>11, <2>1 DEF ListFiles
  <2>2. CASE /\ shown' = [shown EXCEPT ![p] = {}]
             /\ load' = [load EXCEPT ![p] = "none"]
             /\ missed' = [missed EXCEPT ![p] = TRUE]
             /\ UNCHANGED answer
    BY <1>11, <2>2 DEF ListFiles
  <2> QED
    BY <1>11, <2>1, <2>2 DEF ListFiles
<1>12. ASSUME NEW p \in Pages, Render(p) PROVE ListIsTrue'
  BY <1>12 DEF Render
<1>13. ASSUME NEW p \in Pages, RequestUpload(p) PROVE ListIsTrue'
  BY <1>13 DEF RequestUpload
<1>14. ASSUME NEW p \in Pages, OpenAgain(p) PROVE ListIsTrue'
  BY <1>14 DEF OpenAgain
<1>15. ASSUME NEW p \in Pages, NEW k \in Keys, AskDelete(p, k)
       PROVE  ListIsTrue'
  BY <1>15 DEF AskDelete
<1>16. CASE UNCHANGED vars
  BY <1>16 DEF vars
<1> QED
  BY <1>1, <1>2, <1>3, <1>4, <1>5, <1>6, <1>7, <1>8, <1>9, <1>10, <1>11,
     <1>12, <1>13, <1>14, <1>15, <1>16, <1>17 DEF Next, Work

-----------------------------------------------------------------------------
(* The theorems.                                                           *)

\* The types and the lists, for any pages, users and times.
THEOREM FileInvariant == Spec => []FileInv
<1>1. FileInv /\ [Next]_vars => FileInv'
  BY FileTypeStep, ListStep DEF FileInv
<1> QED
  BY <1>1, FileInit, PTL DEF Spec

\* Every variable has its type.
THEOREM FileTypes == Spec => []TypeOK
<1>1. FileInv => TypeOK
  BY DEF FileInv, Types
<1> QED
  BY <1>1, FileInvariant, PTL

\* Each page's list is the bucket's (files.html, UploadComplete, DeleteFile).
THEOREM ListsAreTrue == Spec => []ListIsTrue
<1>1. FileInv => ListIsTrue
  BY DEF FileInv
<1> QED
  BY <1>1, FileInvariant, PTL
=============================================================================
