------------------------------- MODULE FileStore ------------------------------
(***************************************************************************)
(* Files of one chat: web/file_handlers.go and internal/storage/minio.go   *)
(* between the pages of web/templates/files.html and the object storage.   *)
(*                                                                         *)
(* A page uploads past the server: it asks for a form, posts the file to   *)
(* the storage, and tells the server, which announces it to all pages over *)
(* the hub.  A delete goes through the server.  A page that hears of a     *)
(* change loads the list again.  A call may fail, and then leaves things   *)
(* as they were; a page that fails to get the list shows none.             *)
(*                                                                         *)
(* A definition named X_Y is X with a fault Y a programmer could make: a   *)
(* property must fail once X is replaced by it.                            *)
(***************************************************************************)
EXTENDS Integers, Sequences

CONSTANTS
  Pages,     \* open file pages
  Users,     \* user names
  User,      \* who looks at a page
  Seconds,   \* times at which forms are made
  Sizes,     \* sizes of files, by which the contents are told apart
  MaxOps     \* bound: what users do in all

\* The storage takes files from one byte on (SetContentLengthRange).
ASSUME FileStoreAssumption ==
  /\ User \in [Pages -> Users] /\ Seconds \subseteq Nat
  /\ Sizes \subseteq Nat \ {0} /\ MaxOps \in Nat

VARIABLES
  objects,     \* files in the bucket, one to a key
  fileEvents,  \* the hub's queue of events
  shown,       \* the files in the page's list
  load,        \* loadFiles: "none", "asked" or "answered"
  answer,      \* the answer on its way
  inbox,       \* events on their way to the page
  timers,      \* reloads due after an event
  up, upFile,  \* the page's upload and what is known of its file
  del, delKey, \* the page's delete request and its key
  ops,         \* what users have done
  missed       \* history: the page was not told of a change, or did not
               \* load the list for it, since its list was last read

lists  == <<shown, load, answer, inbox, timers>>
asks   == <<up, upFile, del, delKey>>
vars   == <<objects, fileEvents, lists, asks, ops, missed>>

-----------------------------------------------------------------------------
\* chat-<chat>/<user>/<second>-<name>, for one name; -1 is a time no form has.
Keys == Users \X (Seconds \union {-1})

\* The key a page makes up when the storage's answer does not name it, with
\* milliseconds for seconds.
GuessedKey(u) == <<u, -1>>

Owner(k) == k[1]

\* FileInfo; 0 is the size of one that UploadComplete makes up, or of a file
\* that is not posted yet.
Info(k, n) == [key |-> k, size |-> n]

Files == [key : Keys, size : Sizes \union {0}]

\* The files of a list or a bucket under a key.
Under(k, files) == {f \in files : f.key = k}

Event(t, f) == [type |-> t, file |-> f]

Events == [type : {"upload", "delete"}, file : Files]

Init ==
  /\ objects = {} /\ fileEvents = <<>> /\ ops = 0
  /\ shown = [p \in Pages |-> {}]
  /\ load = [p \in Pages |-> "asked"] /\ answer = [p \in Pages |-> {}]
  /\ inbox = [p \in Pages |-> <<>>] /\ timers = [p \in Pages |-> 0]
  /\ up = [p \in Pages |-> "idle"] /\ del = [p \in Pages |-> "idle"]
  /\ upFile = [p \in Pages |-> Info(GuessedKey(User[p]), 0)]
  /\ delKey = [p \in Pages |-> GuessedKey(User[p])]
  /\ missed = [p \in Pages |-> FALSE]

Acts == ops < MaxOps /\ ops' = ops + 1

\* FileEvents takes the event, or is full and nobody learns of it.
Announce(e) ==
  \/ fileEvents' = Append(fileEvents, e) /\ UNCHANGED missed
  \/ missed' = [p \in Pages |-> TRUE] /\ UNCHANGED fileEvents

\* loadFiles(true): nothing while a load is in progress, which is in time
\* only if the list has not been read yet.
Reload(p) ==
  \/ /\ load[p] = "none"
     /\ load' = [load EXCEPT ![p] = "asked"] /\ UNCHANGED missed
  \/ /\ load[p] # "none"
     /\ missed' = [missed EXCEPT ![p] = @ \/ load[p] = "answered"]
     /\ UNCHANGED load

-----------------------------------------------------------------------------
(* Upload                                                                  *)

\* RequestUpload, GenerateUploadURL: two forms of a second have one key.
RequestUpload(p) ==
  /\ up[p] = "idle" /\ Acts
  /\ up' = [up EXCEPT ![p] = "form"]
  /\ \E s \in Seconds : upFile' = [upFile EXCEPT ![p] = Info(<<User[p], s>>, 0)]
  /\ UNCHANGED <<objects, fileEvents, lists, del, delKey, missed>>

\* The page posts the file under the key it makes up.
PostFile_OwnKey(p) ==
  /\ up[p] = "form"
  /\ \/ /\ \E n \in Sizes :
            objects' = objects \union {Info(GuessedKey(User[p]), n)}
        /\ up' = [up EXCEPT ![p] = "stored"]
     \/ up' = [up EXCEPT ![p] = "idle"] /\ UNCHANGED objects
  /\ UNCHANGED <<fileEvents, lists, upFile, del, delKey, ops, missed>>

\* The page posts the file; the storage replaces what the key had.
PostFile(p) ==
  LET k == upFile[p].key IN
    /\ up[p] = "form"
    /\ \/ /\ \E n \in Sizes :
              objects' = (objects \ Under(k, objects)) \union {Info(k, n)}
          /\ up' = [up EXCEPT ![p] = "stored"]
       \/ up' = [up EXCEPT ![p] = "idle"] /\ UNCHANGED objects
    /\ UNCHANGED <<fileEvents, lists, upFile, del, delKey, ops, missed>>

\* UploadComplete asks for the key it is given: it announces the file that it
\* finds, which may be another by then, or, not finding one, one it makes up.
\* The page ignores whether the call fails.
UploadComplete(p) ==
  /\ up[p] = "stored"
  /\ \/ /\ \E k \in {upFile[p].key, GuessedKey(User[p])} :
              \E f \in Under(k, objects) \union {Info(k, 0)} :
                upFile' = [upFile EXCEPT ![p] = f]
        /\ up' = [up EXCEPT ![p] = "found"]
        /\ UNCHANGED missed
     \/ /\ missed' = [q \in Pages |-> TRUE]
        /\ up' = [up EXCEPT ![p] = "told"]
        /\ UNCHANGED upFile
  /\ UNCHANGED <<objects, fileEvents, lists, del, delKey, ops>>

AnnounceUpload(p) ==
  /\ up[p] = "found"
  /\ Announce(Event("upload", upFile[p]))
  /\ up' = [up EXCEPT ![p] = "told"]
  /\ UNCHANGED <<objects, lists, upFile, del, delKey, ops>>

AfterUpload(p) ==
  /\ up[p] = "told"
  /\ up' = [up EXCEPT ![p] = "idle"] /\ Reload(p)
  /\ upFile' = [upFile EXCEPT ![p] = Info(GuessedKey(User[p]), 0)]
  /\ UNCHANGED <<objects, fileEvents, shown, answer, inbox, timers,
                 del, delKey, ops>>

-----------------------------------------------------------------------------
(* Delete                                                                  *)

\* DeleteFile is asked for a file of the page's list; it refuses any but the
\* user's own, for which alone the page has a button.
AskDelete(p, k) ==
  /\ del[p] = "idle" /\ Under(k, shown[p]) # {} /\ Owner(k) = User[p] /\ Acts
  /\ del' = [del EXCEPT ![p] = "stat"] /\ delKey' = [delKey EXCEPT ![p] = k]
  /\ UNCHANGED <<objects, fileEvents, lists, up, upFile, missed>>

\* StatObject: a key that is not there is an error for the page.
StatObject(p) ==
  /\ del[p] = "stat"
  /\ \/ Under(delKey[p], objects) # {} /\ del' = [del EXCEPT ![p] = "remove"]
     \/ del' = [del EXCEPT ![p] = "idle"]
  /\ UNCHANGED <<objects, fileEvents, lists, up, upFile, delKey, ops, missed>>

\* RemoveObject, which also succeeds when somebody else has removed the key.
RemoveObject(p) ==
  /\ del[p] = "remove"
  /\ \/ /\ objects' = objects \ Under(delKey[p], objects)
        /\ del' = [del EXCEPT ![p] = "announce"]
     \/ del' = [del EXCEPT ![p] = "idle"] /\ UNCHANGED objects
  /\ UNCHANGED <<fileEvents, lists, up, upFile, delKey, ops, missed>>

AnnounceDelete(p) ==
  /\ del[p] = "announce"
  /\ Announce(Event("delete", Info(delKey[p], 0)))
  /\ del' = [del EXCEPT ![p] = "done"]
  /\ UNCHANGED <<objects, lists, up, upFile, delKey, ops>>

AfterDelete(p) ==
  /\ del[p] = "done"
  /\ del' = [del EXCEPT ![p] = "idle"] /\ Reload(p)
  /\ delKey' = [delKey EXCEPT ![p] = GuessedKey(User[p])]
  /\ UNCHANGED <<objects, fileEvents, shown, answer, inbox, timers,
                 up, upFile, ops>>

-----------------------------------------------------------------------------
(* Events and lists                                                        *)

\* The hub sends the event to the pages that are connected and keep up (Hub).
FanOut ==
  /\ fileEvents # <<>> /\ fileEvents' = Tail(fileEvents)
  /\ \E got \in SUBSET Pages :
       /\ inbox' = [p \in Pages |-> IF p \in got
                                    THEN Append(inbox[p], Head(fileEvents))
                                    ELSE inbox[p]]
       /\ missed' = [p \in Pages |-> missed[p] \/ p \notin got]
  /\ UNCHANGED <<objects, shown, load, answer, timers, asks, ops>>

\* The lists that handleFileEvent may leave: it puts the file in, also beside
\* another of its key, or takes the first of the key out, for which it looks
\* for the owner's button.  An entry goes when its animation has ended, and of
\* two that look the same one stays.
Edited(p, e) ==
  IF e.type = "upload" THEN {shown[p] \union {e.file}}
  ELSE {shown[p]} \union
         IF Owner(e.file.key) # User[p] THEN {}
         ELSE {shown[p] \ {f} : f \in Under(e.file.key, shown[p])}

\* Trusts the event instead of loading the list.
HandleEvent_NoReload(p) ==
  /\ inbox[p] # <<>>
  /\ inbox' = [inbox EXCEPT ![p] = Tail(@)]
  /\ \E fs \in Edited(p, Head(inbox[p])) : shown' = [shown EXCEPT ![p] = fs]
  /\ UNCHANGED <<objects, fileEvents, load, answer, timers, asks, ops, missed>>

\* Takes a file whose key it has in its list for one it knows.
HandleEvent_KnownKey(p) ==
  LET e == Head(inbox[p])
      known == e.type = "upload" /\ Under(e.file.key, shown[p]) # {} IN
    /\ inbox[p] # <<>>
    /\ inbox' = [inbox EXCEPT ![p] = Tail(@)]
    /\ IF known THEN UNCHANGED <<shown, timers>>
       ELSE /\ \E fs \in Edited(p, e) : shown' = [shown EXCEPT ![p] = fs]
            /\ timers' = [timers EXCEPT ![p] = @ + 1]
    /\ UNCHANGED <<objects, fileEvents, load, answer, asks, ops, missed>>

HandleEvent(p) ==
  /\ inbox[p] # <<>>
  /\ inbox' = [inbox EXCEPT ![p] = Tail(@)]
  /\ \E fs \in Edited(p, Head(inbox[p])) : shown' = [shown EXCEPT ![p] = fs]
  /\ timers' = [timers EXCEPT ![p] = @ + 1]
  /\ UNCHANGED <<objects, fileEvents, load, answer, asks, ops, missed>>

FireTimer(p) ==
  /\ timers[p] > 0 /\ timers' = [timers EXCEPT ![p] = @ - 1]
  /\ Reload(p)
  /\ UNCHANGED <<objects, fileEvents, shown, answer, inbox, asks, ops>>

\* The handler ListFiles; an error of it, or on the way, leaves no list.
ListFiles(p) ==
  /\ load[p] = "asked"
  /\ \/ /\ answer' = [answer EXCEPT ![p] = objects]
        /\ load' = [load EXCEPT ![p] = "answered"]
        /\ missed' = [missed EXCEPT ![p] = FALSE]
        /\ UNCHANGED shown
     \/ /\ shown' = [shown EXCEPT ![p] = {}]
        /\ load' = [load EXCEPT ![p] = "none"]
        /\ missed' = [missed EXCEPT ![p] = TRUE]
        /\ UNCHANGED answer
  /\ UNCHANGED <<objects, fileEvents, inbox, timers, asks, ops>>

Render(p) ==
  /\ load[p] = "answered"
  /\ shown' = [shown EXCEPT ![p] = answer[p]]
  /\ answer' = [answer EXCEPT ![p] = {}]
  /\ load' = [load EXCEPT ![p] = "none"]
  /\ UNCHANGED <<objects, fileEvents, inbox, timers, asks, ops, missed>>

-----------------------------------------------------------------------------
\* The user opens the page anew: an upload that is not announced never is.
\* (A page is not left while the server works on a request of it.)
OpenAgain(p) ==
  /\ del[p] = "idle" /\ up[p] # "found" /\ Acts
  /\ shown' = [shown EXCEPT ![p] = {}] /\ answer' = [answer EXCEPT ![p] = {}]
  /\ load' = [load EXCEPT ![p] = "asked"]
  /\ inbox' = [inbox EXCEPT ![p] = <<>>] /\ timers' = [timers EXCEPT ![p] = 0]
  /\ up' = [up EXCEPT ![p] = "idle"]
  /\ missed' = [q \in Pages |-> missed[q] \/ up[p] = "stored"]
  /\ UNCHANGED <<objects, fileEvents, upFile, del, delKey>>

\* What happens without a user.
Work(p) ==
  \/ PostFile(p) \/ UploadComplete(p) \/ AnnounceUpload(p) \/ AfterUpload(p)
  \/ StatObject(p) \/ RemoveObject(p) \/ AnnounceDelete(p) \/ AfterDelete(p)
  \/ HandleEvent(p) \/ FireTimer(p) \/ ListFiles(p) \/ Render(p)

Next ==
  \/ FanOut
  \/ \E p \in Pages : Work(p) \/ RequestUpload(p) \/ OpenAgain(p)
  \/ \E p \in Pages, k \in Keys : AskDelete(p, k)

Spec == Init /\ [][Next]_vars

-----------------------------------------------------------------------------
(* Properties.                                                             *)

\* A bucket has one file to a key, and none under a key that a page made up.
Bucket(files) ==
  /\ files \subseteq [key : Users \X Seconds, size : Sizes]
  /\ \A f, g \in files : f.key = g.key => f = g

\* Every variable has its type.
TypeOK ==
  /\ Bucket(objects) /\ ops \in 0..MaxOps
  /\ fileEvents \in Seq(Events)
  /\ shown \in [Pages -> SUBSET Files]
  /\ answer \in [Pages -> SUBSET Files]
  /\ load \in [Pages -> {"none", "asked", "answered"}]
  /\ inbox \in [Pages -> Seq(Events)]
  /\ timers \in [Pages -> Nat]
  /\ up \in [Pages -> {"idle", "form", "stored", "found", "told"}]
  /\ del \in [Pages -> {"idle", "stat", "remove", "announce", "done"}]
  /\ upFile \in [Pages -> Files] /\ delKey \in [Pages -> Keys]
  /\ missed \in [Pages -> BOOLEAN]

\* A change of the bucket that the page has still to hear of or to act on.
Coming(p) ==
  \/ \E q \in Pages : up[q] \in {"stored", "found"} \/ del[q] = "announce"
  \/ fileEvents # <<>> \/ inbox[p] # <<>> \/ timers[p] > 0

\* Whatever it made of announcements that came late, in another order, or of
\* files that are not there or have been replaced under their key, a page with
\* nothing to come and no load in progress shows what is in the bucket, each
\* file as it is now, and so does an answer on its way.
ListIsTrue ==
  \A p \in Pages : ~Coming(p) /\ ~missed[p] =>
    /\ load[p] = "none" => shown[p] = objects
    /\ load[p] = "answered" => answer[p] = objects
=============================================================================
