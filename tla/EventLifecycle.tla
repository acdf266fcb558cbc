--------------------------- MODULE EventLifecycle ---------------------------
(***************************************************************************)
(* One event: its status, its cover image in the object store, and its     *)
(* view counter, under the create, update, delete and get handlers.        *)
(*                                                                         *)
(* The update handler reads the row, may upload a file, computes the new   *)
(* row from the one it read and writes every column but the counter back,  *)
(* by id alone.  The object store is not part of any transaction: what a   *)
(* failure leaves there is removed by hand.                                *)
(***************************************************************************)
EXTENDS Naturals, FiniteSets

CONSTANTS
  Handlers,  \* HTTP requests in flight at the same time
  CoverKeys, \* keys that uploadCoverImage can make
  MaxViews,  \* bound: views counted
  Null       \* SQL NULL, no file, no status given

ASSUME EventAssumption ==
  /\ MaxViews \in Nat
  /\ Null \notin CoverKeys
  /\ Null \notin {"absent", "draft", "published", "cancelled", "deleted"}
  /\ Null \notin {"create", "update", "delete", "get"}

VARIABLES
  status,       \* events.status; "absent" before the row exists, "deleted" after it
  cover,        \* events.cover_image
  views,        \* events.views_count
  storedCovers, \* the object store
  coversMade,   \* keys that were ever made
  calm,         \* no two handlers that write have overlapped, and no failure is left
                \* that the code does not handle; history, read by properties only
  edit          \* what a handler remembers across its awaits

row == <<status, cover, views>>
eventVars == <<row, storedCovers, coversMade, calm, edit>>

EventStatus == {"draft", "published", "cancelled"}
Exists == status \in EventStatus

NoEdit == [pc |-> "idle", op |-> Null, status |-> Null, cover |-> Null,
           to |-> Null, file |-> Null]

EventInit ==
  /\ status = "absent"
  /\ cover = Null
  /\ views = 0
  /\ storedCovers = {}
  /\ coversMade = {}
  /\ calm = TRUE
  /\ edit = [r \in Handlers |-> NoEdit]

Proceed(r, pc) == edit' = [edit EXCEPT ![r].pc = pc]
EndEdit(r) == edit' = [edit EXCEPT ![r] = NoEdit]

\* A handler that writes starts with the row it read.
BeginEdit(r, pc, op, s, to) ==
  /\ edit[r] = NoEdit
  /\ edit' = [edit EXCEPT ![r] = [pc |-> pc, op |-> op, status |-> s,
                                  cover |-> cover, to |-> to, file |-> Null]]
  /\ calm' = (calm /\ \A q \in Handlers : edit[q].op \in {Null, "get"})

-----------------------------------------------------------------------------
(* Create.                                                                 *)

CreateWithoutFile(r, s) ==
  /\ edit[r] = NoEdit /\ status = "absent"
  /\ status' = s
  /\ UNCHANGED <<cover, views, storedCovers, coversMade, calm, edit>>

\* The row comes first; it stays whatever happens to the file.
CreateWithFile(r, s) ==
  /\ status = "absent"
  /\ status' = s
  /\ BeginEdit(r, "uploading", "create", s, Null)
  /\ UNCHANGED <<cover, views, storedCovers, coversMade>>

-----------------------------------------------------------------------------
(* Update.                                                                 *)

BeginUpdate(r, to, withFile) ==
  /\ Exists
  /\ BeginEdit(r, IF withFile THEN "uploading" ELSE "writing", "update", status, to)
  /\ UNCHANGED <<row, storedCovers, coversMade>>

Upload(r, o) ==
  /\ edit[r].pc = "uploading"
  /\ o \notin coversMade
  /\ coversMade' = coversMade \cup {o}
  /\ storedCovers' = storedCovers \cup {o}
  /\ edit' = [edit EXCEPT ![r].pc = "writing", ![r].file = o]
  /\ UNCHANGED <<row, calm>>

UploadFails(r) ==
  /\ edit[r].pc = "uploading"
  /\ EndEdit(r)
  /\ UNCHANGED <<row, storedCovers, coversMade, calm>>

\* No status given keeps the one that was read.
CanTransition(from, to) ==
  \/ to = Null \/ to = from
  \/ from = "draft" /\ to \in {"published", "cancelled"}
  \/ from = "published" /\ to = "cancelled"

\* applyEventUpdate throws, or the statement fails with the row unchanged, as it
\* does when the row is gone: the file that was uploaded is removed again.
WriteRowFails_KeepsFile(r) ==
  /\ edit[r].pc = "writing"
  /\ EndEdit(r)
  /\ UNCHANGED <<row, storedCovers, coversMade, calm>>

WriteRowFails(r) ==
  /\ edit[r].pc = "writing"
  /\ IF edit[r].file # Null THEN Proceed(r, "cleaning") ELSE EndEdit(r)
  /\ UNCHANGED <<row, storedCovers, coversMade, calm>>

Applies_Unchecked(r) == Exists
Applies(r) == Exists /\ CanTransition(edit[r].status, edit[r].to)

NextStatus(q) == IF q.to = Null THEN q.status ELSE q.to
NextCover(q) == IF q.file = Null THEN q.cover ELSE q.file

\* Every column but the counter is written as computed from the row read.
WriteRow(r) ==
  /\ edit[r].pc = "writing"
  /\ Applies(r)
  /\ status' = NextStatus(edit[r])
  /\ cover' = NextCover(edit[r])
  /\ IF edit[r].file # Null /\ edit[r].cover # Null
       THEN Proceed(r, "deleting")
       ELSE EndEdit(r)
  /\ UNCHANGED <<views, storedCovers, coversMade, calm>>

\* The row is written but the answer of the database is lost: the handler takes
\* it for a failure.
WriteRowUnanswered(r) ==
  /\ edit[r].pc = "writing"
  /\ Applies(r)
  /\ status' = NextStatus(edit[r])
  /\ cover' = NextCover(edit[r])
  /\ IF edit[r].file # Null THEN Proceed(r, "cleaning") ELSE EndEdit(r)
  /\ calm' = FALSE
  /\ UNCHANGED <<views, storedCovers, coversMade>>

\* The file of a write that failed is removed.
Clean(r) ==
  /\ edit[r].pc = "cleaning"
  /\ storedCovers' = storedCovers \ {edit[r].file}
  /\ EndEdit(r)
  /\ UNCHANGED <<row, coversMade, calm>>

-----------------------------------------------------------------------------
(* Delete, and the removal of the cover that was read.                     *)

BeginRemoval(r) ==
  /\ Exists
  /\ BeginEdit(r, "removing", "delete", status, Null)
  /\ UNCHANGED <<row, storedCovers, coversMade>>

Remove(r) ==
  /\ edit[r].pc = "removing"
  /\ IF Exists
       THEN /\ status' = "deleted"
            /\ cover' = Null
            /\ IF edit[r].cover # Null THEN Proceed(r, "deleting") ELSE EndEdit(r)
       ELSE EndEdit(r) /\ UNCHANGED <<status, cover>>
  /\ UNCHANGED <<views, storedCovers, coversMade, calm>>

DeleteCover_New(r) ==
  /\ edit[r].pc = "deleting"
  /\ storedCovers' = storedCovers \ {cover}
  /\ EndEdit(r)
  /\ UNCHANGED <<row, coversMade, calm>>

DeleteCover(r) ==
  /\ edit[r].pc = "deleting"
  /\ storedCovers' = storedCovers \ {edit[r].cover}
  /\ EndEdit(r)
  /\ UNCHANGED <<row, coversMade, calm>>

-----------------------------------------------------------------------------
(* Get, for someone other than the owner or a published event.             *)

GetEvent(r) ==
  /\ edit[r] = NoEdit
  /\ status = "published"
  /\ edit' = [edit EXCEPT ![r].pc = "counting", ![r].op = "get"]
  /\ UNCHANGED <<row, storedCovers, coversMade, calm>>

\* The increment fails if the row is gone by now.
IncrementViews(r) ==
  /\ edit[r].pc = "counting"
  /\ views < MaxViews
  /\ views' = IF Exists THEN views + 1 ELSE views
  /\ EndEdit(r)
  /\ UNCHANGED <<status, cover, storedCovers, coversMade, calm>>

-----------------------------------------------------------------------------
\* The object store refuses a removal, or the process stops: files can be left.
HandlerDies(r) ==
  /\ edit[r] # NoEdit
  /\ EndEdit(r)
  /\ calm' = (calm /\ edit[r].file = Null /\ edit[r].pc # "deleting")
  /\ UNCHANGED <<row, storedCovers, coversMade>>

Create(r) ==
  \E s \in EventStatus : CreateWithoutFile(r, s) \/ CreateWithFile(r, s)

Update(r) ==
  \/ \E to \in EventStatus \cup {Null}, withFile \in BOOLEAN :
       BeginUpdate(r, to, withFile)
  \/ \E o \in CoverKeys : Upload(r, o)
  \/ UploadFails(r)
  \/ WriteRow(r) \/ WriteRowFails(r) \/ WriteRowUnanswered(r) \/ Clean(r)

EventNext ==
  \E r \in Handlers :
    \/ Create(r)
    \/ Update(r)
    \/ BeginRemoval(r) \/ Remove(r) \/ DeleteCover(r)
    \/ GetEvent(r) \/ IncrementViews(r)
    \/ HandlerDies(r)

EventSpec == EventInit /\ [][EventNext]_eventVars

-----------------------------------------------------------------------------
(* Properties.                                                             *)

EventTypeOK ==
  /\ status \in EventStatus \cup {"absent", "deleted"}
  /\ cover \in coversMade \cup {Null}
  /\ ~ Exists => cover = Null
  /\ views \in 0..MaxViews
  /\ storedCovers \subseteq coversMade
  /\ coversMade \subseteq CoverKeys
  /\ calm \in BOOLEAN
  /\ edit \in [Handlers ->
       [pc : {"idle", "uploading", "writing", "cleaning", "removing", "deleting",
              "counting"},
        op : {"create", "update", "delete", "get", Null},
        status : EventStatus \cup {Null}, cover : coversMade \cup {Null},
        to : EventStatus \cup {Null}, file : coversMade \cup {Null}]]

Writing == {r \in Handlers : edit[r].op \notin {Null, "get"}}

\* While handlers do not overlap, failures that the code handles leave no trace:
\* the row names a file that is stored, and between handlers no other file is
\* (create-event.service.ts:72-105, update-event.service.ts:54-107).
FilesMatchWhenCalm ==
  /\ EventTypeOK
  /\ calm => /\ cover # Null => cover \in storedCovers
             /\ Writing = {} => storedCovers \subseteq {cover}

\* While handlers do not overlap, the status only moves as the lifecycle allows,
\* views and failed writes in between included (event.ts:65-70).
LegalWhenCalm ==
  [][Exists /\ Exists' /\ calm => CanTransition(status, status')]_status

=============================================================================
