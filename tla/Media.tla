------------------------------- MODULE Media -------------------------------
(***************************************************************************)
(* The files of statuses, of a user's avatar and of chat attachments, in   *)
(* the one object store that they share, and the rows that name them.      *)
(*                                                                         *)
(* The store is part of no transaction, and a request to it can be carried *)
(* out though its answer times out.  Each handler uploads, writes the row  *)
(* that names the file, and removes by hand the file it replaces or the    *)
(* file of a write that failed.  The media of a status may also be given   *)
(* as a URL, which any client can read in any row.                         *)
(***************************************************************************)
EXTENDS Naturals

CONSTANTS
  Requests, \* HTTP requests in flight at the same time
  Files,    \* keys that an upload can make
  Statuses, \* rows of statuses
  Messages, \* messages with an attachment
  None,     \* SQL NULL, no file
  Absent    \* no row yet

ASSUME ConstantsAssumption ==
  /\ None # Absent /\ {None, Absent} \cap Files = {}
  /\ Absent \notin {"sent", "deleted"}
  /\ None \notin Statuses \cup Messages /\ Statuses \cap Messages = {}

VARIABLES
  stored,     \* the object store
  made,       \* keys that were ever made
  media,      \* statuses.media_url, None when the row is gone
  avatar,     \* users.avatar_url
  message,    \* whether each message is "sent" or "deleted"
  attachment, \* message_attachments.storage_key
  handed,     \* files whose URL uploadMedia returned
  req,        \* what a handler remembers across its awaits
  doubtful,   \* files given as a URL more than once, or named by a statement that
              \* was not answered,
  excused,    \* files whose removal failed or nobody was left to do, and those of
              \* uploads that were refused once they were stored, and
  abandoned   \* messages whose handler died, or could not delete them;
              \* histories, read by properties only

rows == <<media, avatar, message, attachment>>
store == <<stored, made, handed>>
histories == <<doubtful, excused, abandoned>>
vars == <<store, rows, req, histories>>

Idle == [pc |-> "idle", op |-> "none", row |-> None, file |-> None, old |-> None]

Init ==
  /\ stored = {} /\ made = {} /\ handed = {}
  /\ media = [s \in Statuses |-> Absent]
  /\ avatar = None
  /\ message = [m \in Messages |-> Absent]
  /\ attachment = [m \in Messages |-> None]
  /\ req = [r \in Requests |-> Idle]
  /\ doubtful = {} /\ excused = {} /\ abandoned = {}

Go(r, pc) == req' = [req EXCEPT ![r].pc = pc]
Answer(r) == req' = [req EXCEPT ![r] = Idle]

Begin(r, pc, op, row, file, old) ==
  /\ req[r] = Idle
  /\ req' = [req EXCEPT ![r] = [pc |-> pc, op |-> op, row |-> row,
                                file |-> file, old |-> old]]

-----------------------------------------------------------------------------
(* How the handlers begin.                                                 *)

\* POST /statuses/media: the file is stored for a status to come.
BeginUploadMedia(r) ==
  /\ Begin(r, "uploading", "media", None, None, None)
  /\ UNCHANGED <<store, rows, histories>>

Fresh(s) == media[s] = Absent /\ \A r \in Requests : req[r].row # s

BeginStatusWithFile(r, s) ==
  /\ Fresh(s)
  /\ Begin(r, "uploading", "status", s, None, None)
  /\ UNCHANGED <<store, rows, histories>>

\* What a client has the URL of: keys of attachments stay in the server.
Public ==
  handed \cup (Files \cap ({avatar} \cup {media[s] : s \in Statuses}
                          \cup {req[r].file : r \in {q \in Requests : req[q].pc = "naming"}}))

\* The URL is taken as it is given: of the file that uploadMedia returned, or of
\* any other.  Nothing was uploaded, so nothing will be cleaned up.
BeginStatusWithUrl(r, s, f) ==
  /\ Fresh(s)
  /\ f \in Public
  /\ Begin(r, "naming", "status", s, f, None)
  /\ doubtful' = IF f \in handed THEN doubtful ELSE doubtful \cup {f}
  /\ handed' = handed \ {f}
  /\ UNCHANGED <<stored, made, rows, excused, abandoned>>

BeginAvatar(r) ==
  /\ Begin(r, "uploading", "avatar", None, None, avatar)
  /\ UNCHANGED <<store, rows, histories>>

\* addAttachment commits the message before the upload.
BeginAttachment(r, m) ==
  /\ message[m] = Absent
  /\ message' = [message EXCEPT ![m] = "sent"]
  /\ Begin(r, "uploading", "attachment", m, None, None)
  /\ UNCHANGED <<store, media, avatar, attachment, histories>>

BeginDelete(r, s) ==
  /\ media[s] \in Files
  /\ Begin(r, "deleting", "status", s, None, media[s])
  /\ UNCHANGED <<store, rows, histories>>

\* The file of a message that its sender deletes stays, and is served no more.
DeleteMessage(m) ==
  /\ message[m] = "sent"
  /\ message' = [message EXCEPT ![m] = "deleted"]
  /\ UNCHANGED <<store, media, avatar, attachment, req, histories>>

-----------------------------------------------------------------------------
(* The store.                                                              *)

FailAfterUpload_Answers(r) == Answer(r)

\* addAttachment deletes its message when anything fails, the others just answer.
FailAfterUpload(r) == IF req[r].op = "attachment" THEN Go(r, "erasing") ELSE Answer(r)

Put(r, f) ==
  /\ req[r].pc = "uploading" /\ f \notin made
  /\ made' = made \cup {f}
  /\ stored' = stored \cup {f}
  /\ req' = [req EXCEPT ![r].file = f,
       ![r].pc = IF req[r].op = "media" THEN "returning" ELSE "writing"]
  /\ UNCHANGED <<handed, rows, histories>>

\* uploadMedia has gone through the parts of the request.
ReturnUrl(r) ==
  /\ req[r].pc = "returning"
  /\ handed' = handed \cup {req[r].file}
  /\ Answer(r)
  /\ UNCHANGED <<stored, made, rows, histories>>

\* There is another file among the parts, or the rest of them does not come: the file
\* that is stored stays, and nobody is told its URL.
RefusePart(r) ==
  /\ req[r].pc = "returning"
  /\ excused' = excused \cup {req[r].file}
  /\ Answer(r)
  /\ UNCHANGED <<store, rows, doubtful, abandoned>>

\* The upload times out after the store has taken the file: nobody knows its key.
PutUnanswered(r, f) ==
  /\ req[r].pc = "uploading" /\ f \notin made
  /\ made' = made \cup {f}
  /\ stored' = stored \cup {f}
  /\ excused' = excused \cup {f}
  /\ FailAfterUpload(r)
  /\ UNCHANGED <<handed, rows, doubtful, abandoned>>

PutRefused(r) ==
  /\ req[r].pc = "uploading"
  /\ FailAfterUpload(r)
  /\ UNCHANGED <<store, rows, histories>>

\* deleteFile, of the file replaced, of the file of the row deleted, or of the file
\* that was uploaded for a write that failed.
Victim(r) == IF req[r].pc = "cleaning" THEN req[r].file ELSE req[r].old

DeleteFile(r) ==
  /\ req[r].pc \in {"cleaning", "removing"}
  /\ stored' = stored \ {Victim(r)}
  /\ FailAfterUpload(r)
  /\ UNCHANGED <<made, handed, rows, histories>>

DeleteFileFails(r) ==
  /\ req[r].pc \in {"cleaning", "removing"}
  /\ excused' = excused \cup {Victim(r)}
  /\ FailAfterUpload(r)
  /\ UNCHANGED <<store, rows, doubtful, abandoned>>

-----------------------------------------------------------------------------
(* The rows.                                                               *)

Name(r) ==
  LET q == req[r] IN
  /\ media' = IF q.op = "status" THEN [media EXCEPT ![q.row] = q.file] ELSE media
  /\ avatar' = IF q.op = "avatar" THEN q.file ELSE avatar
  /\ attachment' = IF q.op = "attachment" THEN [attachment EXCEPT ![q.row] = q.file]
                                          ELSE attachment
  /\ message' = message

\* A new avatar takes the place of the one there now, maybe not of the one read.
Overwritten(r) ==
  IF req[r].op = "avatar" /\ avatar # req[r].old THEN {avatar} \ {None} ELSE {}

Write_CleansUp(r) ==
  /\ req[r].pc \in {"writing", "naming"}
  /\ Name(r)
  /\ excused' = excused \cup Overwritten(r)
  /\ IF req[r].pc = "writing" THEN Go(r, "cleaning") ELSE Answer(r)
  /\ UNCHANGED <<store, doubtful, abandoned>>

Write_KeepsOld(r) ==
  /\ req[r].pc \in {"writing", "naming"}
  /\ Name(r)
  /\ excused' = excused \cup Overwritten(r)
  /\ Answer(r)
  /\ UNCHANGED <<store, doubtful, abandoned>>

Write(r) ==
  /\ req[r].pc \in {"writing", "naming"}
  /\ Name(r)
  /\ excused' = excused \cup Overwritten(r)
  /\ IF req[r].old # None THEN Go(r, "removing") ELSE Answer(r)
  /\ UNCHANGED <<store, doubtful, abandoned>>

\* Whoever gave a URL still has it.
WriteFails(r) ==
  /\ req[r].pc \in {"writing", "naming"}
  /\ IF req[r].pc = "writing"
       THEN Go(r, "cleaning") /\ UNCHANGED handed
       ELSE Answer(r) /\ handed' = handed \cup {req[r].file}
  /\ UNCHANGED <<stored, made, rows, histories>>

\* The statement is carried out and the handler takes it for a failure: it removes
\* the file that the row names.
WriteUnanswered(r) ==
  /\ req[r].pc \in {"writing", "naming"}
  /\ Name(r)
  /\ IF req[r].pc = "writing"
       THEN Go(r, "cleaning") /\ doubtful' = doubtful \cup {req[r].file}
       ELSE Answer(r) /\ UNCHANGED doubtful
  /\ excused' = excused \cup (IF req[r].op = "avatar" THEN {avatar} \ {None} ELSE {})
  /\ UNCHANGED <<store, abandoned>>

\* The row of a status goes before its file.
DeleteRow(r) ==
  /\ req[r].pc = "deleting"
  /\ IF media[req[r].row] = req[r].old
       THEN media' = [media EXCEPT ![req[r].row] = None] /\ Go(r, "removing")
       ELSE Answer(r) /\ UNCHANGED media
  /\ UNCHANGED <<store, avatar, message, attachment, histories>>

EraseMessage(r) ==
  /\ req[r].pc = "erasing"
  /\ message' = [message EXCEPT ![req[r].row] = "deleted"]
  /\ Answer(r)
  /\ UNCHANGED <<store, media, avatar, attachment, histories>>

\* The process stops, or a statement that only cleans up fails.
RequestDies(r) ==
  /\ req[r] # Idle
  /\ Answer(r)
  /\ excused' = excused \cup ({req[r].file, req[r].old} \ {None})
  /\ abandoned' = abandoned \cup ({req[r].row} \cap Messages)
  /\ UNCHANGED <<store, rows, doubtful>>

\* downloadAttachment: what the people of the conversation get.
Downloadable(m) == message[m] = "sent" /\ attachment[m] \in stored

Next ==
  \/ \E r \in Requests :
       \/ BeginUploadMedia(r) \/ BeginAvatar(r)
       \/ \E s \in Statuses :
            \/ BeginStatusWithFile(r, s) \/ BeginDelete(r, s)
            \/ \E f \in Files : BeginStatusWithUrl(r, s, f)
       \/ \E m \in Messages : BeginAttachment(r, m)
       \/ \E f \in Files : Put(r, f) \/ PutUnanswered(r, f)
       \/ PutRefused(r) \/ ReturnUrl(r) \/ RefusePart(r)
       \/ DeleteFile(r) \/ DeleteFileFails(r)
       \/ Write(r) \/ WriteFails(r) \/ WriteUnanswered(r) \/ DeleteRow(r)
       \/ EraseMessage(r) \/ RequestDies(r)
  \/ \E m \in Messages : DeleteMessage(m)

Spec == Init /\ [][Next]_vars

-----------------------------------------------------------------------------
(* Properties.                                                             *)

Working(m) == \E r \in Requests : req[r].row = m

TypeOK ==
  /\ stored \subseteq made /\ made \subseteq Files /\ handed \subseteq made
  /\ media \in [Statuses -> made \cup {None, Absent}]
  /\ avatar \in made \cup {None}
  /\ message \in [Messages -> {Absent, "sent", "deleted"}]
  /\ attachment \in [Messages -> made \cup {None}]
  /\ doubtful \cup excused \subseteq made /\ abandoned \subseteq Messages
  /\ req \in [Requests ->
       [pc : {"idle", "uploading", "returning", "writing", "naming", "cleaning",
              "removing", "deleting", "erasing"},
        op : {"none", "media", "status", "avatar", "attachment"},
        row : Statuses \cup Messages \cup {None},
        file : made \cup {None}, old : made \cup {None}]]
  /\ \A r \in Requests :
       /\ req[r].pc \in {"returning", "writing", "naming", "cleaning"} =>
            req[r].file # None
       /\ req[r].pc \in {"deleting", "removing"} => req[r].old # None

\* The media of a status and the avatar of a user are there to be shown, whatever
\* handlers overlap and fail: a file goes only after the row that names it, unless
\* its URL was given to a status of its own, or a statement was not answered
\* (statuses.service.ts:46-62, 87-92; update-profile.service.ts:103-150).
NamedFilesAreStored ==
  /\ TypeOK
  /\ \A s \in Statuses : media[s] \in Files => media[s] \in stored \cup doubtful
  /\ avatar # None => avatar \in stored \cup doubtful

\* A message with an attachment that is not deleted can be downloaded, once nobody
\* works on it; it stands there without its file only when its handler died or could
\* not delete it (chat.service.ts:544-586).
SentMessagesHaveFiles ==
  \A m \in Messages :
    message[m] = "sent" /\ ~ Working(m) /\ m \notin abandoned => Downloadable(m)

Named ==
  ({media[s] : s \in Statuses} \cup {attachment[m] : m \in Messages} \cup {avatar})
    \cap Files
Held == {req[r].file : r \in Requests} \cup {req[r].old : r \in Requests}

\* A stored file is named by a row, held by a handler or waiting for its status,
\* unless the store or the database did not answer, a removal failed, a handler died,
\* two new avatars overlapped, or POST /statuses/media found a second file in its
\* request, or no end of it, after it had stored the first: no other order of steps
\* leaves a file that nothing names (update-profile.service.ts:129-150;
\* storage.service.ts:247-264; statuses.controller.ts:42-58).
LeaksHaveCauses == stored \subseteq Named \cup Held \cup handed \cup excused
=============================================================================
