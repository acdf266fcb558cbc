---------------------------- MODULE MediaProofs ----------------------------
(***************************************************************************)
(* Proofs about the components that keep files, for any requests and keys. *)
(* Media: rows of statuses and users name files that are stored, messages  *)
(* that were sent can be downloaded, and every file that is left over has  *)
(* a cause.  EventLifecycle: while handlers do not overlap the cover of an *)
(* event is stored, no other file is, and its status moves as it may.      *)
(***************************************************************************)
EXTENDS Media, EventLifecycle, TLAPS

-----------------------------------------------------------------------------
(* The inductive invariant.                                                *)

\* What a handler remembers, by what it does and how far it is.
Shape ==
  \A r \in Requests :
    /\ req[r].pc = "idle" => req[r] = Idle
    /\ req[r].op = "none" => req[r].pc = "idle"
    /\ req[r].op = "media" =>
         /\ req[r].row = None /\ req[r].old = None
         /\ req[r].pc \in {"uploading", "returning"}
    /\ req[r].pc = "returning" => req[r].op = "media"
    /\ req[r].op = "status" =>
         /\ req[r].row \in Statuses
         /\ \/ /\ req[r].pc \in {"uploading", "writing", "naming", "cleaning"}
               /\ req[r].old = None
            \/ req[r].pc \in {"deleting", "removing"}
    /\ req[r].op = "avatar" =>
         /\ req[r].row = None
         /\ req[r].pc \in {"uploading", "writing", "cleaning", "removing"}
    /\ req[r].op = "attachment" =>
         /\ req[r].row \in Messages
         /\ req[r].pc \in {"uploading", "writing", "cleaning", "erasing"}
         /\ req[r].old = None

Creating(r) == req[r].pc \in {"uploading", "writing", "naming"}

\* A row that is being created has one handler and names no file yet, so that a
\* write to it makes nobody forget a file.
RowsAreNew ==
  /\ \A m \in Messages : message[m] = Absent =>
       attachment[m] = None /\ \A r \in Requests : req[r].row # m
  /\ \A r \in Requests : Creating(r) =>
       /\ req[r].op = "status" => media[req[r].row] = Absent
       /\ req[r].op = "attachment" => attachment[req[r].row] = None
  /\ \A r, q \in Requests :
       /\ req[r].row = req[q].row
       /\ req[r].op = "attachment" \/ (req[r].op = "status" /\ Creating(r))
       => r = q

\* The file that r uploaded or was given the URL of, and has not named or returned yet.
Holds(r, f) ==
  req[r].pc \in {"returning", "writing", "naming", "cleaning"} /\ req[r].file = f

\* f is in no row of a status or a user, its URL is not waiting for a status, and
\* nobody is to remove it as the file that was there before.
Private(f) ==
  /\ f \notin handed /\ avatar # f
  /\ \A s \in Statuses : media[s] # f
  /\ \A r \in Requests : req[r].old # f

\* A file has one role at a time, unless its URL was given twice or a statement that
\* names it was not answered: it waits for a status, or one handler holds it, or the
\* user has it, or one status has it.  While it has any it is stored, and nobody is
\* about to remove it but the handler that takes this role away first.
OneRole ==
  \A f \in made \ doubtful :
    /\ f \in handed =>
         /\ f \in stored
         /\ avatar # f
         /\ \A s \in Statuses : media[s] # f
         /\ \A r \in Requests : req[r].old # f /\ ~ Holds(r, f)
    /\ \A r \in Requests : Holds(r, f) =>
         /\ Private(f)
         /\ req[r].pc # "cleaning" => f \in stored
         /\ \A q \in Requests : Holds(q, f) => q = r
    /\ avatar = f =>
         /\ f \in stored
         /\ \A s \in Statuses : media[s] # f
         /\ \A r \in Requests :
              req[r].old = f => req[r].op = "avatar" /\ req[r].pc # "removing"
    /\ \A s \in Statuses : media[s] = f =>
         /\ f \in stored
         /\ \A z \in Statuses : media[z] = f => z = s
         /\ \A r \in Requests :
              req[r].old = f => req[r].pc = "deleting" /\ req[r].row = s

\* Whatever statements were not answered, the file of an attachment never leaves its
\* message: only the handler that uploaded it can remove it.
AttachmentsApart ==
  /\ \A r \in Requests :
       req[r].op = "attachment" /\ req[r].pc \in {"writing", "cleaning"} =>
         /\ Private(req[r].file)
         /\ req[r].pc = "writing" => req[r].file \in stored
         /\ \A q \in Requests : Holds(q, req[r].file) => q = r
  /\ \A m \in Messages : attachment[m] # None =>
       /\ Private(attachment[m])
       /\ \A r \in Requests : Holds(r, attachment[m]) =>
            req[r].op = "attachment" /\ req[r].row = m

\* LeaksHaveCauses, with the files that some handler will still name or remove in
\* the place of those that some handler remembers.
Traced ==
  \A f \in stored :
    \/ f \in Named \cup handed \cup excused
    \/ \E r \in Requests :
         Holds(r, f) \/ (req[r].pc = "removing" /\ req[r].old = f)

IInv ==
  /\ TypeOK /\ Shape /\ RowsAreNew /\ OneRole /\ AttachmentsApart /\ Traced
  /\ SentMessagesHaveFiles

-----------------------------------------------------------------------------
(* What handlers remember, and what the types say of keys.                 *)

LEMMA Moves ==
  ASSUME TypeOK, NEW r \in Requests, NEW pc, Go(r, pc)
  PROVE  \A q \in Requests :
           /\ q # r => req'[q] = req[q]
           /\ req'[q].op = req[q].op /\ req'[q].row = req[q].row
           /\ req'[q].file = req[q].file /\ req'[q].old = req[q].old
           /\ req'[r].pc = pc
BY DEF TypeOK, Go

LEMMA Ends ==
  ASSUME TypeOK, NEW r \in Requests, Answer(r)
  PROVE  /\ \A q \in Requests : q # r => req'[q] = req[q]
         /\ req'[r] = Idle
BY DEF TypeOK, Answer

LEMMA Keys ==
  ASSUME TypeOK
  PROVE  /\ None \notin made /\ Absent \notin made
         /\ stored \subseteq made /\ handed \subseteq made /\ made \subseteq Files
         /\ avatar \in made \cup {None}
         /\ \A s \in Statuses : media[s] \in made \cup {None, Absent}
         /\ \A m \in Messages : attachment[m] \in made \cup {None}
         /\ \A r \in Requests :
              /\ req[r].op \in {"none", "media", "status", "avatar", "attachment"}
              /\ req[r].file \in made \cup {None} /\ req[r].old \in made \cup {None}
              /\ req[r].pc \in {"returning", "writing", "naming", "cleaning"} =>
                   req[r].file # None
              /\ req[r].pc \in {"deleting", "removing"} => req[r].old # None
BY ConstantsAssumption DEF TypeOK

\* A key that was never made is nowhere.
LEMMA FreshKey ==
  ASSUME TypeOK, NEW f \in Files, f \notin made
  PROVE  /\ f \notin handed /\ avatar # f
         /\ \A s \in Statuses : media[s] # f
         /\ \A q \in Requests : req[q].file # f /\ req[q].old # f
<1>1. f # None /\ f # Absent
  BY ConstantsAssumption
<1> QED
  BY <1>1, Keys

\* The handler of an attachment keeps its message when something fails.
LEMMA FailingKeepsMessage ==
  ASSUME TypeOK, Shape, NEW r \in Requests, FailAfterUpload(r)
  PROVE  \A q \in Requests : req[q].row \in Messages => req'[q].row = req[q].row
<1>1. CASE req[r].op = "attachment"
  BY <1>1, Moves DEF FailAfterUpload
<1>2. CASE req[r].op # "attachment"
  <2>1. req[r].row \notin Messages
    BY <1>2, Keys, ConstantsAssumption DEF Shape, Idle
  <2> QED
    BY <1>2, <2>1, Ends DEF FailAfterUpload
<1> QED
  BY <1>1, <1>2

LEMMA TypeStep ==
  ASSUME TypeOK, [Next]_vars
  PROVE  TypeOK'
<1> USE ConstantsAssumption DEF TypeOK, store, rows, histories, Idle
<1>1. ASSUME NEW r \in Requests, BeginUploadMedia(r)
      PROVE  TypeOK'
  BY <1>1 DEF BeginUploadMedia, Begin, TypeOK
<1>2. ASSUME NEW r \in Requests, BeginAvatar(r)
      PROVE  TypeOK'
  BY <1>2 DEF BeginAvatar, Begin, TypeOK
<1>3. ASSUME NEW r \in Requests, NEW s \in Statuses, BeginStatusWithFile(r, s)
      PROVE  TypeOK'
  BY <1>3 DEF BeginStatusWithFile, Fresh, Begin, TypeOK
<1>4. ASSUME NEW r \in Requests, NEW s \in Statuses, NEW f \in Files,
             BeginStatusWithUrl(r, s, f)
      PROVE  TypeOK'
  BY <1>4 DEF BeginStatusWithUrl, Fresh, Public, Begin, TypeOK
<1>5. ASSUME NEW r \in Requests, NEW s \in Statuses, BeginDelete(r, s)
      PROVE  TypeOK'
  BY <1>5 DEF BeginDelete, Begin, TypeOK
<1>6. ASSUME NEW r \in Requests, NEW m \in Messages, BeginAttachment(r, m)
      PROVE  TypeOK'
  BY <1>6 DEF BeginAttachment, Begin, TypeOK
<1>7. ASSUME NEW r \in Requests, NEW f \in Files, Put(r, f)
      PROVE  TypeOK'
  BY <1>7 DEF Put, TypeOK
<1>8. ASSUME NEW r \in Requests, NEW f \in Files, PutUnanswered(r, f)
      PROVE  TypeOK'
  BY <1>8 DEF PutUnanswered, FailAfterUpload, Go, Answer, TypeOK
<1>9. ASSUME NEW r \in Requests, PutRefused(r)
      PROVE  TypeOK'
  BY <1>9 DEF PutRefused, FailAfterUpload, Go, Answer, TypeOK
<1>10. ASSUME NEW r \in Requests, DeleteFile(r)
       PROVE  TypeOK'
  BY <1>10 DEF DeleteFile, Victim, FailAfterUpload, Go, Answer, TypeOK
<1>11. ASSUME NEW r \in Requests, DeleteFileFails(r)
       PROVE  TypeOK'
  BY <1>11 DEF DeleteFileFails, Victim, FailAfterUpload, Go, Answer, TypeOK
<1>12. ASSUME NEW r \in Requests, Write(r)
       PROVE  TypeOK'
  <2>1. media' \in [Statuses -> made' \cup {None, Absent}]
    BY <1>12 DEF Write, Name, Overwritten, TypeOK
  <2>2. /\ avatar' \in made' \cup {None}
        /\ attachment' \in [Messages -> made' \cup {None}]
    BY <1>12 DEF Write, Name, Overwritten, TypeOK
  <2>3. doubtful' \cup excused' \subseteq made'
    BY <1>12 DEF Write, Name, Overwritten, TypeOK
  <2>4. req' \in [Requests ->
       [pc : {"idle", "uploading", "returning", "writing", "naming", "cleaning",
              "removing", "deleting", "erasing"},
        op : {"none", "media", "status", "avatar", "attachment"},
        row : Statuses \cup Messages \cup {None},
        file : made' \cup {None}, old : made' \cup {None}]]
    BY <1>12 DEF Write, Name, Overwritten, Go, Answer, TypeOK
  <2>5. message' \in [Messages -> {Absent, "sent", "deleted"}]
    BY <1>12 DEF Write, Name, Overwritten, TypeOK
  <2> QED
    BY <1>12, <2>1, <2>2, <2>3, <2>4, <2>5
           DEF Write, Name, Overwritten, Go, Answer, TypeOK
<1>13. ASSUME NEW r \in Requests, WriteFails(r)
       PROVE  TypeOK'
  BY <1>13 DEF WriteFails, Go, Answer, TypeOK
<1>14. ASSUME NEW r \in Requests, WriteUnanswered(r)
       PROVE  TypeOK'
  <2>1. media' \in [Statuses -> made' \cup {None, Absent}]
    BY <1>14 DEF WriteUnanswered, Name, TypeOK
  <2>2. /\ avatar' \in made' \cup {None}
        /\ attachment' \in [Messages -> made' \cup {None}]
    BY <1>14 DEF WriteUnanswered, Name, TypeOK
  <2>3. doubtful' \cup excused' \subseteq made'
    BY <1>14 DEF WriteUnanswered, Name, TypeOK
  <2>4. req' \in [Requests ->
       [pc : {"idle", "uploading", "returning", "writing", "naming", "cleaning",
              "removing", "deleting", "erasing"},
        op : {"none", "media", "status", "avatar", "attachment"},
        row : Statuses \cup Messages \cup {None},
        file : made' \cup {None}, old : made' \cup {None}]]
    BY <1>14 DEF WriteUnanswered, Name, Go, Answer, TypeOK
  <2>5. message' \in [Messages -> {Absent, "sent", "deleted"}]
    BY <1>14 DEF WriteUnanswered, Name, TypeOK
  <2> QED
    BY <1>14, <2>1, <2>2, <2>3, <2>4, <2>5
           DEF WriteUnanswered, Name, Go, Answer, TypeOK
<1>15. ASSUME NEW r \in Requests, DeleteRow(r)
       PROVE  TypeOK'
  BY <1>15 DEF DeleteRow, Go, Answer, TypeOK
<1>16. ASSUME NEW r \in Requests, EraseMessage(r)
       PROVE  TypeOK'
  BY <1>16 DEF EraseMessage, Answer, TypeOK
<1>17. ASSUME NEW r \in Requests, RequestDies(r)
       PROVE  TypeOK'
  BY <1>17 DEF RequestDies, Answer, TypeOK
<1>18. ASSUME NEW m \in Messages, DeleteMessage(m)
       PROVE  TypeOK'
  BY <1>18 DEF DeleteMessage, TypeOK
<1>19. ASSUME NEW r \in Requests, ReturnUrl(r) \/ RefusePart(r)
       PROVE  TypeOK'
  BY <1>19 DEF ReturnUrl, RefusePart, Answer, TypeOK
<1>20. CASE UNCHANGED vars
  BY <1>20 DEF vars
<1> HIDE DEF TypeOK
<1> QED
  BY <1>1, <1>2, <1>3, <1>4, <1>5, <1>6, <1>7, <1>8, <1>9, <1>10, <1>11, <1>12,
     <1>13, <1>14, <1>15, <1>16, <1>17, <1>18, <1>19, <1>20 DEF Next

LEMMA ShapeStep ==
  ASSUME TypeOK, Shape, [Next]_vars
  PROVE  Shape'
<1> USE ConstantsAssumption DEF Shape, store, rows, histories, Idle
<1>1. ASSUME NEW r \in Requests, BeginUploadMedia(r)
      PROVE  Shape'
  BY <1>1 DEF BeginUploadMedia, Begin, TypeOK
<1>2. ASSUME NEW r \in Requests, BeginAvatar(r)
      PROVE  Shape'
  BY <1>2 DEF BeginAvatar, Begin, TypeOK
<1>3. ASSUME NEW r \in Requests, NEW s \in Statuses, BeginStatusWithFile(r, s)
      PROVE  Shape'
  BY <1>3 DEF BeginStatusWithFile, Fresh, Begin, TypeOK
<1>4. ASSUME NEW r \in Requests, NEW s \in Statuses, NEW f \in Files,
             BeginStatusWithUrl(r, s, f)
      PROVE  Shape'
  BY <1>4 DEF BeginStatusWithUrl, Fresh, Public, Begin, TypeOK
<1>5. ASSUME NEW r \in Requests, NEW s \in Statuses, BeginDelete(r, s)
      PROVE  Shape'
  BY <1>5 DEF BeginDelete, Begin, TypeOK
<1>6. ASSUME NEW r \in Requests, NEW m \in Messages, BeginAttachment(r, m)
      PROVE  Shape'
  BY <1>6 DEF BeginAttachment, Begin, TypeOK
<1>7. ASSUME NEW r \in Requests, NEW f \in Files, Put(r, f)
      PROVE  Shape'
  BY <1>7 DEF Put, TypeOK
<1>8. ASSUME NEW r \in Requests, NEW f \in Files, PutUnanswered(r, f)
      PROVE  Shape'
  BY <1>8, Moves, Ends DEF PutUnanswered, FailAfterUpload, TypeOK
<1>9. ASSUME NEW r \in Requests, PutRefused(r)
      PROVE  Shape'
  BY <1>9, Moves, Ends DEF PutRefused, FailAfterUpload, TypeOK
<1>10. ASSUME NEW r \in Requests, DeleteFile(r)
       PROVE  Shape'
  BY <1>10, Moves, Ends DEF DeleteFile, Victim, FailAfterUpload, TypeOK
<1>11. ASSUME NEW r \in Requests, DeleteFileFails(r)
       PROVE  Shape'
  BY <1>11, Moves, Ends DEF DeleteFileFails, Victim, FailAfterUpload, TypeOK
<1>12. ASSUME NEW r \in Requests, Write(r)
       PROVE  Shape'
  BY <1>12, Moves, Ends DEF Write, Name, Overwritten, TypeOK
<1>13. ASSUME NEW r \in Requests, WriteFails(r)
       PROVE  Shape'
  BY <1>13, Moves, Ends DEF WriteFails, TypeOK
<1>14. ASSUME NEW r \in Requests, WriteUnanswered(r)
       PROVE  Shape'
  BY <1>14, Moves, Ends DEF WriteUnanswered, Name, TypeOK
<1>15. ASSUME NEW r \in Requests, DeleteRow(r)
       PROVE  Shape'
  BY <1>15, Moves, Ends DEF DeleteRow, TypeOK
<1>16. ASSUME NEW r \in Requests, EraseMessage(r)
       PROVE  Shape'
  BY <1>16, Ends DEF EraseMessage, TypeOK
<1>17. ASSUME NEW r \in Requests, RequestDies(r)
       PROVE  Shape'
  BY <1>17, Ends DEF RequestDies, TypeOK
<1>18. ASSUME NEW m \in Messages, DeleteMessage(m)
       PROVE  Shape'
  BY <1>18 DEF DeleteMessage, TypeOK
<1>19. ASSUME NEW r \in Requests, ReturnUrl(r) \/ RefusePart(r)
       PROVE  Shape'
  BY <1>19, Ends, Keys DEF ReturnUrl, RefusePart
<1>20. CASE UNCHANGED vars
  BY <1>20 DEF vars
<1> HIDE DEF Shape
<1> QED
  BY <1>1, <1>2, <1>3, <1>4, <1>5, <1>6, <1>7, <1>8, <1>9, <1>10, <1>11, <1>12,
     <1>13, <1>14, <1>15, <1>16, <1>17, <1>18, <1>19, <1>20 DEF Next

LEMMA RowsStep ==
  ASSUME TypeOK, Shape, RowsAreNew, [Next]_vars
  PROVE  RowsAreNew'
<1> USE ConstantsAssumption DEF Shape, RowsAreNew, Creating, store, rows,
     histories, Idle
<1>1. ASSUME NEW r \in Requests, BeginUploadMedia(r)
      PROVE  RowsAreNew'
  BY <1>1 DEF BeginUploadMedia, Begin, TypeOK
<1>2. ASSUME NEW r \in Requests, BeginAvatar(r)
      PROVE  RowsAreNew'
  BY <1>2 DEF BeginAvatar, Begin, TypeOK
<1>3. ASSUME NEW r \in Requests, NEW s \in Statuses, BeginStatusWithFile(r, s)
      PROVE  RowsAreNew'
  BY <1>3 DEF BeginStatusWithFile, Fresh, Begin, TypeOK
<1>4. ASSUME NEW r \in Requests, NEW s \in Statuses, NEW f \in Files,
             BeginStatusWithUrl(r, s, f)
      PROVE  RowsAreNew'
  BY <1>4 DEF BeginStatusWithUrl, Fresh, Public, Begin, TypeOK
<1>5. ASSUME NEW r \in Requests, NEW s \in Statuses, BeginDelete(r, s)
      PROVE  RowsAreNew'
  BY <1>5 DEF BeginDelete, Begin, TypeOK
<1>6. ASSUME NEW r \in Requests, NEW m \in Messages, BeginAttachment(r, m)
      PROVE  RowsAreNew'
  BY <1>6 DEF BeginAttachment, Begin, TypeOK
<1>7. ASSUME NEW r \in Requests, NEW f \in Files, Put(r, f)
      PROVE  RowsAreNew'
  BY <1>7 DEF Put, TypeOK
<1>8. ASSUME NEW r \in Requests, NEW f \in Files, PutUnanswered(r, f)
      PROVE  RowsAreNew'
  BY <1>8, Moves, Ends, Keys DEF PutUnanswered, FailAfterUpload
<1>9. ASSUME NEW r \in Requests, PutRefused(r)
      PROVE  RowsAreNew'
  BY <1>9, Moves, Ends, Keys DEF PutRefused, FailAfterUpload
<1>10. ASSUME NEW r \in Requests, DeleteFile(r)
       PROVE  RowsAreNew'
  BY <1>10, Moves, Ends, Keys DEF DeleteFile, Victim, FailAfterUpload
<1>11. ASSUME NEW r \in Requests, DeleteFileFails(r)
       PROVE  RowsAreNew'
  BY <1>11, Moves, Ends, Keys DEF DeleteFileFails, Victim, FailAfterUpload
<1>12. ASSUME NEW r \in Requests, Write(r)
       PROVE  RowsAreNew'
  BY <1>12, Moves, Ends DEF Write, Name, Overwritten, TypeOK
<1>13. ASSUME NEW r \in Requests, WriteFails(r)
       PROVE  RowsAreNew'
  BY <1>13, Moves, Ends, Keys DEF WriteFails
<1>14. ASSUME NEW r \in Requests, WriteUnanswered(r)
       PROVE  RowsAreNew'
  BY <1>14, Moves, Ends DEF WriteUnanswered, Name, TypeOK
<1>15. ASSUME NEW r \in Requests, DeleteRow(r)
       PROVE  RowsAreNew'
  BY <1>15, Moves, Ends DEF DeleteRow, TypeOK
<1>16. ASSUME NEW r \in Requests, EraseMessage(r)
       PROVE  RowsAreNew'
  BY <1>16, Ends DEF EraseMessage, TypeOK
<1>17. ASSUME NEW r \in Requests, RequestDies(r)
       PROVE  RowsAreNew'
  BY <1>17, Ends, Keys DEF RequestDies
<1>18. ASSUME NEW m \in Messages, DeleteMessage(m)
       PROVE  RowsAreNew'
  BY <1>18 DEF DeleteMessage, TypeOK
<1>19. ASSUME NEW r \in Requests, ReturnUrl(r) \/ RefusePart(r)
       PROVE  RowsAreNew'
  BY <1>19, Ends, Keys DEF ReturnUrl, RefusePart
<1>20. CASE UNCHANGED vars
  BY <1>20 DEF vars
<1> HIDE DEF RowsAreNew, Shape
<1> QED
  BY <1>1, <1>2, <1>3, <1>4, <1>5, <1>6, <1>7, <1>8, <1>9, <1>10, <1>11, <1>12,
     <1>13, <1>14, <1>15, <1>16, <1>17, <1>18, <1>19, <1>20 DEF Next

LEMMA RoleStep ==
  ASSUME TypeOK, Shape, RowsAreNew, OneRole, [Next]_vars
  PROVE  OneRole'
<1> USE ConstantsAssumption DEF Shape, RowsAreNew, Creating, OneRole, Holds,
     Private, store, rows, histories, Idle
<1>1. ASSUME NEW r \in Requests, BeginUploadMedia(r)
      PROVE  OneRole'
  BY <1>1 DEF BeginUploadMedia, Begin, TypeOK
<1>2. ASSUME NEW r \in Requests, BeginAvatar(r)
      PROVE  OneRole'
  BY <1>2 DEF BeginAvatar, Begin, TypeOK
<1>3. ASSUME NEW r \in Requests, NEW s \in Statuses, BeginStatusWithFile(r, s)
      PROVE  OneRole'
  BY <1>3 DEF BeginStatusWithFile, Fresh, Begin, TypeOK
<1>4. ASSUME NEW r \in Requests, NEW s \in Statuses, NEW f \in Files,
             BeginStatusWithUrl(r, s, f)
      PROVE  OneRole'
  BY <1>4 DEF BeginStatusWithUrl, Fresh, Public, Begin, TypeOK
<1>5. ASSUME NEW r \in Requests, NEW s \in Statuses, BeginDelete(r, s)
      PROVE  OneRole'
  BY <1>5 DEF BeginDelete, Begin, TypeOK
<1>6. ASSUME NEW r \in Requests, NEW m \in Messages, BeginAttachment(r, m)
      PROVE  OneRole'
  BY <1>6 DEF BeginAttachment, Begin, TypeOK
<1>7. ASSUME NEW r \in Requests, NEW f \in Files, Put(r, f)
      PROVE  OneRole'
  BY <1>7 DEF Put, TypeOK
<1>8. ASSUME NEW r \in Requests, NEW f \in Files, PutUnanswered(r, f)
      PROVE  OneRole'
  <2>1. \A q \in Requests :
          \/ req'[q] = req[q]
          \/ req'[q].pc \in {"idle", "erasing"} /\ req'[q].old = None
    BY <1>8, Moves, Ends DEF PutUnanswered, FailAfterUpload
  <2>2. /\ f \notin handed /\ avatar # f
        /\ \A s \in Statuses : media[s] # f
        /\ \A q \in Requests : req[q].file # f /\ req[q].old # f
    BY <1>8, FreshKey DEF PutUnanswered
  <2> QED
    BY <1>8, <2>1, <2>2, Keys DEF PutUnanswered
<1>9. ASSUME NEW r \in Requests, PutRefused(r)
      PROVE  OneRole'
  BY <1>9, Moves, Ends, Keys DEF PutRefused, FailAfterUpload
<1>10. ASSUME NEW r \in Requests, DeleteFile(r)
       PROVE  OneRole'
  BY <1>10, Moves, Ends, Keys DEF DeleteFile, Victim, FailAfterUpload
<1>11. ASSUME NEW r \in Requests, DeleteFileFails(r)
       PROVE  OneRole'
  BY <1>11, Moves, Ends, Keys DEF DeleteFileFails, Victim, FailAfterUpload
<1>12. ASSUME NEW r \in Requests, Write(r)
       PROVE  OneRole'
  BY <1>12, Moves, Ends DEF Write, Name, Overwritten, TypeOK
<1>13. ASSUME NEW r \in Requests, WriteFails(r)
       PROVE  OneRole'
  BY <1>13, Moves, Ends, Keys DEF WriteFails
<1>14. ASSUME NEW r \in Requests, WriteUnanswered(r)
       PROVE  OneRole'
  BY <1>14, Moves, Ends DEF WriteUnanswered, Name, TypeOK
<1>15. ASSUME NEW r \in Requests, DeleteRow(r)
       PROVE  OneRole'
  BY <1>15, Moves, Ends DEF DeleteRow, TypeOK
<1>16. ASSUME NEW r \in Requests, EraseMessage(r)
       PROVE  OneRole'
  BY <1>16, Ends, Keys DEF EraseMessage
<1>17. ASSUME NEW r \in Requests, RequestDies(r)
       PROVE  OneRole'
  BY <1>17, Ends, Keys DEF RequestDies
<1>18. ASSUME NEW m \in Messages, DeleteMessage(m)
       PROVE  OneRole'
  BY <1>18, Keys DEF DeleteMessage
<1>19. ASSUME NEW r \in Requests, ReturnUrl(r) \/ RefusePart(r)
       PROVE  OneRole'
  BY <1>19, Ends, Keys DEF ReturnUrl, RefusePart
<1>20. CASE UNCHANGED vars
  BY <1>20 DEF vars
<1> HIDE DEF OneRole, RowsAreNew, Shape
<1> QED
  BY <1>1, <1>2, <1>3, <1>4, <1>5, <1>6, <1>7, <1>8, <1>9, <1>10, <1>11, <1>12,
     <1>13, <1>14, <1>15, <1>16, <1>17, <1>18, <1>19, <1>20 DEF Next

LEMMA ApartStep ==
  ASSUME TypeOK, Shape, RowsAreNew, AttachmentsApart, [Next]_vars
  PROVE  AttachmentsApart'
<1> USE ConstantsAssumption DEF Shape, RowsAreNew, Creating, AttachmentsApart,
     Holds, Private, store, rows, histories, Idle
<1>1. ASSUME NEW r \in Requests, BeginUploadMedia(r)
      PROVE  AttachmentsApart'
  BY <1>1 DEF BeginUploadMedia, Begin, TypeOK
<1>2. ASSUME NEW r \in Requests, BeginAvatar(r)
      PROVE  AttachmentsApart'
  BY <1>2 DEF BeginAvatar, Begin, TypeOK
<1>3. ASSUME NEW r \in Requests, NEW s \in Statuses, BeginStatusWithFile(r, s)
      PROVE  AttachmentsApart'
  BY <1>3 DEF BeginStatusWithFile, Fresh, Begin, TypeOK
<1>4. ASSUME NEW r \in Requests, NEW s \in Statuses, NEW f \in Files,
             BeginStatusWithUrl(r, s, f)
      PROVE  AttachmentsApart'
  BY <1>4 DEF BeginStatusWithUrl, Fresh, Public, Begin, TypeOK
<1>5. ASSUME NEW r \in Requests, NEW s \in Statuses, BeginDelete(r, s)
      PROVE  AttachmentsApart'
  BY <1>5 DEF BeginDelete, Begin, TypeOK
<1>6. ASSUME NEW r \in Requests, NEW m \in Messages, BeginAttachment(r, m)
      PROVE  AttachmentsApart'
  BY <1>6 DEF BeginAttachment, Begin, TypeOK
<1>7. ASSUME NEW r \in Requests, NEW f \in Files, Put(r, f)
      PROVE  AttachmentsApart'
  BY <1>7 DEF Put, TypeOK
<1>8. ASSUME NEW r \in Requests, NEW f \in Files, PutUnanswered(r, f)
      PROVE  AttachmentsApart'
  BY <1>8, Moves, Ends, Keys DEF PutUnanswered, FailAfterUpload
<1>9. ASSUME NEW r \in Requests, PutRefused(r)
      PROVE  AttachmentsApart'
  BY <1>9, Moves, Ends, Keys DEF PutRefused, FailAfterUpload
<1>10. ASSUME NEW r \in Requests, DeleteFile(r)
       PROVE  AttachmentsApart'
  BY <1>10, Moves, Ends, Keys DEF DeleteFile, Victim, FailAfterUpload
<1>11. ASSUME NEW r \in Requests, DeleteFileFails(r)
       PROVE  AttachmentsApart'
  BY <1>11, Moves, Ends, Keys DEF DeleteFileFails, Victim, FailAfterUpload
<1>12. ASSUME NEW r \in Requests, Write(r)
       PROVE  AttachmentsApart'
  BY <1>12, Moves, Ends DEF Write, Name, Overwritten, TypeOK
<1>13. ASSUME NEW r \in Requests, WriteFails(r)
       PROVE  AttachmentsApart'
  BY <1>13, Moves, Ends, Keys DEF WriteFails
<1>14. ASSUME NEW r \in Requests, WriteUnanswered(r)
       PROVE  AttachmentsApart'
  BY <1>14, Moves, Ends DEF WriteUnanswered, Name, TypeOK
<1>15. ASSUME NEW r \in Requests, DeleteRow(r)
       PROVE  AttachmentsApart'
  BY <1>15, Moves, Ends DEF DeleteRow, TypeOK
<1>16. ASSUME NEW r \in Requests, EraseMessage(r)
       PROVE  AttachmentsApart'
  BY <1>16, Ends DEF EraseMessage, TypeOK
<1>17. ASSUME NEW r \in Requests, RequestDies(r)
       PROVE  AttachmentsApart'
  BY <1>17, Ends, Keys DEF RequestDies
<1>18. ASSUME NEW m \in Messages, DeleteMessage(m)
       PROVE  AttachmentsApart'
  BY <1>18, Keys DEF DeleteMessage
<1>19. ASSUME NEW r \in Requests, ReturnUrl(r) \/ RefusePart(r)
       PROVE  AttachmentsApart'
  BY <1>19, Ends, Keys DEF ReturnUrl, RefusePart
<1>20. CASE UNCHANGED vars
  BY <1>20 DEF vars
<1> HIDE DEF AttachmentsApart, RowsAreNew, Shape
<1> QED
  BY <1>1, <1>2, <1>3, <1>4, <1>5, <1>6, <1>7, <1>8, <1>9, <1>10, <1>11, <1>12,
     <1>13, <1>14, <1>15, <1>16, <1>17, <1>18, <1>19, <1>20 DEF Next

LEMMA SentStep ==
  ASSUME TypeOK, Shape, RowsAreNew, AttachmentsApart, SentMessagesHaveFiles, [Next]_vars
  PROVE  SentMessagesHaveFiles'
<1> USE ConstantsAssumption DEF Shape, RowsAreNew, Creating, AttachmentsApart,
     Private, Working, Downloadable, SentMessagesHaveFiles, Holds, store, rows,
     histories, Idle
<1>1. ASSUME NEW r \in Requests, BeginUploadMedia(r)
      PROVE  SentMessagesHaveFiles'
  BY <1>1 DEF BeginUploadMedia, Begin, TypeOK
<1>2. ASSUME NEW r \in Requests, BeginAvatar(r)
      PROVE  SentMessagesHaveFiles'
  BY <1>2 DEF BeginAvatar, Begin, TypeOK
<1>3. ASSUME NEW r \in Requests, NEW s \in Statuses, BeginStatusWithFile(r, s)
      PROVE  SentMessagesHaveFiles'
  BY <1>3 DEF BeginStatusWithFile, Fresh, Begin, TypeOK
<1>4. ASSUME NEW r \in Requests, NEW s \in Statuses, NEW f \in Files,
             BeginStatusWithUrl(r, s, f)
      PROVE  SentMessagesHaveFiles'
  BY <1>4 DEF BeginStatusWithUrl, Fresh, Public, Begin, TypeOK
<1>5. ASSUME NEW r \in Requests, NEW s \in Statuses, BeginDelete(r, s)
      PROVE  SentMessagesHaveFiles'
  BY <1>5 DEF BeginDelete, Begin, TypeOK
<1>6. ASSUME NEW r \in Requests, NEW m \in Messages, BeginAttachment(r, m)
      PROVE  SentMessagesHaveFiles'
  BY <1>6 DEF BeginAttachment, Begin, TypeOK
<1>7. ASSUME NEW r \in Requests, NEW f \in Files, Put(r, f)
      PROVE  SentMessagesHaveFiles'
  BY <1>7 DEF Put, TypeOK
<1>8. ASSUME NEW r \in Requests, NEW f \in Files, PutUnanswered(r, f)
      PROVE  SentMessagesHaveFiles'
  <2>1. \A q \in Requests : req[q].row \in Messages => req'[q].row = req[q].row
    BY <1>8, FailingKeepsMessage DEF PutUnanswered
  <2> QED
    BY <1>8, <2>1, Keys DEF PutUnanswered, FailAfterUpload
<1>9. ASSUME NEW r \in Requests, PutRefused(r)
      PROVE  SentMessagesHaveFiles'
  <2>1. \A q \in Requests : req[q].row \in Messages => req'[q].row = req[q].row
    BY <1>9, FailingKeepsMessage DEF PutRefused
  <2> QED
    BY <1>9, <2>1, Keys DEF PutRefused, FailAfterUpload
<1>10. ASSUME NEW r \in Requests, DeleteFile(r)
       PROVE  SentMessagesHaveFiles'
  <2>1. \A q \in Requests : req[q].row \in Messages => req'[q].row = req[q].row
    BY <1>10, FailingKeepsMessage DEF DeleteFile
  <2> QED
    BY <1>10, <2>1, Keys DEF DeleteFile, Victim, FailAfterUpload
<1>11. ASSUME NEW r \in Requests, DeleteFileFails(r)
       PROVE  SentMessagesHaveFiles'
  <2>1. \A q \in Requests : req[q].row \in Messages => req'[q].row = req[q].row
    BY <1>11, FailingKeepsMessage DEF DeleteFileFails
  <2> QED
    BY <1>11, <2>1, Keys DEF DeleteFileFails, Victim, FailAfterUpload
<1>12. ASSUME NEW r \in Requests, Write(r)
       PROVE  SentMessagesHaveFiles'
  BY <1>12, Moves, Ends DEF Write, Name, Overwritten, TypeOK
<1>13. ASSUME NEW r \in Requests, WriteFails(r)
       PROVE  SentMessagesHaveFiles'
  BY <1>13, Moves, Ends, Keys DEF WriteFails
<1>14. ASSUME NEW r \in Requests, WriteUnanswered(r)
       PROVE  SentMessagesHaveFiles'
  BY <1>14, Moves, Ends DEF WriteUnanswered, Name, TypeOK
<1>15. ASSUME NEW r \in Requests, DeleteRow(r)
       PROVE  SentMessagesHaveFiles'
  BY <1>15, Moves, Ends DEF DeleteRow, TypeOK
<1>16. ASSUME NEW r \in Requests, EraseMessage(r)
       PROVE  SentMessagesHaveFiles'
  BY <1>16, Ends DEF EraseMessage, TypeOK
<1>17. ASSUME NEW r \in Requests, RequestDies(r)
       PROVE  SentMessagesHaveFiles'
  BY <1>17, Ends, Keys DEF RequestDies
<1>18. ASSUME NEW m \in Messages, DeleteMessage(m)
       PROVE  SentMessagesHaveFiles'
  BY <1>18, Keys DEF DeleteMessage
<1>19. ASSUME NEW r \in Requests, ReturnUrl(r) \/ RefusePart(r)
       PROVE  SentMessagesHaveFiles'
  BY <1>19, Ends, Keys DEF ReturnUrl, RefusePart
<1>20. CASE UNCHANGED vars
  BY <1>20 DEF vars
<1> HIDE DEF SentMessagesHaveFiles, AttachmentsApart, Shape, RowsAreNew
<1> QED
  BY <1>1, <1>2, <1>3, <1>4, <1>5, <1>6, <1>7, <1>8, <1>9, <1>10, <1>11, <1>12,
     <1>13, <1>14, <1>15, <1>16, <1>17, <1>18, <1>19, <1>20 DEF Next

LEMMA TracedStep ==
  ASSUME TypeOK, Shape, RowsAreNew, Traced, [Next]_vars
  PROVE  Traced'
<1> USE ConstantsAssumption DEF Shape, RowsAreNew, Creating, Named, Traced,
     Holds, store, rows, histories, Idle
<1>1. ASSUME NEW r \in Requests, BeginUploadMedia(r)
      PROVE  Traced'
  BY <1>1 DEF BeginUploadMedia, Begin, TypeOK
<1>2. ASSUME NEW r \in Requests, BeginAvatar(r)
      PROVE  Traced'
  BY <1>2 DEF BeginAvatar, Begin, TypeOK
<1>3. ASSUME NEW r \in Requests, NEW s \in Statuses, BeginStatusWithFile(r, s)
      PROVE  Traced'
  BY <1>3 DEF BeginStatusWithFile, Fresh, Begin, TypeOK
<1>4. ASSUME NEW r \in Requests, NEW s \in Statuses, NEW f \in Files,
             BeginStatusWithUrl(r, s, f)
      PROVE  Traced'
  BY <1>4 DEF BeginStatusWithUrl, Fresh, Public, Begin, TypeOK
<1>5. ASSUME NEW r \in Requests, NEW s \in Statuses, BeginDelete(r, s)
      PROVE  Traced'
  BY <1>5 DEF BeginDelete, Begin, TypeOK
<1>6. ASSUME NEW r \in Requests, NEW m \in Messages, BeginAttachment(r, m)
      PROVE  Traced'
  BY <1>6 DEF BeginAttachment, Begin, TypeOK
<1>7. ASSUME NEW r \in Requests, NEW f \in Files, Put(r, f)
      PROVE  Traced'
  BY <1>7 DEF Put, TypeOK
<1>8. ASSUME NEW r \in Requests, NEW f \in Files, PutUnanswered(r, f)
      PROVE  Traced'
  BY <1>8, Moves, Ends, Keys DEF PutUnanswered, FailAfterUpload
<1>9. ASSUME NEW r \in Requests, PutRefused(r)
      PROVE  Traced'
  BY <1>9, Moves, Ends, Keys DEF PutRefused, FailAfterUpload
<1>10. ASSUME NEW r \in Requests, DeleteFile(r)
       PROVE  Traced'
  BY <1>10, Moves, Ends, Keys DEF DeleteFile, Victim, FailAfterUpload
<1>11. ASSUME NEW r \in Requests, DeleteFileFails(r)
       PROVE  Traced'
  BY <1>11, Moves, Ends, Keys DEF DeleteFileFails, Victim, FailAfterUpload
<1>12. ASSUME NEW r \in Requests, Write(r)
       PROVE  Traced'
  BY <1>12, Moves, Ends DEF Write, Name, Overwritten, TypeOK
<1>13. ASSUME NEW r \in Requests, WriteFails(r)
       PROVE  Traced'
  BY <1>13, Moves, Ends, Keys DEF WriteFails
<1>14. ASSUME NEW r \in Requests, WriteUnanswered(r)
       PROVE  Traced'
  BY <1>14, Moves, Ends DEF WriteUnanswered, Name, TypeOK
<1>15. ASSUME NEW r \in Requests, DeleteRow(r)
       PROVE  Traced'
  BY <1>15, Moves, Ends DEF DeleteRow, TypeOK
<1>16. ASSUME NEW r \in Requests, EraseMessage(r)
       PROVE  Traced'
  BY <1>16, Ends, Keys DEF EraseMessage
<1>17. ASSUME NEW r \in Requests, RequestDies(r)
       PROVE  Traced'
  BY <1>17, Ends, Keys DEF RequestDies
<1>18. ASSUME NEW m \in Messages, DeleteMessage(m)
       PROVE  Traced'
  BY <1>18, Keys DEF DeleteMessage
<1>19. ASSUME NEW r \in Requests, ReturnUrl(r) \/ RefusePart(r)
       PROVE  Traced'
  BY <1>19, Ends, Keys DEF ReturnUrl, RefusePart
<1>20. CASE UNCHANGED vars
  BY <1>20 DEF vars
<1> HIDE DEF Traced, Shape, RowsAreNew
<1> QED
  BY <1>1, <1>2, <1>3, <1>4, <1>5, <1>6, <1>7, <1>8, <1>9, <1>10, <1>11, <1>12,
     <1>13, <1>14, <1>15, <1>16, <1>17, <1>18, <1>19, <1>20 DEF Next

-----------------------------------------------------------------------------
(* Theorems.                                                               *)

LEMMA IInvInit == Init => IInv
<1> SUFFICES ASSUME Init PROVE IInv
  OBVIOUS
<1> USE ConstantsAssumption DEF Init, Idle
<1>1. TypeOK
  BY DEF TypeOK
<1>2. Shape /\ RowsAreNew
  BY DEF Shape, RowsAreNew, Creating
<1>3. OneRole /\ AttachmentsApart /\ Traced /\ SentMessagesHaveFiles
  BY DEF OneRole, AttachmentsApart, Traced, SentMessagesHaveFiles, Holds
<1> QED
  BY <1>1, <1>2, <1>3 DEF IInv

LEMMA IInvStep == IInv /\ [Next]_vars => IInv'
BY TypeStep, ShapeStep, RowsStep, RoleStep, ApartStep, SentStep, TracedStep
   DEF IInv

LEMMA IInvHolds == Spec => []IInv
BY IInvInit, IInvStep, PTL DEF Spec

\* The media of a status and the avatar of a user are stored, however handlers
\* overlap and fail, unless a URL was given twice or a statement was not answered
\* (statuses.service.ts:46-62, 87-92; update-profile.service.ts:103-150).
THEOREM NamedFilesStayStored == Spec => []NamedFilesAreStored
<1>1. IInv => NamedFilesAreStored
  <2> SUFFICES ASSUME IInv PROVE NamedFilesAreStored
    OBVIOUS
  <2>1. \A f \in made \ doubtful :
          (avatar = f \/ \E s \in Statuses : media[s] = f) => f \in stored
    BY DEF IInv, OneRole
  <2> QED
    BY <2>1, Keys, ConstantsAssumption DEF IInv, TypeOK, NamedFilesAreStored
<1> QED
  BY <1>1, IInvHolds, PTL

\* A message that stands there with nobody at work on it has its file, unless its
\* handler died or could not delete it (chat.service.ts:544-586).
THEOREM SentMessagesCanBeRead == Spec => []SentMessagesHaveFiles
<1>1. IInv => SentMessagesHaveFiles
  BY DEF IInv
<1> QED
  BY <1>1, IInvHolds, PTL

\* A file nothing names, nobody holds and nobody waits for was left by a failure
\* of the store or the database, by a handler that died, by two new avatars that
\* overlapped, or by an upload whose request was refused after the file was stored
\* (update-profile.service.ts:129-150; storage.service.ts:247-264;
\* statuses.controller.ts:42-58).
THEOREM EveryLeakHasACause == Spec => []LeaksHaveCauses
<1>1. IInv => LeaksHaveCauses
  BY DEF IInv, Traced, Holds, LeaksHaveCauses, Held
<1> QED
  BY <1>1, IInvHolds, PTL

-----------------------------------------------------------------------------
(* EventLifecycle: the cover of an event, and its status.                   *)

\* What a handler remembers, by what it does and how far it is.
EditShape ==
  \A r \in Handlers :
    /\ edit[r].pc = "idle" => edit[r] = NoEdit
    /\ edit[r].pc = "counting" => edit[r].op = "get" /\ edit[r].file = Null
    /\ edit[r].pc \in {"uploading", "removing"} => edit[r].file = Null
    /\ edit[r].pc = "cleaning" => edit[r].file # Null
    /\ edit[r].pc = "deleting" => edit[r].cover # Null
    /\ edit[r].pc \in {"uploading", "writing"} => edit[r].status # Null
    /\ edit[r].op \in {Null, "get"} => edit[r].pc \in {"idle", "counting"}

\* The row is as r read it.
RowUnchanged(r) ==
  Exists /\ edit[r].status = status /\ edit[r].cover = cover

\* What the one handler that writes has in the store beside the cover of the event:
\* nothing until its upload, then its own file until that is the cover or removed,
\* and the cover it has replaced until that is removed.
StoreOf(r) ==
  /\ edit[r].pc \in {"uploading", "removing"} =>
       RowUnchanged(r) /\ storedCovers \subseteq {cover}
  /\ edit[r].pc = "writing" =>
       /\ RowUnchanged(r)
       /\ storedCovers \subseteq {cover, edit[r].file}
       /\ edit[r].file # Null => edit[r].file \in storedCovers /\ edit[r].file # cover
  /\ edit[r].pc = "cleaning" =>
       storedCovers \subseteq {cover, edit[r].file} /\ edit[r].file # cover
  /\ edit[r].pc = "deleting" =>
       storedCovers \subseteq {cover, edit[r].cover} /\ edit[r].cover # cover

CalmSound ==
  calm =>
    /\ cover # Null => cover \in storedCovers
    /\ Writing = {} => storedCovers \subseteq {cover}
    /\ \A r, q \in Writing : r = q
    /\ \A r \in Writing : StoreOf(r)

EventIInv == EventTypeOK /\ EditShape /\ CalmSound

LEMMA EventTypeStep ==
  ASSUME EventTypeOK, EditShape, [EventNext]_eventVars
  PROVE  EventTypeOK'
<1> USE EventAssumption DEF EventTypeOK, EditShape, Exists, EventStatus, row, NoEdit
<1>1. ASSUME NEW r \in Handlers, NEW s \in EventStatus, CreateWithoutFile(r, s)
      PROVE  EventTypeOK'
  BY <1>1 DEF CreateWithoutFile
<1>2. ASSUME NEW r \in Handlers, NEW s \in EventStatus, CreateWithFile(r, s)
      PROVE  EventTypeOK'
  BY <1>2 DEF CreateWithFile, BeginEdit
<1>3. ASSUME NEW r \in Handlers, NEW to \in EventStatus \cup {Null},
             NEW withFile \in BOOLEAN, BeginUpdate(r, to, withFile)
      PROVE  EventTypeOK'
  BY <1>3 DEF BeginUpdate, BeginEdit
<1>4. ASSUME NEW r \in Handlers, NEW o \in CoverKeys, Upload(r, o)
      PROVE  EventTypeOK'
  BY <1>4 DEF Upload
<1>5. ASSUME NEW r \in Handlers, UploadFails(r)
      PROVE  EventTypeOK'
  BY <1>5 DEF UploadFails, EndEdit
<1>6. ASSUME NEW r \in Handlers, WriteRow(r)
      PROVE  EventTypeOK'
  <2>1. /\ status' \in EventStatus
        /\ cover' \in coversMade' \cup {Null}
    BY <1>6 DEF WriteRow, Applies, NextStatus, NextCover, Proceed, EndEdit
  <2>2. edit' \in [Handlers ->
          [pc : {"idle", "uploading", "writing", "cleaning", "removing", "deleting",
                 "counting"},
           op : {"create", "update", "delete", "get", Null},
           status : EventStatus \cup {Null}, cover : coversMade' \cup {Null},
           to : EventStatus \cup {Null}, file : coversMade' \cup {Null}]]
    BY <1>6 DEF WriteRow, Applies, NextStatus, NextCover, Proceed, EndEdit
  <2> QED
    BY <1>6, <2>1, <2>2 DEF WriteRow, Applies, NextStatus, NextCover, Proceed, EndEdit
<1>7. ASSUME NEW r \in Handlers, WriteRowFails(r)
      PROVE  EventTypeOK'
  BY <1>7 DEF WriteRowFails, Proceed, EndEdit
<1>8. ASSUME NEW r \in Handlers, WriteRowUnanswered(r)
      PROVE  EventTypeOK'
  <2>1. /\ status' \in EventStatus
        /\ cover' \in coversMade' \cup {Null}
    BY <1>8 DEF WriteRowUnanswered, Applies, NextStatus, NextCover, Proceed, EndEdit
  <2>2. edit' \in [Handlers ->
          [pc : {"idle", "uploading", "writing", "cleaning", "removing", "deleting",
                 "counting"},
           op : {"create", "update", "delete", "get", Null},
           status : EventStatus \cup {Null}, cover : coversMade' \cup {Null},
           to : EventStatus \cup {Null}, file : coversMade' \cup {Null}]]
    BY <1>8 DEF WriteRowUnanswered, Applies, NextStatus, NextCover, Proceed, EndEdit
  <2> QED
    BY <1>8, <2>1, <2>2 DEF WriteRowUnanswered, Applies, NextStatus, NextCover,
       Proceed, EndEdit
<1>9. ASSUME NEW r \in Handlers, Clean(r)
      PROVE  EventTypeOK'
  BY <1>9 DEF Clean, EndEdit
<1>10. ASSUME NEW r \in Handlers, BeginRemoval(r)
       PROVE  EventTypeOK'
  BY <1>10 DEF BeginRemoval, BeginEdit
<1>11. ASSUME NEW r \in Handlers, Remove(r)
       PROVE  EventTypeOK'
  BY <1>11 DEF Remove, Proceed, EndEdit
<1>12. ASSUME NEW r \in Handlers, DeleteCover(r)
       PROVE  EventTypeOK'
  BY <1>12 DEF DeleteCover, EndEdit
<1>13. ASSUME NEW r \in Handlers, GetEvent(r)
       PROVE  EventTypeOK'
  BY <1>13 DEF GetEvent
<1>14. ASSUME NEW r \in Handlers, IncrementViews(r)
       PROVE  EventTypeOK'
  BY <1>14 DEF IncrementViews, EndEdit
<1>15. ASSUME NEW r \in Handlers, HandlerDies(r)
       PROVE  EventTypeOK'
  BY <1>15 DEF HandlerDies, EndEdit
<1>16. CASE UNCHANGED eventVars
  BY <1>16 DEF eventVars
<1> HIDE DEF EventTypeOK, EditShape
<1> QED
  BY <1>1, <1>2, <1>3, <1>4, <1>5, <1>6, <1>7, <1>8, <1>9, <1>10, <1>11, <1>12,
     <1>13, <1>14, <1>15, <1>16 DEF EventNext, Create, Update

LEMMA EditShapeStep ==
  ASSUME EventTypeOK, EditShape, [EventNext]_eventVars
  PROVE  EditShape'
<1> USE EventAssumption DEF EventTypeOK, EditShape, Exists, EventStatus, row, NoEdit
<1>1. ASSUME NEW r \in Handlers, NEW s \in EventStatus, CreateWithoutFile(r, s)
      PROVE  EditShape'
  BY <1>1 DEF CreateWithoutFile
<1>2. ASSUME NEW r \in Handlers, NEW s \in EventStatus, CreateWithFile(r, s)
      PROVE  EditShape'
  BY <1>2 DEF CreateWithFile, BeginEdit
<1>3. ASSUME NEW r \in Handlers, NEW to \in EventStatus \cup {Null},
             NEW withFile \in BOOLEAN, BeginUpdate(r, to, withFile)
      PROVE  EditShape'
  BY <1>3 DEF BeginUpdate, BeginEdit
<1>4. ASSUME NEW r \in Handlers, NEW o \in CoverKeys, Upload(r, o)
      PROVE  EditShape'
  BY <1>4 DEF Upload
<1>5. ASSUME NEW r \in Handlers, UploadFails(r)
      PROVE  EditShape'
  BY <1>5 DEF UploadFails, EndEdit
<1>6. ASSUME NEW r \in Handlers, WriteRow(r)
      PROVE  EditShape'
  BY <1>6 DEF WriteRow, Applies, NextStatus, NextCover, Proceed, EndEdit
<1>7. ASSUME NEW r \in Handlers, WriteRowFails(r)
      PROVE  EditShape'
  BY <1>7 DEF WriteRowFails, Proceed, EndEdit
<1>8. ASSUME NEW r \in Handlers, WriteRowUnanswered(r)
      PROVE  EditShape'
  BY <1>8 DEF WriteRowUnanswered, Applies, NextStatus, NextCover, Proceed, EndEdit
<1>9. ASSUME NEW r \in Handlers, Clean(r)
      PROVE  EditShape'
  BY <1>9 DEF Clean, EndEdit
<1>10. ASSUME NEW r \in Handlers, BeginRemoval(r)
       PROVE  EditShape'
  BY <1>10 DEF BeginRemoval, BeginEdit
<1>11. ASSUME NEW r \in Handlers, Remove(r)
       PROVE  EditShape'
  BY <1>11 DEF Remove, Proceed, EndEdit
<1>12. ASSUME NEW r \in Handlers, DeleteCover(r)
       PROVE  EditShape'
  BY <1>12 DEF DeleteCover, EndEdit
<1>13. ASSUME NEW r \in Handlers, GetEvent(r)
       PROVE  EditShape'
  BY <1>13 DEF GetEvent
<1>14. ASSUME NEW r \in Handlers, IncrementViews(r)
       PROVE  EditShape'
  BY <1>14 DEF IncrementViews, EndEdit
<1>15. ASSUME NEW r \in Handlers, HandlerDies(r)
       PROVE  EditShape'
  BY <1>15 DEF HandlerDies, EndEdit
<1>16. CASE UNCHANGED eventVars
  BY <1>16 DEF eventVars
<1> HIDE DEF EventTypeOK, EditShape
<1> QED
  BY <1>1, <1>2, <1>3, <1>4, <1>5, <1>6, <1>7, <1>8, <1>9, <1>10, <1>11, <1>12,
     <1>13, <1>14, <1>15, <1>16 DEF EventNext, Create, Update

\* A handler that starts to write while no other does finds the row as it read it,
\* and no file but the cover in the store.
LEMMA CalmBegin ==
  ASSUME EventTypeOK, CalmSound,
         NEW r \in Handlers, NEW pc \in {"uploading", "writing", "removing"},
         NEW op \in {"create", "update", "delete"}, NEW s \in EventStatus, NEW to,
         BeginEdit(r, pc, op, s, to),
         status' = s, cover' = cover, storedCovers' = storedCovers
  PROVE  CalmSound'
<1>1. edit[r] = NoEdit /\ edit \in [Handlers -> {edit[q] : q \in Handlers}]
  BY DEF BeginEdit, EventTypeOK
<1>2. /\ edit'[r] = [pc |-> pc, op |-> op, status |-> s, cover |-> cover,
                    to |-> to, file |-> Null]
      /\ \A q \in Handlers \ {r} : edit'[q] = edit[q]
  BY <1>1 DEF BeginEdit
<1>3. SUFFICES ASSUME calm'
               PROVE  CalmSound'
  BY DEF CalmSound
<1>4. calm /\ Writing = {}
  BY <1>3 DEF BeginEdit, Writing, EventTypeOK
<1>5. Writing' = {r}
  BY <1>2, <1>4, EventAssumption DEF Writing
<1>6. StoreOf(r)'
  BY <1>2, <1>4 DEF StoreOf, RowUnchanged, Exists, CalmSound
<1> QED
  BY <1>4, <1>5, <1>6 DEF CalmSound

\* A handler that dies without a file of its own and nothing left to remove leaves
\* the store as it should be.
LEMMA CalmDies ==
  ASSUME EventTypeOK, EditShape, CalmSound, NEW r \in Handlers, HandlerDies(r)
  PROVE  CalmSound'
<1>1. /\ edit'[r] = NoEdit
      /\ \A q \in Handlers \ {r} : edit'[q] = edit[q]
      /\ <<status, cover, storedCovers>>' = <<status, cover, storedCovers>>
  BY DEF HandlerDies, EndEdit, EventTypeOK, row
<1>2. SUFFICES ASSUME calm'
               PROVE  CalmSound'
  BY DEF CalmSound
<1>3. calm /\ edit[r].file = Null /\ edit[r].pc # "deleting"
  BY <1>2 DEF HandlerDies, EventTypeOK
<1>4. Writing' = Writing \ {r}
  BY <1>1 DEF Writing, NoEdit
<1>5. r \in Writing => storedCovers \subseteq {cover}
  <2>1. CASE edit[r].pc \in {"uploading", "removing"}
    BY <1>3, <2>1 DEF CalmSound, StoreOf
  <2>2. CASE edit[r].pc = "writing"
    <3>1. r \in Writing => storedCovers \subseteq {cover, Null}
      BY <1>3, <2>2 DEF CalmSound, StoreOf
    <3>2. Null \notin storedCovers
      BY EventAssumption DEF EventTypeOK
    <3> QED
      BY <3>1, <3>2
  <2>3. CASE edit[r].pc = "cleaning"
    BY <1>3, <2>3 DEF EditShape
  <2>4. CASE edit[r].pc \in {"idle", "counting"}
    BY <2>4 DEF EditShape, Writing, NoEdit
  <2> QED
    BY <1>3, <2>1, <2>2, <2>3, <2>4 DEF EventTypeOK
<1>6. \A q \in Writing' : StoreOf(q)'
  <2> SUFFICES ASSUME NEW q \in Writing'
               PROVE  StoreOf(q)'
    OBVIOUS
  <2>1. q \in Writing /\ StoreOf(q)
    BY <1>3, <1>4 DEF CalmSound
  <2>2. edit'[q] = edit[q]
    BY <1>1, <1>4 DEF Writing
  <2> QED
    BY <1>1, <2>1, <2>2 DEF StoreOf, RowUnchanged, Exists
<1> QED
  BY <1>1, <1>3, <1>4, <1>5, <1>6 DEF CalmSound

LEMMA CalmStep ==
  ASSUME EventTypeOK, EditShape, CalmSound, [EventNext]_eventVars
  PROVE  CalmSound'
<1> USE EventAssumption DEF EventTypeOK, EditShape, CalmSound, RowUnchanged, StoreOf,
     Writing, Exists, EventStatus, row, NoEdit
<1>1. ASSUME NEW r \in Handlers, NEW s \in EventStatus, CreateWithoutFile(r, s)
      PROVE  CalmSound'
  BY <1>1 DEF CreateWithoutFile
<1>2. ASSUME NEW r \in Handlers, NEW s \in EventStatus, CreateWithFile(r, s)
      PROVE  CalmSound'
  <2>1. /\ BeginEdit(r, "uploading", "create", s, Null)
        /\ status' = s /\ cover' = cover /\ storedCovers' = storedCovers
    BY <1>2 DEF CreateWithFile
  <2> HIDE DEF EventTypeOK, EditShape, CalmSound, EventStatus
  <2> QED
    BY <2>1, CalmBegin
<1>3. ASSUME NEW r \in Handlers, NEW to \in EventStatus \cup {Null},
             NEW withFile \in BOOLEAN, BeginUpdate(r, to, withFile)
      PROVE  CalmSound'
  <2>1. /\ status \in EventStatus /\ status' = status
        /\ cover' = cover /\ storedCovers' = storedCovers
    BY <1>3 DEF BeginUpdate
  <2>2. \E pc \in {"uploading", "writing"} : BeginEdit(r, pc, "update", status, to)
    BY <1>3 DEF BeginUpdate
  <2> HIDE DEF EventTypeOK, EditShape, CalmSound, EventStatus
  <2> QED
    BY <2>1, <2>2, CalmBegin
<1>4. ASSUME NEW r \in Handlers, NEW o \in CoverKeys, Upload(r, o)
      PROVE  CalmSound'
  BY <1>4 DEF Upload
<1>5. ASSUME NEW r \in Handlers, UploadFails(r)
      PROVE  CalmSound'
  BY <1>5 DEF UploadFails, EndEdit
<1>6. ASSUME NEW r \in Handlers, WriteRow(r)
      PROVE  CalmSound'
  BY <1>6 DEF WriteRow, Applies, NextStatus, NextCover, Proceed, EndEdit
<1>7. ASSUME NEW r \in Handlers, WriteRowFails(r)
      PROVE  CalmSound'
  BY <1>7 DEF WriteRowFails, Proceed, EndEdit
<1>8. ASSUME NEW r \in Handlers, WriteRowUnanswered(r)
      PROVE  CalmSound'
  BY <1>8 DEF WriteRowUnanswered, Applies, NextStatus, NextCover, Proceed, EndEdit
<1>9. ASSUME NEW r \in Handlers, Clean(r)
      PROVE  CalmSound'
  BY <1>9 DEF Clean, EndEdit
<1>10. ASSUME NEW r \in Handlers, BeginRemoval(r)
       PROVE  CalmSound'
  <2>1. /\ status \in EventStatus /\ status' = status
        /\ cover' = cover /\ storedCovers' = storedCovers
    BY <1>10 DEF BeginRemoval
  <2>2. BeginEdit(r, "removing", "delete", status, Null)
    BY <1>10 DEF BeginRemoval
  <2> HIDE DEF EventTypeOK, EditShape, CalmSound, EventStatus
  <2> QED
    BY <2>1, <2>2, CalmBegin
<1>11. ASSUME NEW r \in Handlers, Remove(r)
       PROVE  CalmSound'
  BY <1>11 DEF Remove, Proceed, EndEdit
<1>12. ASSUME NEW r \in Handlers, DeleteCover(r)
       PROVE  CalmSound'
  BY <1>12 DEF DeleteCover, EndEdit
<1>13. ASSUME NEW r \in Handlers, GetEvent(r)
       PROVE  CalmSound'
  BY <1>13 DEF GetEvent
<1>14. ASSUME NEW r \in Handlers, IncrementViews(r)
       PROVE  CalmSound'
  BY <1>14 DEF IncrementViews, EndEdit
<1>15. ASSUME NEW r \in Handlers, HandlerDies(r)
       PROVE  CalmSound'
  BY <1>15, CalmDies
<1>16. CASE UNCHANGED eventVars
  BY <1>16 DEF eventVars
<1> HIDE DEF EventTypeOK, EditShape, CalmSound
<1> QED
  BY <1>1, <1>2, <1>3, <1>4, <1>5, <1>6, <1>7, <1>8, <1>9, <1>10, <1>11, <1>12,
     <1>13, <1>14, <1>15, <1>16 DEF EventNext, Create, Update


LEMMA LegalStep ==
  ASSUME EventIInv, [EventNext]_eventVars, Exists, Exists', calm, status' # status
  PROVE  CanTransition(status, status')
<1> USE EventAssumption DEF EventIInv, Exists
<1>1. ASSUME NEW r \in Handlers, WriteRow(r) \/ WriteRowUnanswered(r)
      PROVE  CanTransition(status, status')
  <2>1. r \in Writing /\ edit[r].status = status
    BY <1>1 DEF WriteRow, WriteRowUnanswered, EditShape, Writing, CalmSound,
       StoreOf, RowUnchanged
  <2> QED
    BY <1>1, <2>1 DEF WriteRow, WriteRowUnanswered, Applies, NextStatus, CanTransition
<1>2. ASSUME NEW r \in Handlers, Create(r) \/ Remove(r)
      PROVE  FALSE
  BY <1>2 DEF Create, CreateWithoutFile, CreateWithFile, Remove, EventStatus
<1> QED
  BY <1>1, <1>2 DEF EventNext, eventVars, row, Update, BeginUpdate, Upload, UploadFails,
     WriteRowFails, Clean, BeginRemoval, DeleteCover, GetEvent, IncrementViews,
     HandlerDies

LEMMA EventIInvInit ==
  EventInit => EventIInv
  BY EventAssumption DEF EventInit, EventIInv, EventTypeOK, EditShape, CalmSound,
     Writing, Exists, EventStatus, NoEdit

LEMMA EventIInvStep ==
  EventIInv /\ [EventNext]_eventVars => EventIInv'
  BY EventTypeStep, EditShapeStep, CalmStep DEF EventIInv

\* While handlers do not overlap, failures that the code handles leave no trace:
\* the row names a file that is stored, and between handlers no other file is
\* (create-event.service.ts:72-105, update-event.service.ts:54-107).
THEOREM CalmFilesMatch == EventSpec => []FilesMatchWhenCalm
<1>1. EventIInv => FilesMatchWhenCalm
  BY DEF EventIInv, CalmSound, FilesMatchWhenCalm
<1> QED
  BY <1>1, EventIInvInit, EventIInvStep, PTL DEF EventSpec

\* While handlers do not overlap, the status only moves as the lifecycle allows
\* (event.ts:65-70): the row that applyEventUpdate has checked is the row that is
\* written.
THEOREM CalmMovesAreLegal == EventSpec => LegalWhenCalm
<1>1. EventIInv /\ [EventNext]_eventVars
        => [Exists /\ Exists' /\ calm => CanTransition(status, status')]_status
  BY LegalStep
<1> QED
  BY <1>1, EventIInvInit, EventIInvStep, PTL DEF EventSpec, LegalWhenCalm
=============================================================================
