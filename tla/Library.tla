------------------------------- MODULE Library -------------------------------
(***************************************************************************)
(* A user's conversation: the thread row, its attachments and the messages *)
(* that take them (api/conversations.py, the repositories and the blob     *)
(* stores).  Every request reads a row, works on a copy of it and writes   *)
(* the whole row back, so what it read may be stale when it writes;        *)
(* associate_many alone re-reads under a row lock.  A blob is stored and   *)
(* removed by calls of their own, outside the database, and with MinIO by  *)
(* the client too.  Nothing keeps two requests for one row or one blob     *)
(* apart; clashed remembers where two got in each other's way.             *)
(***************************************************************************)
EXTENDS Integers, Sequences, FiniteSets

CONSTANTS
  Files,     \* attachment ids
  Requests,  \* requests, each of which is made once
  Stores     \* blob stores to consider: "local", "minio"

ASSUME LibraryAssumption ==
  /\ Stores \subseteq {"local", "minio"}
  /\ "none" \notin Requests

VARIABLES
  store,     \* the configured blob store
  thread,    \* the thread's status column
  file,      \* the attachment rows
  blob,      \* the object stored under an attachment's id
  url,       \* attachments whose presigned PUT is still valid
  serving,   \* where each request is
  accepted,  \* submissions answered with 202
  clashed    \* history: attachments on which two requests got in each other's way

libraryVars == <<store, thread, file, blob, url, serving, accepted, clashed>>

\* What an upload contains, as far as the checks tell it apart: "short" does
\* not have the declared size, "bad" is rejected by the scanner.
Content == {"good", "bad", "short"}
ThreadStatus == {"ACTIVE", "ARCHIVED", "DELETED"}
FileRow == [status: {"none", "PENDING", "READY", "FAILED", "DELETED"},
            scan: {"PENDING", "CLEAN", "QUARANTINED", "UNAVAILABLE", "FAILED"},
            checksum: Content \cup {"none"},
            message: Requests \cup {"none"}]
NoFile == [status |-> "none", scan |-> "PENDING", checksum |-> "none",
           message |-> "none"]
FileOps == {"upload", "complete", "drop"}
ThreadOps == {"rename", "archive", "delete", "restore"}
Request == [op: {"none", "submit"} \cup FileOps \cup ThreadOps,
            at: {"idle", "storing", "stat", "fetching", "removing", "writing", "over"},
            files: SUBSET Files, read: FileRow, row: FileRow, status: ThreadStatus]
Idle == [op |-> "none", at |-> "idle", files |-> {}, read |-> NoFile, row |-> NoFile,
         status |-> "ACTIVE"]

LibraryTypeOK ==
  /\ store \in Stores
  /\ thread \in ThreadStatus
  /\ file \in [Files -> FileRow]
  /\ blob \in [Files -> Content \cup {"none"}]
  /\ url \subseteq Files
  /\ serving \in [Requests -> Request]
  /\ accepted \subseteq Requests
  /\ clashed \subseteq Files

LibraryInit ==
  /\ store \in Stores
  /\ thread = "ACTIVE"
  /\ file = [f \in Files |-> NoFile]
  /\ blob = [f \in Files |-> "none"]
  /\ url = {}
  /\ serving = [q \in Requests |-> Idle]
  /\ accepted = {}
  /\ clashed = {}

-----------------------------------------------------------------------------
InFlight(q) == serving[q].at \notin {"idle", "over"}

\* The request has read what it needs and goes on at a step of its own.
Begin(q, op, at, files, row) ==
  /\ serving[q].at = "idle"
  /\ serving' = [serving EXCEPT ![q] = [op |-> op, at |-> at, files |-> files,
                                read |-> row, row |-> row, status |-> thread]]
GoTo(q, at) == serving' = [serving EXCEPT ![q].at = at]
Over(q) == GoTo(q, "over")
TheFile(q) == CHOOSE f \in serving[q].files : TRUE

\* What the scanner says of a content; it may be unreachable.
Verdicts(c) == {"UNAVAILABLE"} \cup (IF c = "good" THEN {"CLEAN"}
                                     ELSE {"QUARANTINED", "FAILED"})
\* The row a request writes back: a copy of the one it read, with its results.
Scanned_FailOpen(row, c, scan) ==
  [row EXCEPT !.status = IF scan \in {"CLEAN", "UNAVAILABLE"} THEN "READY" ELSE "FAILED",
              !.scan = scan, !.checksum = c]
Scanned(row, c, scan) ==
  [row EXCEPT !.status = IF scan = "CLEAN" THEN "READY" ELSE "FAILED",
              !.scan = scan, !.checksum = c]

-----------------------------------------------------------------------------
\* The thread's own endpoints: read the row, write it back changed.
_owned_thread_Any(allow_deleted) == TRUE
_owned_thread(allow_deleted) == thread # "DELETED" \/ allow_deleted
BeginThreadOp(q, op) ==
  /\ op \in ThreadOps
  /\ _owned_thread(op = "restore")
  /\ op = "restore" => thread = "DELETED"
  /\ Begin(q, op, "writing", {}, NoFile)
  /\ UNCHANGED <<store, thread, file, blob, url, accepted, clashed>>

StatusAfter_Purged(op, copy) ==
  CASE op = "archive" -> "ARCHIVED"
    [] op = "delete" -> "PURGED"
    [] op = "restore" -> "ACTIVE"
    [] OTHER -> copy
StatusAfter(op, copy) ==
  CASE op = "archive" -> "ARCHIVED"
    [] op = "delete" -> "DELETED"
    [] op = "restore" -> "ACTIVE"
    [] OTHER -> copy
WriteThread(q) ==
  /\ serving[q].op \in ThreadOps /\ InFlight(q)
  /\ thread' = StatusAfter(serving[q].op, serving[q].status)
  /\ Over(q)
  /\ UNCHANGED <<store, file, blob, url, accepted, clashed>>

-----------------------------------------------------------------------------
\* Attachments

\* initiate_attachment: metadata that is not allowed is refused, changing
\* nothing; a presigned URL of MinIO's is good for expires_s, 900 seconds.
initiate_attachment(f) ==
  /\ _owned_thread(FALSE)
  /\ file[f] = NoFile
  /\ file' = [file EXCEPT ![f].status = "PENDING"]
  /\ url' = IF store = "minio" THEN url \cup {f} ELSE url
  /\ UNCHANGED <<store, thread, blob, serving, accepted, clashed>>
ExpireUrl(f) ==
  /\ f \in url
  /\ url' = url \ {f}
  /\ UNCHANGED <<store, thread, file, blob, serving, accepted, clashed>>

\* One of the requests has found the blob to be good, and the row does not say so
\* yet.
CheckedBy(Q, f) ==
  \E q \in Q : /\ serving[q].at = "writing" /\ f \in serving[q].files
               /\ serving[q].op \in {"upload", "complete"} /\ serving[q].row.status = "READY"
BlobChanged(q, f) ==
  clashed' = IF file[f].status = "READY" \/ CheckedBy(Requests \ {q}, f)
             THEN clashed \cup {f} ELSE clashed

\* upload_attachment_content, to the local store only.  Two uploads of one
\* attachment write to one temporary file.
Storing(q, f) == serving[q].op = "upload" /\ serving[q].at = "storing" /\ f \in serving[q].files
Shared(q) == \E r \in Requests \ {q} : Storing(r, TheFile(q))
BeginUpload(q, f) ==
  /\ store = "local" /\ file[f].status = "PENDING"
  /\ Begin(q, "upload", "storing", {f}, file[f])
  /\ clashed' = IF \E r \in Requests : Storing(r, f) THEN clashed \cup {f} ELSE clashed
  /\ UNCHANGED <<store, thread, file, blob, url, accepted>>

\* LocalBlobStore.put: the bytes go to the temporary file, which is checked,
\* scanned and only then moved to its place, or to quarantine.  When the file is
\* shared, anything may be in it, or it is gone.
StoreUpload(q) ==
  LET f == TheFile(q)
      held(c) == IF Shared(q) THEN Content ELSE {c} IN
  /\ serving[q].op = "upload" /\ serving[q].at = "storing"
  /\ \/ \E c \in Content \ {"short"} : \E t \in held(c) :
        \E scan \in UNION {Verdicts(d) : d \in held(c)} :
          /\ IF scan = "CLEAN" THEN blob' = [blob EXCEPT ![f] = t] /\ BlobChanged(q, f)
             ELSE UNCHANGED <<blob, clashed>>
          /\ serving' = [serving EXCEPT ![q].at = "writing",
                                ![q].row = Scanned(serving[q].row, c, scan)]
     \/ Over(q) /\ UNCHANGED <<blob, clashed>>     \* BlobValidationError: 413, or 500
  /\ UNCHANGED <<store, thread, file, url, accepted>>
\* An upload goes on writing to the file that another one has moved to its place.
LateChunk(q, f, c) ==
  /\ Storing(q, f) /\ f \in clashed /\ blob[f] # "none"
  /\ blob' = [blob EXCEPT ![f] = c]
  /\ UNCHANGED <<store, thread, file, url, serving, accepted, clashed>>

\* With MinIO the client puts the object itself, as often as it likes while the
\* presigned URL is valid, and asks to complete the upload.
ClientPut(f, c) ==
  /\ f \in url
  /\ blob' = [blob EXCEPT ![f] = c]
  /\ BlobChanged("none", f)
  /\ UNCHANGED <<store, thread, file, url, serving, accepted>>
BeginComplete(q, f) ==
  /\ store = "minio" /\ file[f].status = "PENDING"
  /\ Begin(q, "complete", "stat", {f}, file[f])
  /\ UNCHANGED <<store, thread, file, blob, url, accepted, clashed>>

\* complete_presigned_upload looks at the object's size and type (a type that
\* differs is the client's choice, whatever the content), then reads it: its
\* checksum must be the declared one, and the scanner may raise. Without an object
\* either call raises; a rejection removes the blob and then writes the row.
Rejected(row, c) == [row EXCEPT !.status = "FAILED", !.scan = "FAILED", !.checksum = c]
Reject(q, c) ==
  serving' = [serving EXCEPT ![q].at = "removing", ![q].row = Rejected(serving[q].row, c)]
StatObject(q) ==
  LET c == blob[TheFile(q)] IN
  /\ serving[q].op = "complete" /\ serving[q].at = "stat"
  /\ \/ c = "none" /\ Over(q)
     \/ c # "none" /\ Reject(q, "none")
     \/ c \notin {"none", "short"} /\ GoTo(q, "fetching")
  /\ UNCHANGED <<store, thread, file, blob, url, accepted, clashed>>
FetchObject_Unchecked(q) ==
  /\ serving[q].op = "complete" /\ serving[q].at = "fetching"
  /\ serving' = [serving EXCEPT ![q].at = "writing",
                        ![q].row = Scanned(serving[q].row, blob[TheFile(q)], "CLEAN")]
  /\ UNCHANGED <<store, thread, file, blob, url, accepted, clashed>>
FetchObject(q) ==
  LET c == blob[TheFile(q)] IN
  /\ serving[q].op = "complete" /\ serving[q].at = "fetching"
  /\ \/ c = "none" /\ Over(q)
     \/ c # "none" /\ Reject(q, c)
     \/ /\ c \notin {"none", "short"}
        /\ \E scan \in Verdicts(c) :
             serving' = [serving EXCEPT
                       ![q].at = IF scan = "CLEAN" THEN "writing" ELSE "removing",
                       ![q].row = Scanned(serving[q].row, c, scan)]
  /\ UNCHANGED <<store, thread, file, blob, url, accepted, clashed>>

\* delete_attachment, of an attachment in any state.
BeginDrop(q, f) ==
  /\ file[f] # NoFile
  /\ Begin(q, "drop", "removing", {f}, file[f])
  /\ UNCHANGED <<store, thread, file, blob, url, accepted, clashed>>

\* blob_store.delete, by a rejected completion or a deletion; MinIO's may raise.
RemoveBlob(q) ==
  LET f == TheFile(q) IN
  /\ serving[q].at = "removing"
  /\ \/ /\ blob' = [blob EXCEPT ![f] = "none"]
        /\ IF serving[q].op = "complete" THEN BlobChanged(q, f) ELSE UNCHANGED clashed
        /\ GoTo(q, "writing")
     \/ store = "minio" /\ Over(q) /\ UNCHANGED <<blob, clashed>>
  /\ UNCHANGED <<store, thread, file, url, accepted>>

\* attachments.update writes every column, whatever became of the row since it was
\* read; attachments.delete the status.
WriteFile(q) ==
  LET f == TheFile(q) IN
  /\ serving[q].op \in FileOps /\ serving[q].at = "writing"
  /\ IF serving[q].op = "drop"
     THEN file' = [file EXCEPT ![f].status = "DELETED"] /\ UNCHANGED clashed
     ELSE /\ file' = [file EXCEPT ![f] = serving[q].row]
          /\ clashed' = IF file[f] # serving[q].read THEN clashed \cup {f} ELSE clashed
  /\ Over(q)
  /\ UNCHANGED <<store, thread, blob, url, accepted>>

-----------------------------------------------------------------------------
\* submit_message checks the thread and the attachments, builds the context
\* and seeds the mission before its transaction begins.
Available(f) == file[f].status = "READY" /\ file[f].scan = "CLEAN"
                  /\ file[f].message = "none"
BeginSubmit(q, files) ==
  /\ thread = "ACTIVE" /\ \A f \in files : Available(f)
  /\ Begin(q, "submit", "writing", files, NoFile)
  /\ UNCHANGED <<store, thread, file, blob, url, accepted, clashed>>

\* associate_many looks again, under the rows' locks.
associate_many_Trusting(files) == TRUE
associate_many(files) == \A f \in files : Available(f)
\* The transaction: messages and run, the association, and the thread row with
\* its new title, every column from the copy; or 409 and nothing.
CommitSubmit(q) ==
  /\ serving[q].op = "submit" /\ InFlight(q)
  /\ IF associate_many(serving[q].files)
     THEN /\ file' = [f \in Files |-> IF f \in serving[q].files
                                       THEN [file[f] EXCEPT !.message = q] ELSE file[f]]
          /\ thread' = serving[q].status
          /\ accepted' = accepted \cup {q}
     ELSE UNCHANGED <<file, thread, accepted>>
  /\ Over(q)
  /\ UNCHANGED <<store, blob, url, clashed>>

LibraryNext ==
  \/ \E f \in Files : \/ initiate_attachment(f) \/ ExpireUrl(f)
                      \/ \E c \in Content : ClientPut(f, c)
  \/ \E q \in Requests :
       \/ \E op \in ThreadOps : BeginThreadOp(q, op)
       \/ \E f \in Files : \/ BeginUpload(q, f) \/ BeginComplete(q, f) \/ BeginDrop(q, f)
                           \/ \E c \in Content : LateChunk(q, f, c)
       \/ \E files \in SUBSET Files : BeginSubmit(q, files)
       \/ WriteThread(q) \/ StoreUpload(q) \/ StatObject(q) \/ FetchObject(q) \/ RemoveBlob(q)
       \/ WriteFile(q) \/ CommitSubmit(q)

LibrarySpec == LibraryInit /\ [][LibraryNext]_libraryVars

-----------------------------------------------------------------------------
\* An accepted message has all its attachments, and so nobody else has one of
\* them: two submissions that found a file available cannot both be accepted.
\* Only a completion that overlapped another and writes its old copy takes a
\* message its attachment.
AttachedOnce ==
  \A q \in accepted : \A f \in serving[q].files : file[f].message = q \/ f \in clashed

\* "Only a verified successful scan permits READY attachment state", and behind a
\* READY row is the content whose checksum it records and which the scanner
\* accepted, unless a deletion is under way that has removed it, or the blob was
\* replaced or removed behind the back of the request that checked it.
ReadyHasContent ==
  \A f \in Files : file[f].status = "READY" =>
    /\ file[f].scan = "CLEAN"
    /\ f \in clashed \/ file[f].checksum = "good"
    /\ \/ f \in clashed \/ blob[f] = "good"
       \/ \E q \in Requests : InFlight(q) /\ serving[q].op = "drop" /\ f \in serving[q].files

\* An attachment belongs to one message, and READY means that there is
\* something to download.
LibraryInv ==
  /\ LibraryTypeOK
  /\ AttachedOnce
  /\ ReadyHasContent

\* The thread is deleted, and no request under way holds an older copy of it.
ThreadGone ==
  /\ thread = "DELETED"
  /\ \A q \in Requests : InFlight(q) =>
       /\ serving[q].op \in ThreadOps => StatusAfter(serving[q].op, serving[q].status) = "DELETED"
       /\ serving[q].op = "submit" => serving[q].status = "DELETED"
\* Once a thread is gone, only a restore brings it back: no other request that
\* comes later finds a thread to change.
DeletionIsKept ==
  [][ThreadGone => \/ ThreadGone'
                   \/ \E q \in Requests : serving'[q].op = "restore" /\ InFlight(q)']_libraryVars

\* "deleting a thread soft-deletes it immediately from user access"
\* (docs/47_CONVERSATION_DATA_POLICY.md): only a restore brings a deleted thread
\* back, whatever was under way when it was deleted.
DeletionHolds ==
  [][thread = "DELETED" /\ thread' # "DELETED" =>
       \E q \in Requests : serving[q].op = "restore" /\ InFlight(q)]_libraryVars
=============================================================================
