---------------------------- MODULE ImportRunner ----------------------------
(***************************************************************************)
(* One mailbox import request: its link's pages, the upload of a Takeout   *)
(* file, the import queue of the worker manager and the runner that copies *)
(* the source into an IMAP mailbox, message by message, with a checkpoint. *)
(*                                                                         *)
(* Pages do not wait for anything, so each is one step (the callback waits *)
(* for Google, and is taken when it ends); the runner waits at every call  *)
(* to Google and to the mailbox.  The manager has one thread for the       *)
(* queue: imports run one at a time, and what the process holds in memory  *)
(* (queue, pending set, the run it is in) is gone when it ends.            *)
(* A file and a mailbox at Google are sequences of messages; the upload    *)
(* comes in chunks of one message, so none is cut in two.  Times are left  *)
(* out: an expiry, the clean-up and a retry come at any time.              *)
(*                                                                         *)
(* A definition named Slip... is the definition after it with one mistake. *)
(***************************************************************************)
EXTENDS Naturals, Sequences, FiniteSets

CONSTANTS
  Msgs,
  Unwanted,   \* those labelled spam or trash
  Mailbox,    \* what Gmail lists
  Files,      \* name |-> the messages of the Takeout file of that name
  PageSize,
  MaxRuns,    \* the bound on runs
  MaxBreaks,  \* the bound on lost records and ends of the process
  Absent

ASSUME ImportAssumption ==
  /\ Unwanted \subseteq Msgs /\ Mailbox \in Seq(Msgs)
  /\ \A i, j \in DOMAIN Mailbox : Mailbox[i] = Mailbox[j] => i = j  \* Gmail's ids
  /\ \A n \in DOMAIN Files : Files[n] \in Seq(Msgs)
  /\ PageSize \in Nat \ {0} /\ {MaxRuns, MaxBreaks} \subseteq Nat

Names == DOMAIN Files
\* upload in progress, or finished, under a name
Paths == Names \X {"part", "final"}
Part(n) == <<n, "part">>
Final(n) == <<n, "final">>

VARIABLES
  source,   \* "google" or "google_takeout"
  linkEnabled, expired,
  linked,   \* there is a refresh token
  status,   \* of the request
  staged,   \* staged_upload_path
  upload,   \* upload_status
  disk,     \* path |-> how much of its file is there
  runs,     \* how many runs there are
  saved,    \* the checkpoint: its run, its cursor, and (a ghost) the run that left the cursor
  known,    \* imported_messages
  queue,    \* import tasks: runs
  pendingImport,  \* _pending_imports has the request
  work,     \* what the runner is doing
  box,      \* message |-> copies in the destination
  breaks,
  asked,    \* the messages the last accepted run is to bring, Absent when an upload came since
  strayed   \* that run went on from a cursor of another one

link == <<source, linkEnabled, expired, linked>>
file == <<staged, upload, disk>>
tasks == <<queue, pendingImport>>
ghosts == <<asked, strayed>>
importVars == <<link, status, file, runs, saved, known, tasks, work, box, breaks, ghosts>>

Google == source = "google"
AtRest == [at |-> "idle"]
NoRun == 0

----------------------------------------------------------------------------
(* The link's pages (admin/controllers/imports.py) and the administrator *)

\* _request_from_token
Valid == linkEnabled /\ ~expired
LinkExpires ==
  /\ linkEnabled /\ expired
  /\ status' = "expired"
  /\ UNCHANGED <<link, file, runs, saved, known, tasks, work, box, breaks, ghosts>>
Expires ==
  /\ expired' = TRUE
  /\ UNCHANGED <<source, linkEnabled, linked, status, file, runs, saved, known, tasks, work, box, breaks, ghosts>>

\* what fails after the exchange of the code keeps the token
GoogleCallback ==
  /\ Valid /\ Google
  /\ \/ linked' = TRUE /\ status' = "ready"
     \/ linked' \in {linked, TRUE} /\ status' = "failed"
  /\ UNCHANGED <<source, linkEnabled, expired, file, runs, saved, known, tasks, work, box, breaks, ghosts>>

ToggleImportRequest ==
  /\ linkEnabled' = ~linkEnabled
  /\ status' = IF linkEnabled THEN "disabled" ELSE IF linked THEN "ready" ELSE "pending_auth"
  /\ UNCHANGED <<source, expired, linked, file, runs, saved, known, tasks, work, box, breaks, ghosts>>

\* enqueue_import takes the request once
Enqueue(r) == pendingImport' = TRUE /\ queue' = queue \union {r}

Startable == IF Google THEN linked ELSE staged # Absent /\ upload = "uploaded"
SeqRange(s) == {s[i] : i \in DOMAIN s}
Listing == IF Google THEN Mailbox ELSE Files[staged[1]]
RunRequest ==
  /\ Valid /\ status \notin {"queued", "running"} /\ Startable
  /\ runs < MaxRuns
  /\ status' = "queued"
  /\ IF pendingImport
       THEN UNCHANGED <<runs, tasks, ghosts>>     \* the new run is deleted again
       ELSE /\ runs' = runs + 1
            /\ Enqueue(runs + 1)
            /\ asked' = SeqRange(Listing) \ Unwanted
            /\ strayed' = FALSE
  /\ UNCHANGED <<link, file, saved, known, work, box, breaks>>

\* cleanup_upload_path
Without(d, path) == IF path = Absent THEN d ELSE [d EXCEPT ![path] = Absent]

\* ensure_upload_metadata: the upload of that name goes on, or starts anew
SameUpload(n) == staged = Part(n) /\ disk[Part(n)] # Absent
Ensured(n) == IF SameUpload(n) THEN disk ELSE [Without(disk, staged) EXCEPT ![Part(n)] = 0]
Have(n) == Ensured(n)[Part(n)]

\* a resumed upload that is all there counts as uploaded
Ensures(n, st) ==
  /\ disk' = Ensured(n) /\ staged' = Part(n)
  /\ upload' = IF SameUpload(n) /\ Have(n) = Len(Files[n]) THEN "uploaded" ELSE "uploading"
  /\ status' = st
InitTakeoutUpload ==
  /\ Valid /\ ~Google
  /\ \E n \in Names : Ensures(n, IF Have(n) = 0 THEN "pending_upload" ELSE "uploading")
  /\ asked' = Absent
  /\ UNCHANGED <<link, runs, saved, known, tasks, work, box, breaks, strayed>>

Appends(n, d, st) == disk' = d /\ staged' = Part(n) /\ upload' = "uploading" /\ status' = st

\* a chunk that is not the next one, or the last one too early, is an error
UploadTakeoutChunk ==
  /\ Valid /\ ~Google
  /\ \E n \in Names : \E offset \in 0..(Len(Files[n]) - 1), last \in BOOLEAN :
       LET more == [Ensured(n) EXCEPT ![Part(n)] = offset + 1]
           whole == offset + 1 = Len(Files[n])
       IN
       \/ offset # Have(n) /\ Ensures(n, "pending_upload")
       \/ offset = Have(n) /\ ~last /\ Appends(n, more, "uploading")
       \/ offset = Have(n) /\ last /\ ~whole /\ Appends(n, more, "pending_upload")
       \/ /\ offset = Have(n) /\ last /\ whole
          /\ disk' = [more EXCEPT ![Part(n)] = Absent, ![Final(n)] = offset + 1]
          /\ staged' = Final(n) /\ upload' = "uploaded" /\ status' = "ready"
  /\ asked' = Absent
  /\ UNCHANGED <<link, runs, saved, known, tasks, work, box, breaks, strayed>>

\* the manager's hourly look at uploads nobody finished or imported
CleanupExpiredUploads ==
  /\ work = AtRest
  /\ ~Google /\ staged # Absent
  /\ status \in {"failed", "disabled", "expired", "pending_upload", "uploading"}
  /\ disk' = Without(disk, staged) /\ staged' = Absent /\ upload' = "expired"
  /\ UNCHANGED <<link, status, runs, saved, known, tasks, work, box, breaks, ghosts>>

----------------------------------------------------------------------------
(* The import queue (workers/manager.py) and run_import *)

\* any staged path will do here, that of an unfinished upload included
Runnable == Valid /\ IF Google THEN linked ELSE staged # Absent
DropImport ==
  /\ work = AtRest /\ ~Runnable
  /\ \E r \in queue : queue' = queue \ {r}
  /\ pendingImport' = FALSE
  /\ UNCHANGED <<link, status, file, runs, saved, known, work, box, breaks, ghosts>>

\* what fails gives the request up, and is queued again with its run unless the
\* page started another one first
Retry(r) == status' = "queued" /\ pendingImport' = FALSE /\ work' = [at |-> "requeue", run |-> r]
Requeue ==
  /\ work.at = "requeue"
  /\ IF pendingImport THEN UNCHANGED tasks ELSE Enqueue(work.run)
  /\ work' = AtRest
  /\ UNCHANGED <<link, status, file, runs, saved, known, box, breaks, ghosts>>

Begin(r) == [at |-> "connect", run |-> r, path |-> staged, list |-> <<>>, page |-> 0, pos |-> 0, seen |-> {}]
TakeImport ==
  /\ work = AtRest /\ Runnable
  /\ \E r \in queue :
       /\ queue' = queue \ {r}
       /\ IF ~Google /\ disk[staged] = Absent
            THEN Retry(r) /\ staged' = Absent /\ upload' = "pending_upload" /\ UNCHANGED disk
            ELSE status' = "running" /\ work' = Begin(r) /\ UNCHANGED <<pendingImport, file>>
  /\ UNCHANGED <<link, runs, saved, known, box, breaks, ghosts>>

\* Google, the mailbox or the disk says no
ImportFails ==
  /\ work.at \in {"connect", "list", "next", "append"}
  /\ Retry(work.run)
  /\ UNCHANGED <<link, file, runs, saved, known, queue, box, breaks, ghosts>>

\* _load_checkpoint: a cursor is good for its own run
SlipCursor(r) == saved.cursor
Cursor(r) == IF saved.run = r THEN saved.cursor ELSE 0

\* the mailbox answered; a Takeout file is opened now, as far as it is there
Opened(list) ==
  /\ work' = [work EXCEPT !.at = IF Google THEN "list" ELSE "next", !.list = list,
                           !.page = Cursor(work.run), !.pos = Cursor(work.run)]
  /\ saved' = [saved EXCEPT !.run = work.run]
  /\ strayed' = (strayed \/ (Cursor(work.run) # 0 /\ saved.run = work.run /\ saved.by # work.run))
  /\ UNCHANGED <<status, pendingImport>>
PrepareDestination ==
  /\ work.at = "connect"
  /\ IF Google
       THEN Opened(Mailbox)
       ELSE IF disk[work.path] # Absent
              THEN Opened(SubSeq(Files[work.path[1]], 1, disk[work.path]))
              ELSE Retry(work.run) /\ saved' = [saved EXCEPT !.run = work.run] /\ UNCHANGED strayed
  /\ UNCHANGED <<link, file, runs, known, queue, box, breaks, asked>>

\* a page, and which of its messages were imported before
ListPage ==
  /\ work.at = "list"
  /\ work' = [work EXCEPT !.at = "next", !.seen = known]
  /\ UNCHANGED <<link, status, file, runs, saved, known, tasks, box, breaks, ghosts>>

PageEnd == Google /\ work.pos = work.page + PageSize
Left == work.pos < Len(work.list)
Message == work.list[work.pos + 1]

SlipImported(m) == Google /\ m \in work.seen
Imported(m) == m \in IF Google THEN work.seen ELSE known

\* _persist_totals: the next message of a file, the page of a mailbox
Persist(pos) == saved' = [saved EXCEPT !.cursor = IF Google THEN work.page ELSE pos, !.by = work.run]
SkipMessage ==
  /\ work.at = "next" /\ ~PageEnd /\ Left
  /\ Imported(Message) \/ Message \in Unwanted
  /\ work' = [work EXCEPT !.pos = @ + 1]
  /\ IF Google THEN UNCHANGED saved ELSE Persist(work.pos + 1)
  /\ UNCHANGED <<link, status, file, runs, known, tasks, box, breaks, ghosts>>
ReadMessage ==
  /\ work.at = "next" /\ ~PageEnd /\ Left
  /\ ~Imported(Message) /\ Message \notin Unwanted
  /\ work' = [work EXCEPT !.at = "append"]
  /\ UNCHANGED <<link, status, file, runs, saved, known, tasks, box, breaks, ghosts>>
AppendMessage ==
  /\ work.at = "append"
  /\ box' = [box EXCEPT ![Message] = @ + 1]
  /\ work' = [work EXCEPT !.at = "record"]
  /\ UNCHANGED <<link, status, file, runs, saved, known, tasks, breaks, ghosts>>
RecordMessage ==
  /\ work.at = "record"
  /\ known' = known \union {Message}
  /\ work' = [work EXCEPT !.at = "next", !.pos = @ + 1]
  /\ Persist(work.pos + 1)
  /\ UNCHANGED <<link, status, file, runs, tasks, box, breaks, ghosts>>
NextPage ==
  /\ work.at = "next" /\ PageEnd /\ Left
  /\ saved' = [saved EXCEPT !.cursor = work.pos, !.by = work.run]
  /\ work' = [work EXCEPT !.at = "list", !.page = work.pos]
  /\ UNCHANGED <<link, status, file, runs, known, tasks, box, breaks, ghosts>>

\* the cursor goes, and whatever is staged by now with the file that was read;
\* the mailbox's LOGOUT comes before the import is said to be completed
EndCursor == saved' = [saved EXCEPT !.cursor = 0, !.by = work.run]
CloseImport ==
  /\ work.at = "next" /\ ~Left
  /\ EndCursor
  /\ IF Google
       THEN UNCHANGED file
       ELSE disk' = Without(disk, staged) /\ staged' = Absent /\ upload' = "consumed"
  /\ work' = [work EXCEPT !.at = "logout"]
  /\ UNCHANGED <<link, status, runs, known, tasks, box, breaks, ghosts>>
CompleteImport ==
  /\ work.at = "logout"
  /\ status' = "completed"
  /\ work' = AtRest
  /\ pendingImport' = FALSE
  /\ UNCHANGED <<link, file, runs, saved, known, queue, box, breaks, ghosts>>

Breaks == breaks < MaxBreaks /\ breaks' = breaks + 1
\* the answer to APPEND is lost, or the record cannot be committed
RecordLost ==
  /\ work.at = "record"
  /\ Breaks
  /\ Retry(work.run)
  /\ UNCHANGED <<link, file, runs, saved, known, queue, box, ghosts>>
\* also between the commits of the runner's end
ProcessEnds ==
  /\ Breaks
  /\ queue' = {} /\ pendingImport' = FALSE /\ work' = AtRest
  /\ \/ UNCHANGED <<saved, disk>>
     \/ /\ work.at = "next" /\ ~Left /\ ~Google
        /\ EndCursor
        /\ disk' \in {disk, Without(disk, staged)}
  /\ UNCHANGED <<link, status, staged, upload, runs, known, box, ghosts>>

----------------------------------------------------------------------------
\* create_import_request
ImportInit ==
  /\ source \in {"google", "google_takeout"}
  /\ linkEnabled = TRUE /\ expired = FALSE /\ linked = FALSE
  /\ status = IF Google THEN "pending_auth" ELSE "pending_upload"
  /\ staged = Absent /\ upload = IF Google THEN "none" ELSE "pending_upload"
  /\ disk = [p \in Paths |-> Absent]
  /\ runs = 0 /\ saved = [run |-> NoRun, cursor |-> 0, by |-> NoRun] /\ known = {}
  /\ queue = {} /\ pendingImport = FALSE /\ work = AtRest
  /\ box = [m \in Msgs |-> 0]
  /\ breaks = 0 /\ asked = Absent /\ strayed = FALSE

Page ==
  \/ LinkExpires \/ Expires \/ GoogleCallback \/ ToggleImportRequest \/ RunRequest
  \/ InitTakeoutUpload \/ UploadTakeoutChunk
Manager ==
  \/ CleanupExpiredUploads \/ DropImport \/ TakeImport \/ ImportFails \/ Requeue \/ PrepareDestination
  \/ ListPage \/ SkipMessage \/ ReadMessage \/ AppendMessage \/ RecordMessage \/ NextPage
  \/ CloseImport \/ CompleteImport \/ RecordLost
ImportNext == Page \/ Manager \/ ProcessEnds

ImportSpec == ImportInit /\ [][ImportNext]_importVars

----------------------------------------------------------------------------
\* However often an import is retried, resumed, started again or fed with a
\* file that has the same messages, the mailbox gets a message once, and once
\* more only for a record that was lost and for an end of the process.
OneCopy == \A m \in Msgs : box[m] <= 1 + breaks

\* An import that says it is completed has brought every message it was to
\* bring, however often it was interrupted, unless another upload came in its
\* way or it went on from the cursor of another run.
Complete == ~strayed /\ status = "completed" /\ asked # Absent => \A m \in asked : box[m] > 0
=============================================================================
