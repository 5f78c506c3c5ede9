# Locoroo Suite: formal verification

TLA+ models of the concurrent and failure-prone parts of Locoroo Suite, the
TLC configurations that check them on small instances, and machine-checked
proofs (TLAPS) about them for every instance.

    tlc -workers 2 -config SyncQueue.cfg MCSyncQueue.tla
    tlapm MailSyncProof.tla

`PROJECT.json` lists the runs, the correspondence of every definition with its
source lines (`map`), the hazards of the code and, for each checked property, a
plausible mistake in the code that breaks it (`mutants`). A definition named
`Slip...` in a module is such a mistake; no specification uses it.

## 1. The system

Locoroo Suite is a Flask application served by one gunicorn process of gevent
workers, with a second process for the MCP server. It keeps a shared SQL
database (customers, accounts, domains, push subscriptions, tokens, imports)
and, for every mail account, encrypted SQLite caches of mail, calendar,
contacts, documents and chat. The key of the caches is in memory from login to
logout (`app/shared/keys.py`); customers who subscribed to push have it stored
so that headless workers can go on after a restart (`push_keys.py`). IMAP,
SMTP, CalDAV, CardDAV, Matrix and Collabora are separate services.

| Component | State | Operations | Meets | Hard because | Correct when |
|---|---|---|---|---|---|
| Sync queue, `workers/manager.py` | `_pending`, priority queue, retry counts | `enqueue_sync`, `_process_queue`, background rounds | request handlers, IDLE threads, `sync_account` | many requesting threads, a put outside the lock, retries with back-off | a folder has one task; no key stays pending; failures are retried |
| IDLE watchers, `workers/manager.py` | `_idle_workers`, active accounts and folders, armed sets | login, logout, switching, arming, disarming, background checks | sessions, push keys, IMAP | threads outlive the calls that stop them; lists copied under a lock and used after it | the Inbox that ought to be watched is, by one thread; stopped threads end |
| Folder sync, `mail/services/imap_sync.py` | message rows, `folder_state` | initial and incremental sync, purge, flag refresh | the IMAP server, mark requests | the mailbox changes between commands; a sync may stop anywhere | no message is lost between two syncs; epochs do not mix; the cache converges |
| Deferred send, `mail/controllers/helpers.py`, `compose.py` | `_pending_sends`, worker threads, notice | send, Send now, undo, retry, status | SMTP, Drafts, Sent | several workers of one message; lost answers | delivered once, and the customer told the truth |
| Moves, bulk actions, trash, folders, drafts: `message.py`, `bulk.py`, `mailbox.py`, `compose.py`, REST and MCP twins | mailboxes, rows, the session's undo, `spam_action_prefs` | COPY, STORE, EXPUNGE, CREATE, RENAME, DELETE, APPEND and the rows after them | IMAP, folder sync | a request is many commands, any of which fails; EXPUNGE removes what others marked | a message keeps a copy; the cache hides none; the Spam action is not turned off by a broken line or a vanished message |
| Mail cache database | one encrypted file per account | open, key, migrate | everything | deleted on any error | rebuilt by a full sync |
| Search, aliases | none | conversions of text | - | - | - |
| Accounts and keys: `auth.py`, `api_settings.py`, `token_service.py`, `oauth.py`, `push.py`, `push_keys.py`, `crypto.py` | `_user_keys`, sessions, wrapped keys in accounts, tokens, grants, push key store | login, second factor, logout, API access, OAuth, subscribe | IMAP (checks passwords), caches | the key is derived from the password, and half a dozen places keep one | every kept key opens what it is kept for |
| Administration, provisioning API, mail server API | users, accounts, domains; Postfix and Dovecot maps | create, reset, toggle, delete; invitations and sign-up | HTTP to the mail API | row first, then a call that may fail or wait; requests overlap | a domain that is on is served |
| Server-sent events | a bounded queue for a user | publish, drain | pages | drops its oldest | a hint only |
| Calendar, invitations, reminders | CalDAV collections, two local copies, `push_calendar_fired` | sync, create, edit, move, delete, invite, reply, remind | CalDAV, mail sync, push | two calls for one move; stale listings; the mirror makes reminders anew | a whole sync mirrors; an event is not lost half way; a reminder rings once |
| Contacts | the address book, `contacts`, `addressbook_state` | sync, create, auto-save, edit, patch, delete | CardDAV, other clients | etags and forms read before others write | a write replaces what it was made from, or what the row held when an older form was sent; cache in step; one contact to an address |
| Documents | rows, files with embedded metadata, shares, WOPI tokens | create, save, trash, restore, move, resync, share, convert | Collabora (WOPI), the MCP process | two copies of one truth; a process ends between two writes | a recovery restores what the row said; no share of a trashed document |
| Chat | messages, sync token, push log | streams, push worker, send, edit, redact, join, leave | Matrix, push | three kinds of loop over one token | the token covers nothing that was not given to the cache; no second ring for what the log holds |
| Imports | request, checkpoint, records, staged upload, queue | link pages, upload, start, retry, run | Gmail, IMAP | append and record are two commits; the process ends | each message once; completed means complete |
| Migrations, translations, time zones, front end, TypeScript client | - | - | - | - | - |

## 2. Modules

| Module | Models | State in the code |
|---|---|---|
| `FolderJobs` | the abstract specification of the sync queue: a folder waits, runs, ends | - |
| `SyncQueue` | `enqueue_sync`, `_process_queue`, `_run`, `_schedule_background_checks` as far as they queue, `_clear_retry*`, the session key | `pending` = `_pending`, `due`/`later` = the priority queue split at now, `putting` = a thread between its lock and its `put`, `job`, `step`, `live` = the loop's locals, `attempts` = `_retry_attempts` |
| `IdleWatch` | the rest of `WorkerManager` and `_IdleWorker`, with login, logout, arming and restarts | `registry` = `_idle_workers`, `thread` = the thread objects, `arming`, `disarming`, `visiting` = what a method still has to visit after it released the lock |
| `FolderSync` | `sync_account` for one folder, with `imap_client` and `cache_db` under it, `mark_message` beside it, and the mailbox | `rows` = `messages`, `saved` = `folder_state`, `sync` = the locals of the running sync |
| `SendMail` | `send_mail`, `send_now`, `retry_send`, `undo_send`, `send_status`, `_send_worker`, the failure notice | `status` = `_pending_sends`, `thread` = the workers, `notice` = `_send_failure_notice` |
| `MailMoves` | deleting, archiving, moving, spam, undo, locking, bulk actions, folders and drafts of the web client, the REST API and the MCP tools | `exists`, `of`, `box` = the server's folders and copies, `rows`, `seen` = `messages` and the uidnexts of `folder_state`, `job` = the commands a request has still to send, `undo` = `undo_action`, `pref` = `spam_action_prefs`, `off` = requests about to turn the Spam action off |
| `Accounts` | login, second factor, trusted browsers, logout, API access, tokens, OAuth, push, the administrators', sign-up and provisioning requests, the mail API | `mem` = `_user_keys`, `sess` = the sessions, `user`, `account`, `domain` = the rows, `cache` = the key of the cache file, `served`, `mailbox` = Postfix and Dovecot, `desk` = a request that waits for the mail API |
| `Calendar` | `sync.py` into both caches, the reminder worker, invitations, replies, and every writing page, endpoint and tool | `dav` = the server, `cal`, `row` = `calendars` and `calendar_events` of each cache, `job` = a request between two calls, `fired` = `push_calendar_fired` |
| `Contacts` | `_sync_contacts`, the form, auto-save of recipients, REST and MCP twins, other clients | `srv` = the address book, `row` = `contacts`, `form` = the text of an open edit form, `synced` = `addressbook_state`, `job` = a request between two calls |
| `DocStore` | the document handlers, shares, editor tokens and saves through WOPI, `resync_docs`, conversions, drafts, the REST endpoints and the MCP tools | `row` = `documents`, `disk` = what the metadata in `content` or `meta.json` says, `share` = `doc_shares`, `editor`, `guests` = unexpired WOPI tokens, `undo` = `docs_folder_undo`, `todo` = the writes a handler has still to do |
| `Chat` | `apply_sync`, the event streams, `sync_now`, the push worker and its log, and the requests that write | `line` = the room at the homeserver, `row` = `chat_messages` and `chat_call_events`, `token` = `since_token`, `logged` = `chat_push_log`, `loop` = where each loop is and the token it sent |
| `ImportRunner` | the link's pages, Google's authorization, uploads in chunks, the import queue with its retries, the runner | `saved` = the checkpoint, `known` = `imported_messages`, `staged`, `upload`, `disk` = the upload, `queue`, `pendingImport` = the manager's, `work` = the runner's locals |
| `MailSyncProof`, `MailboxProof`, `ManagerProof` | the theorems about `SyncQueue` and `FolderSync`, about `MailMoves` and `SendMail`, and about `IdleWatch` and `ImportRunner` | - |
| `CalendarProof`, `ContactsProof`, `DocStoreProof`, `ChatProof`, `AccountsProof` | the theorems about the module each is named for | - |
| `MC...` | values for the constants of a module | - |

Steps are as large as the code's locks, waits and commits make them. gevent
switches greenlets only where one waits for the network; SQLite and files block
the process. So what a handler does between two calls of IMAP, SMTP, HTTP or a
lock is one action, and where it waits the rest is another action and its
locals are state (`job`, `desk`, `req`, `work`, `loop`). The MCP server is a
second process: where it matters (`DocStore`) writes of both interleave.

How the modules meet:

* `SyncQueue` does not look into a sync: it succeeds or fails. `FolderSync` does
  not look at who requested it and supposes one sync of its folder at a time,
  which is `OneTaskPerKey`.
* In `MailMoves` a sync of a folder is one step that fetches from the saved
  uidnext on, drops rows that are gone and purges what it saved of another
  mailbox under the name: `FolderSync` has its detail.
* The mail sync hands invitations and replies to `Calendar` as requests.
* The key that `SyncQueue` and `IdleWatch` see come and go is `mem` in
  `Accounts`.
* The queue of imports in `ImportRunner` is the same manager's second queue.

A proof module of two components extends both, so what both would name alike is
named apart in one of them: `FolderInit`, `FolderNext`, `FolderSpec`,
`FolderTypeOK` in `FolderSync`, `SendInit`, `SendNext`, `SendSpec`, `NoMail` in
`SendMail`, `ImportInit`, `ImportNext`, `ImportSpec`, `Absent`, `AtRest` in
`ImportRunner`. Nothing relates the two components of such a module.

Modelling decisions that a reader should know:

* Time is order only. `TimePasses` moves a delayed task to the due ones at any
  moment; a send worker's countdown may end at any moment; idle waits return at
  any moment; codes, links and reminders become due or expire at any moment.
* `IdleWatch` keeps the flags of accounts and of domains apart (`enabled`,
  `serving`), since arming and the background check look at the account's only
  and a thread at both. After a restart any of the users with a stored key may
  be armed: those who have a subscription left.
* `FolderSync` takes `box` from a server that other clients change. `aged` are
  messages older than `CACHE_DAYS`. The server cuts a session whose mailbox was
  recreated (`Live`, `Cut`). `Refused` names the commands that may answer NO,
  which the code takes for an empty answer; the runs use none. With `"fetch"`
  or `"search"` in it, `NoGap` and `RowsStay` do not hold: the code advances
  `uidnext` past a message it could not fetch, and deletes rows that a refused
  search does not name. The repository promises nothing for that case.
* In `SendMail` the SMTP dialogue is one step with three ends: taken, refused,
  taken with the answer lost.
* `MailMoves`: uids are unique over all folders, so a name that is used again
  gets fresh ones. The connection may fail at every command; a COPY, a RENAME
  and a DELETE may be refused. `spent` are messages whose COPY was refused (the
  code marks and expunges the original all the same), whose folder was deleted,
  or which were drafts that a save replaced. Where a report of spam finds no junk
  folder, or a refused keyword, it waits for the LOGOUT before it stores
  `auto_off`; `bare` are the requests that ran while there was no junk folder.
* `Accounts`: a call of the mail API has four ends: answered, refused, failed
  before or after it was carried out. A customer who is made anew gets the id
  of the deleted one, as SQLite gives it. `open_cache` replaces a file of
  another key only if the process has not opened that path before; both ends
  are possible at any time (`Opened`).
* `Calendar` and `Contacts`: a text is a number, and so is a title of a
  calendar, which stands for its name and colour. Conditional writes of the
  calendar repeat themselves once with the etag of the moment, so etags are
  left out there; those of contacts do not, so they are kept. The
  form of a contact is filled at one time (`ContactEditForm`) and sent at
  another, with the etag that the row has by then (`ContactEdit`). One uid names
  an event and its address on the server; `api_event_create` gives the address
  a random name of its own, which differs only where such an event moves to
  another calendar and back while a DELETE fails: the server then has it under
  two addresses, the model under one.
* A `DocStore` handler reads first and then writes row, file and shares one by
  one. The handler is an action that leaves its writes in `todo`, and each write
  is an action; only the other process runs in between, or this one ends. Of a
  row only `deleted_at` and `folder_path` are kept. What Collabora sends may
  hold any metadata, since it kept those of some earlier opening.
* `ImportRunner`: chunks of an upload end where messages end, so an unfinished
  upload that a retry imports has no message cut in two. The callback waits for
  Google and is one step, taken when it ends. What completes an import is three
  commits with the LOGOUT before the last (`CloseImport`, `CompleteImport`), and
  a failed run is given up before it is queued again (`Requeue`).
* `Chat`: positions of the timeline stand for event ids and for sync tokens. An
  answer has the last `Window` events.
* Ghost state, which no guard reads except to bound a run: `base` in
  `FolderSync` (the uidnext the last initial sync saved), `tries`, `accepted`,
  `unheard` and `shown` in `SendMail`, `calls` in `IdleWatch`, `spent`,
  `astray` and `bare` in `MailMoves`, `torn` and `solo` in `Accounts`, `writer` and
  `doubtful` in `DocStore`, `cut` in `Chat`, `kept`, `stir`, `mirror` and
  `rang` in `Calendar`, `asked` and `strayed` in `ImportRunner`, `calm` and
  `apart` in `Contacts`.

## 3. What the runs check

| Run | Checks | Shows |
|---|---|---|
| `sync_queue` | `TypeOK`, `OneTaskPerKey`, `PendingExact`, `PendingEnds`, `FailedIsRetried`, `ImplementsJobs` | claims and puts of two threads and the loop interleave with failures, back-off, logout and deactivation; a folder has one task, `_pending` is exact, nothing stays pending, failures are taken up again, and the queue implements `FolderJobs` with its fairness |
| `idle_watch` | `TypeOK`, `NoOrphanThread`, `InboxWatched`, `StoppedEnds` | two accounts, two folders, two thread ids: the registry names every thread that was not stopped, whatever the loop does with its stale list; switching takes the watcher from an account that push needs, and the background check gives it back |
| `folder_sync` | `FolderTypeOK`, `NoGap`, `OneEpoch`, `RowsStay` | arrivals, expunges, flag changes and one recreation between any two commands, and a sync that may stop anywhere |
| `folder_mark` | `Converges` | with mark requests writing stale flags beside it, the cache mirrors a mailbox that rests |
| `send_mail` | `TypeOK`, `OneSender`, `TruthTold`, `DraftOutlivesDoubt`, `SendEnds` | two messages and three workers under every mix of Send now, undo, retry, clean-up, lost answers and restarts |
| `moves` | `NoLoss`, `NoHidden`, `AutoOffConfirmed` | two requests overlap command by command, each failing anywhere, with syncs in between, on servers with and without a junk folder and its keyword: the message keeps a copy, the cache hides none, the Spam action goes off only where the keyword is refused or a junk folder was missing while the request ran |
| `accounts` | `KeysOpen`, `LiveIsServed` | administrators' overlapping requests beside a customer who logs in, uses API access, OAuth and push and logs out, with restarts: no kept key stops opening the account's secret while the password is the same; a domain that is on is served |
| `chat` | `TypeOK`, `NoGap`, `RungOnce` | a tab's stream, `sync_now` and the push worker move one token with answers late, repeated, cut short and applied in part |
| `calendar` | `SyncMirrors`, `NeverNowhere`, `PushedOnce` | requests, mail syncs, the reminder worker and other clients interleave at every call of the server: an undisturbed sync mirrors exactly, a change of calendar keeps the event somewhere, a reminder rings once |
| `contacts` | `InStep`, `EditsSeen`, `OneCard` | two requests and other clients interleave at every call of the server, and forms are sent long after they were filled: a patch replaces the text it was made from, a form that or the one in the row when it was sent, and no deleted contact is edited back; undisturbed requests keep the cache in step and addresses unique |
| `imports` | `OneCopy`, `Complete` | pages, uploads, queue and runner interleave with failures at every call, lost records and restarts: a message is copied once, and once more only for a lost record or restart; completed means complete |
| `docs` | `TypeOK`, `Recoverable`, `NoShareOfTrash`, `TrashSealed` | every request of two processes, editor save and guest save, lost caches, resyncs and process ends between two writes: what a resync would find agrees with the rows, the trash has no active share, and no guest writes into it |

Exceptions that a property makes are in its comment and are named in section 5
where the code falls short of a document of the repository.

### Bounds

* `SyncQueue`: one account with `INBOX` and a folder spelled in two ways. Two
  keys, one of them reached by two names, are enough for a key to be held by
  one thread while another claims, and for the queue to have an order; two
  requesters and the loop are three threads between lock and put. `MaxAttempt`
  is 2, so the counter is below, at and held at its cap. The proofs drop all of
  these bounds.
* `IdleWatch`: `MaxCalls` 4 bounds what users do: log in, arm, switch, log out
  is the longest story one thread takes part in. Two thread ids let a stopped
  thread and its successor be alive together; `Threshold` 2 reaches the give-up.
* `FolderSync`: two uids, two epochs: an old message below a new one, a message
  that arrives during a sync, a recreated mailbox that reuses the uid.
  `CacheMax` 1 makes the initial sync leave a message out, `ChunkSize` 1 makes
  the verification take several chunks. `folder_mark` has one uid, since
  liveness over two is too large; the mark race needs one.
* `SendMail`: two messages, three workers, two attempts each: two workers of
  one message (countdown and Send now) beside one of the other.
* `MailMoves`: one message with three copies: the one it arrived as, the one a
  move made, and the one an undo or a second move made. Two requests overlap;
  a request that treats several messages treats them one after another.
  `Guards` has one protecting flag. The proofs drop all of these bounds.
* `Accounts`: two passwords, one browser, two desks: a password that changes
  under a session, and two administrators' calls that overlap. `MaxAsked` 2
  requests of administrators happen before the customer has logged in,
  `MaxMet` 1 after; more makes the space of their products too large.
* `Chat`: three events with a window of two: an answer that leaves one out, an
  edit or redaction of an event between two others. One request is on its way
  at a time, and a room that was left is not entered again.
* `Calendar`: two addresses, one event, two requests and the worker, four
  things begun (requests, syncs, changes by others, lost marks, process ends),
  two texts: two overlapping changes of the event
  beside a sync and an end of the process, or a new title that races a sync.
  `NeverNowhere` excepts an event whose row the REST update misplaced until it
  is put anew where its rows are right: with more texts than two, an earlier
  form without that part of the ghost was refuted.
* `Contacts`: two contacts, one address, two requests at a time, five begun,
  four texts: two contacts compete for an address while a third party writes.
* `ImportRunner`: three runs, one break, a page of two messages, a file with a
  message twice and one that is junk, a second file that shares a message.
* `DocStore`: one document with two shares and two folders, two processes. A
  handler over several documents treats them one after another and none reads
  another's row; two shares let one be revoked, or open in an editor, while the
  other is active. `Undoubted` ends the search where the document comes into
  doubt, since no property speaks of it from then on.

`CHECK_DEADLOCK FALSE` stands where the modelled world may rest: in `SendMail`
when every message is finished, and in `MailMoves`, `Accounts`, `Calendar` and
`Contacts` when the bounded number of requests is spent.

### Fairness

Fairness is given to threads of the program and to the clock, never to users,
administrators, other mail clients or crashes. `SyncQueue`: the loop's thread
goes on (a sync ends because its sockets have timeouts), a thread between lock
and put goes on, a delay ends. `IdleWatch`: the loop, a handler that visits its
accounts, and a thread that has to end or whose wait returns (`idle_wait` has a
timeout). `FolderSync`: the loop requests the folder again and again, and
the steps of a sync and of a mark request are taken unless it stops; `Converges`
supposes that from some moment on only such steps happen. `SendMail`: a worker
thread goes on; the SMTP server answers or the connection ends. The other
modules state safety only: what they promise in the end waits for a user or an
administrator to ask again.

## 4. What is proved

`SyncQueue` (`MailSyncProof`), from `QueueAssumption` and `NoTaskAssumption` (every account
has an owner, every folder a lower-cased name, the loop is not a requester,
the retry schedule is not empty, `NoTask` is no task):

* `TypeCorrect`, `NoDuplicateTask`, `PendingIsExact`: `Spec => []P` for
  `TypeOK`, `OneTaskPerKey`, `PendingExact`.
* `QueueImplementsJobs`: `Spec => Jobs!Init /\ [][Jobs!Next]_vars`, the safety
  part of the refinement.

The inductive invariant is `IInv`, the conjunction of the three: alone, neither
is inductive. A `Claim` adds a task of a key that is not in `_pending`; that
there is no other task of the key follows only from `PendingExact`. `Drop`,
`SyncSucceeds` and `SyncFails` remove the key from `_pending`; that no task of
it remains follows only from `OneTaskPerKey`. The proof follows a task through
its places (`BeingPut`, `InDue`, `InLater`, `Busy`): one lemma per kind of move
(`ClaimKeeps`, `PutKeeps`, `TimePassesKeeps`, `TakeKeeps`, `ReleaseKeeps`,
`StillKeeps`) over lemmas about the key sets of sequences (`AppendKeys`,
`AppendDistinct`, `TailKeys`), then one step per action (`StepInv`). The
refinement shows each action to be an `Ask`, a `Start`, an `End` or a stutter
of `FolderJobs`, using the invariant for the guard of `Ask`.

`SendMail` (`MailboxProof`), from `SendAssumption` (`NoMail` is neither a message
nor a thread, at least one attempt is allowed):

* `TypeCorrect`, `DeliveredByOne`, `StatusIsTrue`: `SendSpec => []P` for
  `TypeOK`, `OneSender`, `TruthTold`; `DraftIsKept`: `SendSpec =>
  DraftOutlivesDoubt`.

The inductive invariant `SendInv` adds to `TypeOK` that no two workers deliver one
message (`Alone`), that a message is "sending" exactly while a worker delivers
it (`Counted`), and what the server confirmed of it at every status (`Ledger`)
and at every point of a worker (`Account`). `TruthTold` alone is not inductive:
"failed" is true only if the worker that says so met no confirmation and no
other worker of the message is behind it. Steps that no delivering worker takes
share `StillSends`, the steps of a delivery `OnwardKeeps`; `ReportKeeps` and
`CrashKeeps` are the two ways a delivery ends. `MaxTries` is a bound of the
model, not of the code; the theorems hold for all its values.

`Contacts` (`ContactsProof`), from `ContactsAssumption` (`None` is no uid, address, thread,
text or row; the bounds are numbers):

* `VersionsAreSound`: `Spec => []IInv`; `NothingUnread`: `Spec => EditsSeen`.
  Every version that a row, a form, a patch or a stored answer holds is
  `Sound`: it is not newer than the server's, and with the same number it is
  the server's text, which is what an etag promises. A PUT is sent with the
  etag of the version that the request found, which for a patch is the one it
  was made from and for a form that of the row when the form was sent (`Found`);
  `FormsOK` says that forms are `Sound` as well, but not that they are as new as
  the row. So a PUT that If-Match lets through (`MatchedIsBase`) replaces what
  the request found.
* `CacheInStep`: `Spec => []InStep`; `AddressesAreUnique`: `Spec => OneCard`.
  `InStep` is not inductive: a request that has written to the server has not
  written to the cache yet. `CalmInv` adds what holds while the two were not set
  `apart`: at most one request is under way and nobody wrote beside it
  (`AloneOK`), its listing is what the server has (`FreshOK`), the cache is as
  the server except for the one contact of a half-way request, whose row is
  what the request will make it (`CalmOK`, `AgreeOK`), and an address it looked
  up is still nobody else's (`ClaimsOK`).

`ImportRunner` (`ManagerProof`), from `ImportAssumption` (files and mailbox are
sequences of messages, Gmail lists an id once, pages are not empty):

* `CopiesAccounted`: `ImportSpec => []ImportInv`; `ImportedOnce`: `ImportSpec =>
  []OneCopy`.
  `OneCopy` is not inductive, since it does not say why the runner does not
  append what is there. `Accounted` gives every copy its cause: the record of
  its message, the append whose record is still to come, or a break. That a
  message about to be appended has no record is what `_message_imported` asks
  for in a file; in a mailbox it was asked once for the page, and `PageSeen`
  bridges the time since: only messages behind the runner were recorded, and
  ids are listed once.
* `CompletedHasAll`: `ImportSpec => []Complete`. `CompleteInv` adds why "completed"
  speaks of the run that was asked for last: there is one task at a time, and it
  is of the last run (`OneTask`); the file it reads is the one that was whole
  when it was asked for, since another upload drops the claim (`Whole`, `AskedOK`,
  `RunOK`); everything wanted before the runner's place, and before the cursor
  its run left, has its record (`PlaceOK`, `CursorOK`), and a record comes after
  its message (`Had`). Between the commit that ends the cursor and the one that
  says "completed", everything is there already (`BroughtOK`). The place of a Gmail run may be ahead of its cursor, never
  behind it, since the cursor is that of the page.

`IdleWatch` (`ManagerProof`), from `WatchAssumption` and `NoWatchAssumption` (`None` is no
watch):

* `TypeCorrect`; `NoThreadIsLost`: `Spec => []NoOrphanThread`. `_stop_idle` and
  `_ensure_idle` are functions of registry and threads that handlers apply in a
  row, so the proof is about these functions (`StopOK`, `EnsureOK`): both keep
  `PoolOK`, of which `NoOrphanThread` is a part (`Named`). `_ensure_idle` replaces
  an entry only where its thread serves the mailbox no more, and by `Named` no
  other thread then does. `Trying` says why the failures stay below the
  threshold, and `EnsureTwo` that two mailboxes need two threads at most.

`FolderSync` (`MailSyncProof`), from `SyncAssumption`, for any number of uids and epochs and
any sizes of page, chunk and cache:

* `FolderTypes`: `FolderSpec => []FolderTypeOK`.
* `CacheOfOneEpoch`: `FolderSpec => []OneEpoch`, if STATUS is never refused.
  `EpochInv` follows the UIDVALIDITY through a sync: what a sync read first
  (`SessionOK`), what it may suppose in each phase (`PhaseOK`), what is stored
  (`SavedOK`). `OneEpoch` alone does not say that a sync between its purge and
  its save still works in the epoch it will store.
* `RowsStayWithMessage`: `FolderSpec => RowsStay`, if neither STATUS nor SEARCH is
  refused.
* `NothingFallsThrough`: `FolderSpec => []NoGap`, if nothing is refused. `GapInv` adds
  that the sync knows of all old rows (`KnownOK`), that a message between the
  stored uidnext and the one it will store is among those it still fetches
  (`SoughtOK`) or has a row (`DoneOK`).

The three hypotheses are not for the proof's comfort. The code takes a refused
command for an empty answer (`imap_client.py:117`, `imap_sync.py:557`, `:835`),
and each property is false without its hypothesis; they are hazards of the
list. The runs make the same suppositions by their `Refused`.

`MailMoves` (`MailboxProof`), from `MovesAssumption` and `NoneAssumption` (`None` is neither
a folder nor a copy), for any number of messages, copies, folders, overlapping
requests and either kind of server:

* `NothingLost`: `Spec => []NoLoss`. Two requests may move one message at a
  time, and each may be about to mark the very copy the other has just made, so
  `NoLoss` is not inductive. `LaterCopy` is why it holds: a COPY gets a uid above
  all given ones, so a copy that is about to be marked has an unmarked one with a
  higher uid, and the latest copy is nobody's to mark. `StoreOK`, `PlacedOK` and
  `JobsOK` say that rows and copies are of given uids, in folders that exist, and
  that a request is a sequence of sound commands. That among the copies of a
  message there is a latest, or a least uid, is proved from the well-foundedness
  of the subset order on finite sets, without induction over an operator.
* `AutoOffOnlyWhenUnable`: `Spec => AutoOffConfirmed`. A request probes without
  blaming its connection only where the keyword was refused (`Sound`). The
  answer to LIST may be out of date when `auto_off` is stored, since the LOGOUT
  lies between; that the folder was missing at some time while the request ran
  is kept by `OffInv`: every request that runs while there is no junk folder is
  in `bare` (`BareOK`), and stays there until its worker takes another one, which
  is not before the commit (`OffOK`).
* `NothingHidden`: `Spec => []NoHidden`. `HiddenInv` adds to `IInv` what requests
  and cache know of each other. `SeenOK`: what the cache takes for fetched under
  a name has its row under that name, or is gone or `astray`; it speaks of names
  and not of places, since a folder is renamed on the server first and in the
  cache some steps later, and in between, or when the server refused, a sync may
  find another mailbox, or none, under either. `Drops`: the uids whose rows a
  request will drop are gone or `astray`. `Holds`: a copy that a request has
  copied and is about to mark is still in the folder it has selected, so the
  STORE marks it, or it is expunged; without that, dropping the row would hide a
  message whose STORE found nothing. Steps are sorted by what they do to copies,
  rows and `seen`: `Kept` (no copy moves), `RowsKept`, `Onward` (what requests
  gain), with one lemma for each kind.

`Calendar` (`CalendarProof`), from `CalendarAssumption` (the home calendar is one, the worker
is no request thread, the bounds are numbers) and `NoneAssumption`:

* `TypeCorrect`; `RingsOnce`: `Spec => []PushedOnce`. `RingOK` counts the mark
  that the worker is about to make for one that is made: it rings first.
* `EventsStay`: `Spec => []NeverNowhere`. A change of calendar is a PUT and then
  a DELETE. `MovesOK`: for an event that is kept the two calendars differ, the
  copy is there when the DELETE is due, and no other change of calendar of it is
  under way; without the last, the DELETE of one may remove the copy of another.
  `RowsOK`: the rows of a kept event are in the calendar of its href, which is
  where a change of calendar starts from.
* `MirrorExact`: `Spec => []SyncMirrors`. `Follows` says what a sync that nobody
  wrote beside has right at each of its points: the titles it was told (`Knows`),
  the collections it is done with (`Same`), its present one (`IsAt`) and its
  listing. A write of anyone else takes the hypothesis away (`stir`) from every
  sync at once, so only the sync's own steps remain to be proved.

`DocStore` (`DocStoreProof`), from `DocAssumption` (the documents are finitely
many, `Root` is no folder, `None` is no document, metadata or format), for any
number of documents, shares and folders:

* `DocTypes`, `FilesTellAll`, `TrashUnshared`: `Spec => []P` for `TypeOK`,
  `Recoverable`, `NoShareOfTrash`; `GuestsLocked`: `Spec => TrashSealed`.

Between the first and the last write of a handler row, file and shares disagree,
and a handler over a folder leaves a list of writes of any length, so nothing
that is said of the present state alone is inductive. `EndsWell` looks ahead:
with what a process has left in `todo`, a document ends with some row, with
metadata that agree with it as far as their writer knew (`RowEnds`, `FileEnds`)
and with its shares revoked if that is the trash (`ShareEnds`); the MCP process,
which does not revoke, leaves the trash alone (`TrashKept`). `Ends` says so of
every document that is not in doubt and that one process at most is at; two of
them at one document put it in doubt (`Apart`). With nothing left `EndsWell` is
`Quiet`, of which the three properties follow. A write keeps it as the look-ahead
of the shorter list (`StepKeeps`), and for each handler it is
shown of the list that it begins with: a handler over many documents does to each
what it would do to that one, in whatever order (`ForEachDone`), which follows
for lists of any length from a least counterexample, not from induction over an
operator. `Unmade` says that a document to come has left no trace yet.

`Chat` (`ChatProof`), from `ChatAssumption` (the loops are distinct, a window
holds an event, `None` is no membership):

* `ChatTypes`: `Spec => []TypeOK`; `NothingMissing`: `Spec => []NoGap`;
  `RungOnlyOnce`: `Spec => []RungOnce`.

`NoGap` speaks of the stored token only. A late answer moves that token back to
its own, so `GapInv` says the same of the token each loop has sent (`Gapless`):
an answer adds what happened between its two tokens, so what was gapless at the
first is at the second. Whether the room is joined depends on the last move
before a token; that an invitation precedes everything else (`InviteFirst`)
leaves no second kind of gap, and a request that changes rows has done so at the
homeserver (`ReqOK`). `RungOnce` needs that no two intents that wait name one
event (`Apart`). The rows after an answer are a recursive function of its
events; what it leaves (`AfterEvents`) is shown at the least position where it
would fail (`LeastNatural`).

`Accounts` (`AccountsProof`), from `AccountsAssumption` (the bounds are numbers,
`None` is no request), for any browsers, passwords and requests:

* `KeysAlwaysOpen`: `Spec => []KeysOpen`. The property compares each kept key with
  the secret. `KeysInv` says where all of them come from: the secret is under the
  key of the password it holds (`SecretOK`), the wrapped DEK is under itself
  (`WrapOK`), and whatever sessions, memory, cache, tokens, grants and the push
  store keep was derived from a password (`KeptOK`); so of one password there is
  one key.
* `LiveDomainsServed`: `Spec => []LiveIsServed`. A request changes the row and
  then tells the mail API. The one call that overlaps with none ends as the row
  is (`Heading`), all others have met one and set `torn` (`Overlaps`), and when
  no call is under way the domain is served as its row says (`Settled`). A
  deletion is the exception: its call ends before its row goes (`Leaving`).

The inductive invariant of each component was checked by TLC on small instances
before it was proved; the one of `DocStore` on all 1.4 million states of its run
and on a part of the states of two documents.

Only model-checked: every liveness property (`PendingEnds`, `FailedIsRetried`,
`InboxWatched`, `StoppedEnds`, `Converges`, `SendEnds`) and the fairness part of
`ImplementsJobs`, since fairness and ENABLED are beyond the prover. Every other
property of the runs is a theorem.

## 5. Where the code and its documents differ

Met while the modules were written. The modules do what the code does; a
property whose promise the code breaks in one of these ways excepts the case,
by a ghost or a hypothesis that its comment names. HLD is `HLD.md`; paths are
below `app/`.

Mail
* U4A.3a, "on folder open, always include the most recent page":
  `enqueue_sync` refuses the request while any sync of the folder is pending
  (`workers/manager.py:298`), and that one may not include the page.
* `disarm_push_user` (`workers/manager.py:262`) keeps an account that is active
  at that moment in `_push_armed_accounts`, against its docstring; the later
  logout takes it for push-armed and leaves its thread running.
* `imap_sync.py:806`, "the initial sync must not blast a notification for old
  mail": `UID n:*` (`:548`) matches the last message even below `n`, so one
  that the initial sync left out is announced by the next.
* U6.6d, a banner for a failed send: the notice (`helpers.py:947`) holds one
  token, so of two failures one is never shown.
* `move_message` marks and expunges the original even when its COPY was refused
  (`spent` in `MailMoves`).
* `api_bulk_flag` says "Changes are synced to the IMAP server"; it writes the
  row only.
* U9.5 lets the customer turn the Spam action off, and `spam.py:25` calls that
  sticky ("never auto-re-enabled"); a request under way that turns it off
  automatically writes `auto_off` over the choice (`DoTurnOff`), which the
  settings page turns on again by itself once there is a junk folder. A junk folder that is made between its LIST and
  its commit, which have the LOGOUT between them (`message.py:577`, `:593`),
  comes too late.
* Bulk requests expunge in the folder they selected last only; one that skipped
  every message expunges with nothing selected. Renaming and deleting folders in
  the web client ignores a refusal: the rows go, and come back with the next sync.
* A server says OK to a COPY and a STORE of a uid that is not there. Where the
  folder was renamed or made anew since the row was read, the API drops the row
  of a message that it did not move (`astray`).
* A replaced draft is deleted before the new one is appended, so a failure in
  between loses it; the row of a draft whose deletion failed is dropped all the
  same (`compose.py:605`, `:690`), which hides it (`astray`).

Accounts and keys
* U14.1 calls the DEK random; `generate_dek` is unreachable, the DEK is always
  derived from the password. Hence tokens stop working when the password
  changes (against U14.19), and a login with the changed password leaves
  wrapped DEK, tokens, grants and the push key on the old one. `KeysOpen`
  therefore speaks of keys of the present password.
* U14.6 asks for the password when API access is enabled; the code does not.
* The sign-up swallows errors of the mail API and uses its link up. Provisioning
  `add_domain` serves a domain whose row is inactive. Two changes of a domain at
  a time can leave Postfix opposite to the row (`torn`).
* U24.29: a subscription the push service refuses is disabled, but its stored
  key stays (`shared/push.py:155`).
* Of two logins around a change of password, the one that ends last stores its
  password, which may be the old one.
* An invitation that is checked while its domain is deleted writes an account
  whose domain is gone; deleting a domain leaves cache files.

Calendar
* A sync stores the hrefs of the listing as paths, unlike `discover_calendars`:
  from then on edits of these events fail and a deletion removes only the row,
  which the next sync brings back (against U12.18).
* `update_calendar_props` writes the name into XML as it is: a name with `&` or
  `<` is refused by the server, the cache keeps it, and the next sync undoes it.
* Calendars made in the pages or the API get a random uid; the next sync inserts
  them under another with the same href, which is unique: that sync and all
  after it fail (against U12.7, U12.8).
* The reminder worker opens the mail cache file with the calendar's schema;
  `open_cache` deletes the file on any error.
* A cancellation (U12.39a) is written to the cache only, and the next sync
  undoes it; SEQUENCE (U12.39) is not looked at on a second import.
* An invitation may overwrite an answer the customer gave while it was
  processed; a reply kept in the cache is overwritten when its push failed.
* The rescheduled event's reminder does not ring again. REST and MCP delete
  calendars from the cache only; the REST update with `calendar_id` stores the
  row in a calendar its href is not in, and drops rrule and status. Two
  opposite changes of calendar at a time lose the event.

Contacts
* U15.45, "via CardDAV DELETE + cache removal": REST and MCP delete the row
  only, and the next sync brings the contact back (`apart`). U11.12: the pages
  do send DELETE but drop the row even when it is refused, and offer no undo.
* U11.17: auto-save before the first sync, and two requests at a time, duplicate
  contacts; a creation whose answer is lost says it failed, and its repetition
  duplicates. U11.7: other vCard fields are not preserved. U11.6: no sync token.

* `contact_edit` takes the text from the form and the etag from the row as it is
  when the form is sent (`contacts.py:205`, `:243`): a change that a sync brought
  between is overwritten unread under a fresh etag. No document speaks of it;
  `EditsSeen` allows it and nothing else.

Documents
* U13.90, a folder "survives a cache reset/resync": `wopi_put_file`
  (`wopi.py:237`) embeds the metadata without folder and tags.
* U13.60j and U13.85c: deletion by REST and MCP neither revokes shares nor marks
  the file; renaming by them does not touch it; their uploads keep whatever
  metadata an ODF carries; MCP conversions and drafts write none.
* An editor still open on a document deleted for good writes the file again,
  which a resync brings back. Applying or discarding a draft accepts any
  document and deletes it for good without revoking its shares.

Chat
* `sync.py:4`, "All cache writes are idempotent ... safe": a late answer inserts
  again what was redacted or edited meanwhile.
* `push_log.py:4` and `streams.py:4` (U25.61): what is ingested when the process
  ends before the push is never rung, and neither is what the stream of a tab
  that just closed took. The loops do compete for the token: a late answer
  moves it back.
* `timeline.limited` is ignored: what a long answer leaves out is not asked for
  (`cut`).

Imports
* U10.6b, runs "can resume safely": a new run that is interrupted and retried
  goes on from the previous run's cursor, so it completes without the messages
  before it (`import_runner.py:135`; `strayed`). Without that exception
  `Complete` fails.
* U10.6b, "without duplicating messages": the append and its record are two
  commits; a lost answer or an end of the process between them duplicates.
* A restart leaves the status "running" or "queued" and refuses to start again;
  a retry imports an unfinished upload; completion deletes whatever upload is
  staged by then.

## 6. Plan

In order of the importance of what could go wrong:

1. `MailSync`, `SyncQueue` composed with `FolderSync`: one sync per folder at a
   time is what `FolderSync` supposes and `OneTaskPerKey` provides.
2. Backfill, receipts and unread counts beside `Chat`.
3. The mails that answer and send invitations beside `Calendar`; emptying a
   folder page by page beside `MailMoves`.

## 7. Not modelled

`PROJECT.json` gives a reason for every part left out. In short: text
conversions (search queries, vCard and iCalendar bodies, markdown, sanitizing),
cryptography as computation, presentation, the reading endpoints and tools, forms
over the shared database that are one transaction, DNS checks, schema
migrations, and the opening and keying of cache files (a cache that is lost and
made anew is an action of `DocStore` and `Contacts`). Server-sent events are
hints on which a page reads again.
