---------------------------- MODULE FolderSync ----------------------------
(***************************************************************************)
(* One folder of one mail account: the mailbox on the IMAP server, its     *)
(* copy in the per-user cache, sync_account                                *)
(* (app/modules/mail/services/imap_sync.py) that brings the copy up to     *)
(* date, and one web request that marks a message                          *)
(* (app/modules/mail/controllers/message.py) beside it.                    *)
(*                                                                         *)
(* Every IMAP command and every committed write to the cache is a step, so *)
(* the mailbox changes between any two of them; only a message's FETCH and *)
(* the insertion of its row are one step. A sync may stop at any step, as  *)
(* it does at an exception, a dropped connection or the end of the         *)
(* process: what it wrote stays. The server disconnects a session whose    *)
(* mailbox was recreated. Commands in Refused may answer NO, which the     *)
(* code reads as an empty answer.                                          *)
(*                                                                         *)
(* Messages are their uids; of a message's text nothing is kept.           *)
(* A definition named Slip... is the definition after it with one mistake. *)
(***************************************************************************)
EXTENDS Naturals, FiniteSets

CONSTANTS
  MaxUid, MaxEpoch,  \* the bounds on uids and on UIDVALIDITY
  Flags, Seen,       \* the flags a message can have, \Seen among them
  Markable,          \* those that mark requests set and clear
  CacheMax,          \* CACHE_MAX
  PageSize,          \* page_size
  ChunkSize,         \* the size of a verification chunk
  Refused,           \* the commands that may answer NO
  None

ASSUME SyncAssumption ==
  /\ MaxUid \in Nat \ {0} /\ MaxEpoch \in Nat \ {0}
  /\ Seen \in Flags /\ Markable \subseteq Flags
  /\ {CacheMax, PageSize, ChunkSize} \subseteq Nat \ {0}
  /\ Refused \subseteq {"status", "search", "fetch"}
  /\ None \notin Nat

Uids == 1..MaxUid
Epochs == 1..MaxEpoch
Marks == SUBSET Flags
Stages == {"scan", "purge", "forget", "unseen", "since", "fetch", "page", "new",
           "flags", "apply", "verify", "count", "save"}

Mapping(S, T) == UNION {[D -> T] : D \in SUBSET S}
Without(f, S) == [u \in DOMAIN f \ S |-> f[u]]
Newest(S, n) == {u \in S : Cardinality({v \in S : v > u}) < n}
Oldest(S, n) == {u \in S : Cardinality({v \in S : v < u}) < n}

VARIABLES
  epoch, next,  \* UIDVALIDITY and UIDNEXT of the mailbox
  box,          \* its messages: uid |-> flags
  aged,         \* those older than CACHE_DAYS
  rows,         \* the messages table: uid |-> flags, and the epoch of the message
  saved,        \* the folder_state row, or None
  unread,       \* unread_count of the folders row
  sync,         \* the running sync_account, or None
  base,         \* the uidnext that the last initial sync saved
  mark          \* the running mark request, or None

server == <<epoch, next, box, aged>>
cache == <<rows, saved, unread, base>>
folderVars == <<server, cache, sync, mark>>

NoStatus == [epoch |-> None, next |-> None, unseen |-> None]

FolderInit ==
  /\ epoch = 1 /\ next = 1 /\ box = <<>> /\ aged = {}
  /\ rows = <<>> /\ saved = None /\ unread = 0 /\ base = 1
  /\ sync = None /\ mark = None

-----------------------------------------------------------------------------
(* The mail server, and other clients of the mailbox. *)

\* A message is delivered, or stored with an old date by another client.
Arrive ==
  /\ next <= MaxUid
  /\ \E m \in Marks, old \in {{}, {next}} :
       /\ box' = [u \in DOMAIN box \union {next} |-> IF u = next THEN m ELSE box[u]]
       /\ aged' = aged \union old
  /\ next' = next + 1
  /\ UNCHANGED <<epoch, cache, sync, mark>>

\* A message is moved away or expunged, by this program's move and delete
\* requests too: they leave its row to the next sync.
Expunge ==
  /\ \E u \in DOMAIN box : box' = Without(box, {u}) /\ aged' = aged \ {u}
  /\ UNCHANGED <<epoch, next, cache, sync, mark>>

\* Another client changes flags.
Flagged ==
  /\ \E u \in DOMAIN box, m \in Marks : box' = [box EXCEPT ![u] = m]
  /\ UNCHANGED <<epoch, next, aged, cache, sync, mark>>

\* The mailbox is deleted and created again.
Recreate ==
  /\ epoch < MaxEpoch
  /\ epoch' = epoch + 1 /\ next' = 1 /\ box' = <<>> /\ aged' = {}
  /\ UNCHANGED <<cache, sync, mark>>

Unseen == {u \in DOMAIN box : Seen \notin box[u]}

-----------------------------------------------------------------------------
(* sync_account *)

At(stage) == sync # None /\ sync.stage = stage

\* The session still has the mailbox it selected, or has it no longer.
Live == sync.session = epoch
Cut == sync # None /\ sync.session \notin {None, epoch}

\* What the server answers when the truth is S.
Answers(command, S, refusal) == {S} \union (IF command \in Refused THEN {refusal} ELSE {})
Search(S) == Answers("search", S, {})

Goes(stage) == sync' = [sync EXCEPT !.stage = stage]

\* A sync starts: the key, the domain, the cache, the login and LIST are fine.
Begin ==
  /\ sync = None
  /\ \E page \in BOOLEAN :
       sync' = [stage |-> "scan", session |-> None, page |-> page, status |-> NoStatus,
                initial |-> FALSE, known |-> {}, todo |-> {}, added |-> {},
                left |-> {}, chunk |-> {}, got |-> <<>>]
  /\ UNCHANGED <<server, cache, mark>>

SlipChanged(status) == FALSE

\* Both the stored and the current UIDVALIDITY are known, and they differ.
Changed(status) ==
  saved # None /\ None \notin {saved.epoch, status.epoch} /\ saved.epoch # status.epoch

\* SELECT, STATUS and the stored folder state. None was stored or another
\* UIDVALIDITY: the rows, if any, are purged and the folder synced afresh.
Scan ==
  /\ At("scan")
  /\ \E status \in Answers("status",
          [epoch |-> epoch, next |-> next, unseen |-> Cardinality(Unseen)], NoStatus) :
       sync' = [sync EXCEPT
         !.session = epoch, !.status = status,
         !.initial = saved = None \/ Changed(status),
         !.known = IF saved = None \/ Changed(status) THEN {} ELSE DOMAIN rows,
         !.stage = CASE Changed(status) -> "purge"
                     [] saved = None /\ DOMAIN rows # {} -> "purge"
                     [] saved = None /\ DOMAIN rows = {} -> "unseen"
                     [] OTHER -> "new"]
  /\ UNCHANGED <<server, cache, mark>>

\* delete_messages_by_folder
Purge ==
  /\ At("purge")
  /\ rows' = <<>>
  /\ Goes(IF saved = None THEN "unseen" ELSE "forget")
  /\ UNCHANGED <<server, saved, unread, base, mark>>

\* delete_folder_state
Forget ==
  /\ At("forget")
  /\ saved' = None
  /\ Goes("unseen")
  /\ UNCHANGED <<server, rows, unread, base, mark>>

\* _sync_initial_folder: the unread messages, which are the unread count if
\* STATUS gave none,
SearchUnseen ==
  /\ At("unseen") /\ Live
  /\ \E found \in Search(Unseen) :
       sync' = [sync EXCEPT !.stage = "since", !.todo = found,
         !.status.unseen = IF @ = None THEN Cardinality(found) ELSE @]
  /\ UNCHANGED <<server, cache, mark>>

\* the newest recent ones,
SearchSince ==
  /\ At("since") /\ Live
  /\ \E found \in Search(DOMAIN box \ aged) :
       sync' = [sync EXCEPT !.stage = IF sync.page THEN "page" ELSE "fetch",
                            !.todo = @ \union Newest(found, CacheMax)]
  /\ UNCHANGED <<server, cache, mark>>

\* and on request the newest of all, as in _sync_incremental_folder after
\* the first round of fetches: known is what was cached before it.
SearchPage ==
  /\ At("page") /\ Live
  /\ \E found \in Search(DOMAIN box) :
       sync' = [sync EXCEPT !.stage = "fetch", !.page = FALSE,
                            !.todo = (@ \union Newest(found, PageSize)) \ sync.known]
  /\ UNCHANGED <<server, cache, mark>>

\* What a search from uidnext on matches: n:* covers the last message even
\* when its uid is below n.
From(n) == {u \in DOMAIN box : u >= n} \union Newest(DOMAIN box, 1)

\* _sync_incremental_folder: the uids from the stored uidnext on.
SearchNew ==
  /\ At("new")
  /\ Live \/ saved.next = None
  /\ \E found \in (IF saved.next = None THEN {{}} ELSE Search(From(saved.next))) :
       sync' = [sync EXCEPT !.stage = "fetch", !.todo = found \ sync.known]
  /\ UNCHANGED <<server, cache, mark>>

\* The row made of a message fetched with its flags.
Row(u) == [epoch |-> epoch, flags |-> box[u]]

\* upsert_message: the row of the uid is new, or takes the place of the old one.
Upserted(u, r) == [v \in DOMAIN rows \union {u} |-> IF v = u THEN r ELSE rows[v]]

\* The next message in order: fetched and its row upserted, or skipped when
\* the answer has none. An initial sync takes the recent messages first, then
\* the unread and the page.
Fetch ==
  /\ At("fetch") /\ sync.todo # {} /\ Live
  /\ \E u \in (IF sync.initial THEN sync.todo ELSE Oldest(sync.todo, 1)),
        ok \in Answers("fetch", TRUE, FALSE) :
       /\ sync' = [sync EXCEPT !.todo = @ \ {u},
            !.added = IF ok /\ u \in DOMAIN box THEN @ \union {u} ELSE @]
       /\ rows' = IF ok /\ u \in DOMAIN box THEN Upserted(u, Row(u)) ELSE rows
  /\ UNCHANGED <<server, saved, unread, base, mark>>

WantsPage == ~sync.initial /\ sync.page /\ Cardinality(sync.known) < PageSize

\* The round of fetches is over.
FetchDone ==
  /\ At("fetch") /\ sync.todo = {}
  /\ IF WantsPage
     THEN Goes("page")
     ELSE sync' = [sync EXCEPT !.page = FALSE, !.known = {}, !.left = sync.known,
                               !.stage = IF sync.known = {} THEN "count" ELSE "flags"]
  /\ UNCHANGED <<server, cache, mark>>

\* The rows known at the start are checked chunk by chunk: fetch_flags,
FetchFlags ==
  /\ At("flags") /\ Live
  /\ LET chunk == Oldest(sync.left, ChunkSize)
         there == [u \in chunk \intersect DOMAIN box |-> box[u]]
     IN  \E got \in Answers("fetch", there, <<>>) :
           sync' = [sync EXCEPT !.stage = "apply", !.chunk = chunk, !.got = got]
  /\ UNCHANGED <<server, cache, mark>>

\* update_flags_bulk,
ApplyFlags ==
  /\ At("apply")
  /\ rows' = [u \in DOMAIN rows |-> IF u \in DOMAIN sync.got
                                    THEN [rows[u] EXCEPT !.flags = sync.got[u]]
                                    ELSE rows[u]]
  /\ sync' = [sync EXCEPT !.stage = "verify", !.got = <<>>]
  /\ UNCHANGED <<server, saved, unread, base, mark>>

SlipVerifyKeeps ==
  /\ At("verify") /\ Live
  /\ sync' = [sync EXCEPT !.left = @ \ sync.chunk, !.chunk = {},
       !.stage = IF sync.left = sync.chunk THEN "count" ELSE "flags"]
  /\ UNCHANGED <<server, cache, mark>>

SlipVerifyAll ==
  /\ At("verify") /\ Live
  /\ \E found \in Search(sync.chunk \intersect DOMAIN box) :
       rows' = Without(rows, sync.left \ found)
  /\ sync' = [sync EXCEPT !.left = @ \ sync.chunk, !.chunk = {},
       !.stage = IF sync.left = sync.chunk THEN "count" ELSE "flags"]
  /\ UNCHANGED <<server, saved, unread, base, mark>>

\* and the rows that a search for the chunk's uids does not find are deleted.
Verify ==
  /\ At("verify") /\ Live
  /\ \E found \in Search(sync.chunk \intersect DOMAIN box) :
       rows' = Without(rows, sync.chunk \ found)
  /\ sync' = [sync EXCEPT !.left = @ \ sync.chunk, !.chunk = {},
       !.stage = IF sync.left = sync.chunk THEN "count" ELSE "flags"]
  /\ UNCHANGED <<server, saved, unread, base, mark>>

\* The unread count is the one STATUS gave at the scan, else one found now.
\* An incremental sync that added rows to INBOX now pushes new_mail.
Count ==
  /\ At("count")
  /\ \/ sync.status.unseen # None /\ unread' = sync.status.unseen
     \/ sync.status.unseen = None /\ Live
          /\ \E found \in Search(Unseen) : unread' = Cardinality(found)
  /\ Goes("save")
  /\ UNCHANGED <<server, rows, saved, base, mark>>

SlipSaveTooFar ==
  /\ At("save")
  /\ saved' = [epoch |-> sync.status.epoch, next |-> sync.status.next + 1]
  /\ base' = IF sync.initial THEN sync.status.next ELSE base
  /\ sync' = None
  /\ UNCHANGED <<server, rows, unread, mark>>

SlipSaveLate ==
  /\ At("save")
  /\ saved' = [epoch |-> sync.status.epoch, next |-> next]
  /\ base' = IF sync.initial THEN sync.status.next ELSE base
  /\ sync' = None
  /\ UNCHANGED <<server, rows, unread, mark>>

\* upsert_folder_state with the UIDVALIDITY and UIDNEXT of the scan.
Save ==
  /\ At("save")
  /\ saved' = [epoch |-> sync.status.epoch, next |-> sync.status.next]
  /\ base' = IF sync.initial THEN sync.status.next ELSE base
  /\ sync' = None
  /\ UNCHANGED <<server, rows, unread, mark>>

\* An exception or the end of the process.
Fail ==
  /\ sync # None
  /\ sync' = None
  /\ UNCHANGED <<server, cache, mark>>

-----------------------------------------------------------------------------
(* mark_message, flag_message and lock_message *)

\* The request reads the row.
MarkBegin ==
  /\ mark = None
  /\ \E u \in DOMAIN rows, f \in Markable, add \in BOOLEAN :
       mark' = [uid |-> u, epoch |-> rows[u].epoch, flag |-> f, add |-> add,
                seen |-> rows[u].flags, stored |-> FALSE]
  /\ UNCHANGED <<server, cache, sync>>

WithMark(m) == IF mark.add THEN m \union {mark.flag} ELSE m \ {mark.flag}

\* STORE, to whatever message has the uid now.
MarkStore ==
  /\ mark # None /\ ~mark.stored
  /\ box' = [u \in DOMAIN box |-> IF u = mark.uid THEN WithMark(box[u]) ELSE box[u]]
  /\ mark' = [mark EXCEPT !.stored = TRUE]
  /\ UNCHANGED <<epoch, next, aged, cache, sync>>

\* update_flags of that row, from the flags read at the start.
MarkWrite ==
  /\ mark # None /\ mark.stored
  /\ rows' = [u \in DOMAIN rows |->
       IF u = mark.uid /\ rows[u].epoch = mark.epoch
       THEN [rows[u] EXCEPT !.flags = WithMark(mark.seen)] ELSE rows[u]]
  /\ mark' = None
  /\ UNCHANGED <<server, saved, unread, base, sync>>

\* A STORE that the server refuses or a connection that breaks ends the request
\* before it writes the row.
MarkFails ==
  /\ mark # None
  /\ mark' = None
  /\ UNCHANGED <<server, cache, sync>>

-----------------------------------------------------------------------------
Server == Arrive \/ Expunge \/ Flagged \/ Recreate

Work == Scan \/ Purge \/ Forget \/ SearchUnseen \/ SearchSince \/ SearchPage
        \/ SearchNew \/ Fetch \/ FetchDone \/ FetchFlags \/ ApplyFlags \/ Verify
        \/ Count \/ Save

Marking == MarkBegin \/ MarkStore \/ MarkWrite \/ MarkFails

FolderNext == Server \/ Begin \/ Work \/ Fail \/ Marking

\* The loop requests a sync of the folder again and again, and a thread that
\* is not stopped takes its next step; an answer from a session that is gone
\* is an exception.
FolderFairness ==
  /\ WF_folderVars(Begin) /\ WF_folderVars(Work)
  /\ WF_folderVars(Cut /\ Fail)
  /\ WF_folderVars(MarkStore) /\ WF_folderVars(MarkWrite)

FolderSpec == FolderInit /\ [][FolderNext]_folderVars /\ FolderFairness

-----------------------------------------------------------------------------
States == [epoch : Epochs \union {None}, next : 1..(MaxUid + 1) \union {None}]

SyncStates ==
  [stage : Stages, session : Epochs \union {None}, page : BOOLEAN,
   status : [epoch : Epochs \union {None}, next : 1..(MaxUid + 1) \union {None},
             unseen : 0..MaxUid \union {None}],
   initial : BOOLEAN, known : SUBSET Uids, todo : SUBSET Uids, added : SUBSET Uids,
   left : SUBSET Uids, chunk : SUBSET Uids, got : Mapping(Uids, Marks)]

\* Type invariant.
FolderTypeOK ==
  /\ epoch \in Epochs /\ next \in 1..(MaxUid + 1)
  /\ box \in Mapping(1..(next - 1), Marks) /\ aged \subseteq DOMAIN box
  /\ rows \in Mapping(Uids, [epoch : Epochs, flags : Marks])
  /\ saved \in States \union {None}
  /\ unread \in 0..MaxUid /\ base \in 1..(MaxUid + 1) \union {None}
  /\ sync = None \/ sync \in SyncStates
  /\ mark = None
     \/ mark \in [uid : Uids, epoch : Epochs, flag : Flags, add : BOOLEAN, seen : Marks,
                  stored : BOOLEAN]

Current == saved # None /\ saved.epoch = epoch

\* No message falls through: whatever arrived after the initial sync and is
\* below the stored uidnext, where no later sync looks for new mail, has a
\* row while it is on the server.
NoGap ==
  Current => \A u \in DOMAIN box : base <= u /\ u < saved.next => u \in DOMAIN rows

\* The rows of a folder with a stored state are messages of the UIDVALIDITY
\* stored with it, so a uid of the cache never names another message.
OneEpoch ==
  saved # None => \A u \in DOMAIN rows : rows[u].epoch = saved.epoch

\* A sync, failed ones included, takes no row from the cache whose message
\* is still in the mailbox, but those of an initial sync that did not end.
RowsStay ==
  [][\A u \in DOMAIN rows :
       u \in DOMAIN box /\ rows[u].epoch = epoch /\ saved # None => u \in DOMAIN rows']_folderVars

Mirrored ==
  /\ saved # None /\ saved.epoch = epoch
  /\ \A u \in DOMAIN rows : u \in DOMAIN box /\ rows[u] = Row(u)
  /\ \A u \in DOMAIN box : u >= base => u \in DOMAIN rows
  /\ unread = Cardinality(Unseen)

Undisturbed == Begin \/ Work \/ (Cut /\ Fail) \/ MarkStore \/ MarkWrite

\* Once the mailbox rests and syncs stop failing, the cache comes to mirror
\* it for good: flags, expunged messages, new ones and the unread count.
Converges == <>[][Undisturbed]_folderVars => <>[]Mirrored

=============================================================================
