----------------------------- MODULE MailMoves -----------------------------
(***************************************************************************)
(* Moving the messages of one account between folders: the requests of the *)
(* web client (app/modules/mail/controllers message.py, bulk.py,           *)
(* mailbox.py), of the REST API (app/api/controllers/mail.py) and of the   *)
(* MCP tools (app/mcp/tools/mail.py) that delete, archive, move, report as *)
(* spam, undo, lock and save messages and that rename and delete folders,  *)
(* beside a sync that brings the cache up to date (FolderSync has its      *)
(* detail; here it is one step).                                           *)
(*                                                                         *)
(* A request reads the cached row of its message and then sends IMAP       *)
(* commands; other requests run between any two. It is a job: the commands *)
(* and cache writes still to do, each an action. The connection may fail   *)
(* at every command, and the server may refuse a COPY, a RENAME and a      *)
(* DELETE. Copies have uids that are unique over all folders: a folder     *)
(* name that is used again gets fresh uids.                                *)
(*                                                                         *)
(* A definition named Slip... is the definition after it with one mistake. *)
(***************************************************************************)
EXTENDS Naturals, Sequences

CONSTANTS
  Msgs,      \* messages, by their Message-ID
  Workers,   \* requests at once, of the web process and of the MCP server
  MaxUid,    \* the bound on copies
  MaxAsked,  \* the bound on requests
  Inbox, Trash, Deleted, Junk, Archive, Drafts,
  Others,    \* folders that are not system folders
  Goals,     \* the folders that requests move messages to
  Servers,   \* servers: the folders they have at first, beside Inbox, Drafts and Others,
             \* and whether they take the Junk keyword
  Guards,    \* flags that protect: $Locked, and \Flagged with protect_starred on
  None

ASSUME MovesAssumption ==
  /\ MaxUid \in Nat \ {0} /\ MaxAsked \in Nat
  /\ None \notin Msgs
  /\ Goals \subseteq {Inbox, Trash, Deleted, Junk, Archive, Drafts} \union Others
  /\ Servers \subseteq [folders : SUBSET {Trash, Deleted, Junk}, keyword : BOOLEAN]
  /\ "junk" \notin Guards /\ "gone" \notin Guards

System == {Inbox, Trash, Junk, Drafts}
Folders == System \union {Deleted, Archive} \union Others
Uids == 1..MaxUid
Flags == Guards \union {"junk", "gone"}  \* the Junk keyword and \Deleted
Rows == [folder : Folders, uid : Uids, flags : SUBSET Flags]

\* None is neither a folder nor a copy.
ASSUME NoneAssumption == None \notin Folders \union [folder : Folders, flags : SUBSET Flags]

VARIABLES
  exists,   \* the folders on the server
  of,       \* uid |-> its message, None before it is given
  box,      \* uid |-> folder and flags of the copy, None once expunged
  rows,     \* the messages table
  seen,     \* <<folder, uid>> below the uidnext that the cache saved for the folder
  job,      \* worker |-> its request
  asked,    \* requests so far
  undo,     \* undo_action of the session
  pref,     \* the account's entry in spam_action_prefs
  keyword,  \* whether the server takes the Junk keyword
  off,      \* workers that found the server unable and will turn the action off
  spent,    \* messages whose COPY was refused, whose folder was deleted or
            \* whose draft was replaced or deleted
  astray,   \* uids that a COPY did not find in its folder, and those of drafts
            \* whose row the composer dropped
  bare      \* workers whose request has run while the server had no junk folder

cache == <<rows, seen>>
user == <<undo, pref, keyword, off>>
ghost == <<spent, astray, bare>>
vars == <<exists, of, box, cache, job, asked, user, ghost>>

Free == [todo |-> <<>>, sel |-> None, copied |-> 0, done |-> {}]

Init ==
  /\ \E s \in Servers : exists = {Inbox, Drafts} \union Others \union s.folders /\ keyword = s.keyword
  /\ of = [u \in Uids |-> None]
  /\ box = [u \in Uids |-> None]
  /\ rows = {} /\ seen = {}
  /\ job = [w \in Workers |-> Free]
  /\ asked = 0
  /\ undo = None
  /\ pref = "on" /\ off = {}
  /\ spent = {} /\ astray = {} /\ bare = {}

Given(u) == of[u] # None
Fresh(u) == ~Given(u) /\ \A v \in 1..(u - 1) : Given(v)
InFolder(u, f) == box[u] # None /\ box[u].folder = f
Alive(u) == box[u] # None /\ "gone" \notin box[u].flags

-----------------------------------------------------------------------------
(* Commands of a job *)

Select(f) == [do |-> "select", folder |-> f]
Create(f) == [do |-> "create", folder |-> f]
EnsureTrash == [do |-> "trash"]
Move(u, f) == [do |-> "move", uid |-> u, folder |-> f]  \* f = None: the trash of EnsureTrash
Mark(u, g, on, strict) == [do |-> "mark", uid |-> u, flag |-> g, on |-> on, strict |-> strict]
Expunge == [do |-> "expunge"]
ApiExpunge == [do |-> "expunge", of |-> "api"]  \* of the API's bulk requests
McpExpunge == [do |-> "expunge", of |-> "mcp"]  \* of the tools' bulk requests
Drop == [do |-> "drop"]
Note(r, F) == [do |-> "note", row |-> [r EXCEPT !.flags = F]]
Token(t) == [do |-> "token", undo |-> t]
ListJunk(u) == [do |-> "list", uid |-> u]
Keyword(u) == [do |-> "keyword", uid |-> u]
Probe(u, lost) == [do |-> "probe", uid |-> u, lost |-> lost]
Find(t) == [do |-> "find", undo |-> t]
Item(r, act, f) == [do |-> "item", row |-> r, act |-> act, folder |-> f]
Save(m) == [do |-> "append", msg |-> m]
Forget(r) == [do |-> "forget", row |-> r]
Rename(f, g, strict) == [do |-> "rename", folder |-> f, to |-> g, strict |-> strict]
RenameRows(f, g) == [do |-> "rename_rows", folder |-> f, to |-> g]
Delete(f, strict) == [do |-> "delete", folder |-> f, strict |-> strict]
DeleteRows(f) == [do |-> "delete_rows", folder |-> f]

At(w, c) == job[w].todo # <<>> /\ Head(job[w].todo).do = c
Cmd(w) == Head(job[w].todo)
Left(w) == Tail(job[w].todo)

\* A job without commands is over.
Ready(j) == IF j.todo = <<>> THEN Free ELSE j
Goes(w, todo) == job' = [job EXCEPT ![w] = Ready([@ EXCEPT !.todo = todo])]

\* What is still done after an exception: the bulk requests of the API go on
\* after a failing move, those of the tools with the next message, and past a
\* failing EXPUNGE; the web client drops the row of an old draft, and saves the
\* new one, whether or not it deleted the old one.
Rescue(w) ==
  LET t == job[w].todo
      in(c) == \E i \in DOMAIN t : t[i] = c
      later == {i \in 2..Len(t) : t[i].do \in {"select", "expunge"}}
      forget == {i \in 2..Len(t) : t[i].do = "forget"}
  IN  IF \/ Head(t) = McpExpunge \/ Head(t).do = "forget"
         \/ Head(t).do = "move" /\ in(ApiExpunge)
      THEN Tail(t)
      ELSE IF forget # {} THEN SubSeq(t, CHOOSE i \in forget : TRUE, Len(t))
      ELSE IF Head(t).do = "create" \/ ~in(McpExpunge) THEN <<>>
      ELSE SubSeq(t, CHOOSE i \in later : \A k \in later : i <= k, Len(t))

Raises(w) ==
  /\ LET j == job[w]
     IN  job' = [job EXCEPT ![w] = Ready([j EXCEPT !.todo = Rescue(w), !.copied = 0,
                                          !.sel = IF At(w, "select") THEN None ELSE j.sel])]
  /\ UNCHANGED <<exists, of, box, cache, user, ghost, asked>>

\* The connection fails, or another error, before the next command.
Fail(w) == job[w].todo # <<>> /\ Raises(w)

\* select_folder
DoSelect(w) ==
  /\ At(w, "select")
  /\ IF Cmd(w).folder \in exists
     THEN /\ job' = [job EXCEPT ![w].todo = Left(w), ![w].sel = Cmd(w).folder]
          /\ UNCHANGED <<exists, of, box, cache, user, ghost, asked>>
     ELSE Raises(w)

\* create_folder; an answer NO is not looked at.
DoCreate(w) ==
  /\ At(w, "create")
  /\ exists' = exists \union {Cmd(w).folder}
  /\ Goes(w, Left(w))
  /\ UNCHANGED <<of, box, cache, user, ghost, asked>>

\* The trash of the API: Trash, else Deleted, else a new Trash.
DoTrash(w) ==
  /\ At(w, "trash")
  /\ LET t == IF Trash \notin exists /\ Deleted \in exists THEN Deleted ELSE Trash
     IN  /\ exists' = exists \union {t}
         /\ Goes(w, [i \in DOMAIN Left(w) |->
                       IF Left(w)[i].do = "move" THEN Move(Left(w)[i].uid, t) ELSE Left(w)[i]])
  /\ UNCHANGED <<of, box, cache, user, ghost, asked>>

\* The COPY of move_message, of a copy that is there, may be refused; of one
\* that is not it does nothing. Its answer is not looked at.
DoCopy(w) ==
  /\ At(w, "move") /\ job[w].copied = 0
  /\ LET u == Cmd(w).uid
         f == Cmd(w).folder
     IN  /\ job' = [job EXCEPT ![w].copied = u]
         /\ \/ /\ InFolder(u, job[w].sel) /\ f \in exists
               /\ \E v \in Uids :
                    /\ Fresh(v)
                    /\ of' = [of EXCEPT ![v] = of[u]]
                    /\ box' = [box EXCEPT ![v] = [folder |-> f, flags |-> box[u].flags]]
               /\ UNCHANGED spent
            \/ /\ InFolder(u, job[w].sel)
               /\ spent' = spent \union {of[u]}
               /\ UNCHANGED <<of, box>>
            \/ /\ ~InFolder(u, job[w].sel)
               /\ UNCHANGED <<of, box, spent>>
         /\ astray' = IF InFolder(u, job[w].sel) THEN astray ELSE astray \union {u}
  /\ UNCHANGED <<exists, cache, user, asked, bare>>

Flagged(u, g, on) ==
  [box EXCEPT ![u].flags = IF on THEN @ \union {g} ELSE @ \ {g}]

SlipDoStore(w) ==
  /\ At(w, "move") /\ job[w].copied # 0
  /\ LET j == job[w]
         u == j.copied
     IN  /\ box' = [v \in Uids |-> IF InFolder(v, job[w].sel) /\ of[v] = of[u]
                                  THEN [box[v] EXCEPT !.flags = @ \union {"gone"}] ELSE box[v]]
         /\ job' = [job EXCEPT ![w] =
                      Ready([j EXCEPT !.todo = Left(w), !.copied = 0, !.done = j.done \union {u}])]
  /\ UNCHANGED <<exists, of, cache, user, ghost, asked>>

\* Its STORE +FLAGS (\Deleted).
DoStore(w) ==
  /\ At(w, "move") /\ job[w].copied # 0
  /\ LET j == job[w]
         u == j.copied
     IN  /\ box' = IF InFolder(u, job[w].sel) THEN Flagged(u, "gone", TRUE) ELSE box
         /\ job' = [job EXCEPT ![w] =
                      Ready([j EXCEPT !.todo = Left(w), !.copied = 0, !.done = j.done \union {u}])]
  /\ UNCHANGED <<exists, of, cache, user, ghost, asked>>

\* set_flag; a server without the keyword answers BAD, which only a strict one minds.
DoMark(w) ==
  /\ At(w, "mark")
  /\ LET c == Cmd(w)
         takes == c.flag # "junk" \/ keyword
     IN  IF c.strict /\ ~takes THEN Raises(w)
         ELSE /\ box' = IF takes /\ InFolder(c.uid, job[w].sel)
                        THEN Flagged(c.uid, c.flag, c.on) ELSE box
              /\ spent' = IF c.flag = "gone" THEN spent \union {of[c.uid]} ELSE spent
              /\ Goes(w, Left(w))
              /\ UNCHANGED <<exists, of, cache, user, asked, astray, bare>>

\* EXPUNGE of the selected folder; imaplib raises when none is selected.
DoExpunge(w) ==
  /\ At(w, "expunge")
  /\ IF job[w].sel = None THEN Raises(w)
     ELSE /\ box' = [u \in Uids |-> IF InFolder(u, job[w].sel) /\ ~Alive(u) THEN None ELSE box[u]]
          /\ Goes(w, Left(w))
          /\ UNCHANGED <<exists, of, cache, user, ghost, asked>>

\* delete_message_by_id of the rows whose messages were moved.
DoDrop(w) ==
  /\ At(w, "drop")
  /\ rows' = {r \in rows : r.uid \notin job[w].done}
  /\ Goes(w, Left(w))
  /\ UNCHANGED <<exists, of, box, seen, user, ghost, asked>>

\* delete_messages_by_uids of a draft's row
DoForget(w) ==
  /\ At(w, "forget")
  /\ LET r == Cmd(w).row
     IN  /\ rows' = {x \in rows : x.uid # r.uid \/ x.folder # r.folder}
         /\ astray' = astray \union {r.uid}
  /\ Goes(w, Left(w))
  /\ UNCHANGED <<exists, of, box, seen, user, spent, bare, asked>>

\* update_flags
DoNote(w) ==
  /\ At(w, "note")
  /\ LET n == Cmd(w).row
     IN  rows' = {IF r.uid = n.uid /\ r.folder = n.folder THEN n ELSE r : r \in rows}
  /\ Goes(w, Left(w))
  /\ UNCHANGED <<exists, of, box, seen, user, ghost, asked>>

\* The response sets the session's cookie.
DoToken(w) ==
  /\ At(w, "token")
  /\ undo' = Cmd(w).undo
  /\ Goes(w, Left(w))
  /\ UNCHANGED <<exists, of, box, cache, pref, keyword, off, ghost, asked>>

\* append_message, which creates the folder when the first try fails.
DoAppend(w) ==
  /\ At(w, "append")
  /\ \E v \in Uids :
       /\ Fresh(v)
       /\ of' = [of EXCEPT ![v] = Cmd(w).msg]
       /\ box' = [box EXCEPT ![v] = [folder |-> Drafts, flags |-> {}]]
  /\ exists' = exists \union {Drafts}
  /\ Goes(w, Left(w))
  /\ UNCHANGED <<cache, user, ghost, asked>>

\* The LIST of report_spam: without a junk folder the action is to be turned off.
DoListJunk(w) ==
  /\ At(w, "list")
  /\ IF Junk \in exists
     THEN Goes(w, <<Keyword(Cmd(w).uid), Move(Cmd(w).uid, Junk), Expunge>> \o Left(w))
          /\ UNCHANGED off
     ELSE Goes(w, <<>>) /\ off' = off \union {w}
  /\ UNCHANGED <<exists, of, box, cache, undo, pref, keyword, ghost, asked>>

\* Its STORE of the Junk keyword: a refusal, or a failing connection, leads to
\* _uid_exists.
DoKeyword(w) ==
  /\ At(w, "keyword")
  /\ LET u == Cmd(w).uid
     IN  \/ /\ keyword
            /\ box' = IF InFolder(u, job[w].sel) THEN Flagged(u, "junk", TRUE) ELSE box
            /\ Goes(w, Left(w))
         \/ /\ \/ ~keyword /\ Goes(w, <<Probe(u, FALSE)>>)
               \/ Goes(w, <<Probe(u, TRUE)>>)
            /\ UNCHANGED box
  /\ UNCHANGED <<exists, of, cache, user, ghost, asked>>

SlipDoProbe(w) ==
  /\ At(w, "probe")
  /\ off' = IF Cmd(w).lost \/ InFolder(Cmd(w).uid, job[w].sel) THEN off \union {w} ELSE off
  /\ Goes(w, <<>>)
  /\ UNCHANGED <<exists, of, box, cache, undo, pref, keyword, ghost, asked>>

\* _uid_exists: only a message that is still there, on a connection that still
\* answers, proves the server unable.
DoProbe(w) ==
  /\ At(w, "probe")
  /\ off' = IF ~Cmd(w).lost /\ InFolder(Cmd(w).uid, job[w].sel) THEN off \union {w} ELSE off
  /\ Goes(w, <<>>)
  /\ UNCHANGED <<exists, of, box, cache, undo, pref, keyword, ghost, asked>>

\* set_spam_auto_disabled and its commit, after the web client's LOGOUT; they
\* may fail.
DoTurnOff(w) ==
  /\ w \in off
  /\ off' = off \ {w}
  /\ pref' \in {pref, "auto_off"}
  /\ UNCHANGED <<exists, of, box, cache, job, undo, keyword, ghost, asked>>

\* The search of undo_message_action in the selected folder: the newest match
\* goes back, its Junk keyword as it was.
DoFind(w) ==
  /\ At(w, "find")
  /\ LET t == Cmd(w).undo
         found == {u \in Uids : InFolder(u, job[w].sel) /\ of[u] = t.msg}
         Back(u) == (IF t.type \in {"junk", "not_spam"}
                     THEN <<Mark(u, "junk", t.type = "not_spam", FALSE)>> ELSE <<>>)
                    \o <<Move(u, t.source), Expunge, Token(None)>>
     IN  IF found = {} THEN Goes(w, <<Token(None)>>)
         ELSE \E u \in found : (\A v \in found : v <= u) /\ Goes(w, Back(u))
  /\ UNCHANGED <<exists, of, box, cache, user, ghost, asked>>

Protected(r) == r.flags \cap Guards # {}

\* One message of bulk_action, whose row is read when its turn comes.
DoItem(w) ==
  /\ At(w, "item")
  /\ LET c == Cmd(w)
         now == {r \in rows : r.uid = c.row.uid /\ r.folder = c.row.folder}
         skips(r) == Protected(r) /\ (c.act = "delete" \/ c.folder = Trash)
         does(r) == CASE c.act = "delete" -> <<Move(r.uid, Trash)>>
                      [] c.act = "move" -> <<Move(r.uid, c.folder)>>
                      [] OTHER -> <<Mark(r.uid, c.act, TRUE, TRUE), Note(r, r.flags \union {c.act})>>
     IN  \/ /\ now = {} \/ \E r \in now : skips(r)
            /\ Goes(w, Left(w))
         \/ \E r \in now :
              /\ ~skips(r)
              /\ Goes(w, <<Select(r.folder)>> \o does(r) \o Left(w))
  /\ UNCHANGED <<exists, of, box, cache, user, ghost, asked>>

\* Requests that are under way when a folder goes see a server without it.
Bares == bare' = IF Junk \in exists' THEN bare ELSE Workers

\* Connections that have folder f selected have g selected then, or nothing.
Follow(w, f, g) ==
  LET at(x) == [job[x] EXCEPT !.sel = IF @ = f THEN g ELSE @]
  IN  job' = [x \in Workers |-> IF x = w THEN Ready([at(x) EXCEPT !.todo = Left(w)]) ELSE at(x)]

\* RENAME; only the API looks whether the server answered NO.
DoRename(w) ==
  /\ At(w, "rename")
  /\ LET c == Cmd(w)
     IN  \/ /\ c.folder \in exists /\ c.to \notin exists
            /\ exists' = (exists \ {c.folder}) \union {c.to}
            /\ box' = [u \in Uids |-> IF InFolder(u, c.folder)
                                      THEN [box[u] EXCEPT !.folder = c.to] ELSE box[u]]
            /\ Follow(w, c.folder, c.to)
            /\ Bares
         \/ /\ Goes(w, IF c.strict THEN <<>> ELSE Left(w))
            /\ UNCHANGED <<exists, box, bare>>
  /\ UNCHANGED <<of, cache, user, spent, astray, asked>>

SlipDoRenameRows(w) ==
  /\ At(w, "rename_rows")
  /\ seen' = {<<IF k[1] = Cmd(w).folder THEN Cmd(w).to ELSE k[1], k[2]>> : k \in seen}
  /\ Goes(w, Left(w))
  /\ UNCHANGED <<exists, of, box, rows, user, ghost, asked>>

\* rename_folder_in_cache
DoRenameRows(w) ==
  /\ At(w, "rename_rows")
  /\ LET name(f) == IF f = Cmd(w).folder THEN Cmd(w).to ELSE f
     IN  /\ rows' = {[r EXCEPT !.folder = name(@)] : r \in rows}
         /\ seen' = {<<name(k[1]), k[2]>> : k \in seen}
  /\ Goes(w, Left(w))
  /\ UNCHANGED <<exists, of, box, user, ghost, asked>>

\* DELETE, with the messages in the folder.
DoDelete(w) ==
  /\ At(w, "delete")
  /\ LET c == Cmd(w)
         inside == {u \in Uids : InFolder(u, c.folder)}
     IN  \/ /\ c.folder \in exists
            /\ exists' = exists \ {c.folder}
            /\ box' = [u \in Uids |-> IF u \in inside THEN None ELSE box[u]]
            /\ spent' = spent \union {of[u] : u \in inside}
            /\ Follow(w, c.folder, None)
            /\ Bares
         \/ /\ Goes(w, IF c.strict THEN <<>> ELSE Left(w))
            /\ UNCHANGED <<exists, box, spent, bare>>
  /\ UNCHANGED <<of, cache, user, asked, astray>>

\* delete_folder_in_cache
DoDeleteRows(w) ==
  /\ At(w, "delete_rows")
  /\ rows' = {r \in rows : r.folder # Cmd(w).folder}
  /\ seen' = {k \in seen : k[1] # Cmd(w).folder}
  /\ Goes(w, Left(w))
  /\ UNCHANGED <<exists, of, box, user, ghost, asked>>

Step(w) ==
  \/ Fail(w) \/ DoSelect(w) \/ DoCreate(w) \/ DoTrash(w) \/ DoCopy(w) \/ DoStore(w)
  \/ DoMark(w) \/ DoExpunge(w) \/ DoDrop(w) \/ DoForget(w) \/ DoNote(w) \/ DoToken(w) \/ DoAppend(w)
  \/ DoListJunk(w) \/ DoKeyword(w) \/ DoProbe(w) \/ DoTurnOff(w) \/ DoFind(w) \/ DoItem(w)
  \/ DoRename(w) \/ DoRenameRows(w) \/ DoDelete(w) \/ DoDeleteRows(w)

-----------------------------------------------------------------------------
(* The web client's requests *)

\* A request begins.
Asks == asked < MaxAsked /\ asked' = asked + 1

Takes(w) ==
  /\ job[w] = Free /\ w \notin off
  /\ Asks
  /\ bare' = IF Junk \in exists THEN bare \ {w} ELSE bare \union {w}

Starts(w, todo) ==
  /\ Takes(w)
  /\ job' = [job EXCEPT ![w].todo = todo]
  /\ UNCHANGED <<exists, of, box, cache, user, spent, astray>>

Moves(r, f) == <<Select(r.folder), Move(r.uid, f), Expunge>>

\* _set_undo_action, as the response leaves it
Undoable(r, f, type) ==
  Token([msg |-> of[r.uid], source |-> r.folder, dest |-> f, type |-> type, shown |-> FALSE])

\* move_message_route
MoveMessage(w, r, f) ==
  /\ r.folder # f
  /\ f = Trash => ~Protected(r)
  /\ Starts(w, Moves(r, f))

\* delete_message
DeleteMessage(w, r) ==
  /\ ~Protected(r)
  /\ Starts(w, Moves(r, Trash) \o <<Undoable(r, Trash, "delete")>>)

\* archive_message
ArchiveMessage(w, r) ==
  Starts(w, <<Create(Archive)>> \o Moves(r, Archive) \o <<Undoable(r, Archive, "archive")>>)

\* junk_message
JunkMessage(w, r) ==
  /\ pref = "on"
  /\ Starts(w, <<Select(r.folder), ListJunk(r.uid), Undoable(r, Junk, "junk")>>)

\* not_spam: out of the junk folder the message moves to the inbox.
NotSpam(r) ==
  <<Select(r.folder), Mark(r.uid, "junk", FALSE, FALSE)>>
  \o (IF r.folder = Junk THEN <<Move(r.uid, Inbox), Expunge>> ELSE <<>>)

\* not_junk_message
NotJunkMessage(w, r) ==
  Starts(w, NotSpam(r)
            \o <<Undoable(r, IF r.folder = Junk THEN Inbox ELSE r.folder, "not_spam")>>)

\* undo_message_action, with the token that the session holds
UndoMessage(w) ==
  /\ undo # None
  /\ Starts(w, <<Select(undo.dest), Find(undo)>>)

\* _current_undo_action of a page: the banner is shown once.
ShowUndo ==
  /\ undo # None
  /\ UNCHANGED asked
  /\ undo' = IF undo.shown THEN None ELSE [undo EXCEPT !.shown = TRUE]
  /\ UNCHANGED <<exists, of, box, cache, job, pref, keyword, off, ghost>>

\* flag_message and lock_message
WebMark(w, r, g, on) ==
  Starts(w, <<Select(r.folder), Mark(r.uid, g, on, TRUE),
              Note(r, IF on THEN r.flags \union {g} ELSE r.flags \ {g})>>)

\* bulk_action on two messages; the EXPUNGE is of the folder selected last.
BulkAction(w, r, s, act, f) ==
  Starts(w, <<Item(r, act, f), Item(s, act, f), Expunge>>)

\* create_folder_route
CreateFolder(w, f) == Starts(w, <<Create(f)>>)

\* rename_folder_route
RenameFolder(w, f, g) ==
  /\ f \notin System /\ f # g
  /\ Starts(w, <<Rename(f, g, FALSE), RenameRows(f, g)>>)

\* delete_folder_route
DeleteFolder(w, f) ==
  /\ f \notin System
  /\ Starts(w, <<Delete(f, FALSE), DeleteRows(f)>>)

\* The Spam action toggle of the settings page.
SetSpamAction(p) ==
  /\ Asks
  /\ pref' = p
  /\ UNCHANGED <<exists, of, box, cache, job, undo, keyword, off, ghost>>

\* maybe_reenable_auto_disabled, when the settings page is opened
RecoverSpam ==
  /\ Asks
  /\ pref = "auto_off" /\ Junk \in exists
  /\ pref' = "on"
  /\ UNCHANGED <<exists, of, box, cache, job, undo, keyword, off, ghost>>

-----------------------------------------------------------------------------
(* REST API and MCP tools: no undo; deleting creates the trash and drops rows *)

ApiMove(w, r, f) == (f = Trash => ~Protected(r)) /\ Starts(w, Moves(r, f))
McpMove(w, r, f) == ApiMove(w, r, f)

ApiDelete(w, r) ==
  /\ ~Protected(r)
  /\ Starts(w, <<EnsureTrash>> \o Moves(r, None) \o <<Drop>>)

\* mail_delete_message knows no other trash than Trash.
McpDelete(w, r) ==
  ~Protected(r) /\ Starts(w, <<Create(Trash)>> \o Moves(r, Trash) \o <<Drop>>)

\* The messages of S, at most two, read at once; the API does not select a folder
\* that it has selected (again = FALSE).
EachMoves(S, f, again) ==
  LET r == CHOOSE x \in S : TRUE
      one(x) == <<Select(x.folder), Move(x.uid, f)>>
      next(x) == IF again \/ x.folder # r.folder THEN one(x) ELSE <<Move(x.uid, f)>>
  IN  IF S = {} THEN <<>>
      ELSE one(r) \o (IF S = {r} THEN <<>> ELSE next(CHOOSE x \in S \ {r} : TRUE))

ApiBulkMove(w, S, f) ==
  LET T == {r \in S : f = Trash => ~Protected(r)}
  IN  T # {} /\ Starts(w, EachMoves(T, f, FALSE) \o <<ApiExpunge>>)
McpBulkMove(w, S, f) ==
  LET T == {r \in S : f = Trash => ~Protected(r)}
  IN  T # {} /\ Starts(w, EachMoves(T, f, TRUE) \o <<McpExpunge>>)

ApiBulkDelete(w, S) ==
  LET T == {r \in S : ~Protected(r)}
  IN  T # {} /\ Starts(w, <<EnsureTrash>> \o EachMoves(T, None, FALSE) \o <<ApiExpunge, Drop>>)

McpBulkDelete(w, S) ==
  LET T == {r \in S : ~Protected(r)}
  IN  T # {} /\ Starts(w, <<Create(Trash)>> \o EachMoves(T, Trash, TRUE) \o <<McpExpunge, Drop>>)

ApiReportSpam(w, r) ==
  pref = "on" /\ Starts(w, <<Select(r.folder), ListJunk(r.uid)>>)
McpReportSpam(w, r) == ApiReportSpam(w, r)

ApiNotSpam(w, r) == Starts(w, NotSpam(r))
McpNotSpam(w, r) == ApiNotSpam(w, r)

\* api_update_flags writes the row first and then tries the server.
ApiUpdateFlags(w, r, g, on) ==
  LET F == IF on THEN r.flags \union {g} ELSE r.flags \ {g}
  IN  /\ Takes(w)
      /\ rows' = (rows \ {r}) \union {[r EXCEPT !.flags = F]}
      /\ job' = [job EXCEPT ![w].todo =
                   IF F = r.flags THEN <<>> ELSE <<Select(r.folder), Mark(r.uid, g, on, TRUE)>>]
      /\ UNCHANGED <<exists, of, box, seen, user, spent, astray>>
\* mail_update_flags sends the flag whether or not it changes.
McpUpdateFlags(w, r, g, on) ==
  /\ Takes(w)
  /\ rows' = (rows \ {r}) \union
             {[r EXCEPT !.flags = IF on THEN @ \union {g} ELSE @ \ {g}]}
  /\ job' = [job EXCEPT ![w].todo = <<Select(r.folder), Mark(r.uid, g, on, TRUE)>>]
  /\ UNCHANGED <<exists, of, box, seen, user, spent, astray>>

\* api_bulk_flag writes the rows and nothing else.
ApiBulkFlag(S, g, on) ==
  /\ Asks
  /\ rows' = {IF r \in S THEN [r EXCEPT !.flags = IF on THEN @ \union {g} ELSE @ \ {g}]
              ELSE r : r \in rows}
  /\ UNCHANGED <<exists, of, box, seen, job, user, ghost>>
McpBulkFlag(S, g, on) == ApiBulkFlag(S, g, on)

\* Saving a draft over an old one deletes the old one first.
ApiCreateDraft(w, r) ==
  Starts(w, <<Select(Drafts), Mark(r.uid, "gone", TRUE, FALSE), Expunge, Save(of[r.uid])>>)
McpSaveDraft(w, r) == ApiCreateDraft(w, r)
ApiDeleteDraft(w, r) ==
  Starts(w, <<Select(Drafts), Mark(r.uid, "gone", TRUE, FALSE), Expunge>>)
McpDeleteDraft(w, r) == ApiDeleteDraft(w, r)

ApiRenameFolder(w, f, g) ==
  f \notin System /\ f # g /\ Starts(w, <<Rename(f, g, TRUE), RenameRows(f, g)>>)
ApiDeleteFolder(w, f) ==
  f \notin System /\ Starts(w, <<Delete(f, TRUE), DeleteRows(f)>>)
McpRenameFolder(w, f, g) == ApiRenameFolder(w, f, g)
McpDeleteFolder(w, f) == ApiDeleteFolder(w, f)
ApiCreateFolder(w, f) == CreateFolder(w, f)
McpCreateFolder(w, f) == CreateFolder(w, f)

\* The pages of the composer do the same, and drop the old one's row.
DiscardDraft(w, r) ==
  Starts(w, <<Select(Drafts), Mark(r.uid, "gone", TRUE, FALSE), Expunge, Forget(r)>>)
AutoSaveDraft(w, r) ==
  Starts(w, <<Select(Drafts), Mark(r.uid, "gone", TRUE, FALSE), Expunge, Forget(r), Save(of[r.uid])>>)
SaveDraft(w, r) == AutoSaveDraft(w, r)

-----------------------------------------------------------------------------
(* The mailbox and its cache *)

\* A message arrives, or a draft is saved for the first time.
Arrive(m) ==
  /\ \A u \in Uids : of[u] # m
  /\ \E v \in Uids, f \in {Inbox, Drafts} \cap exists :
       /\ Fresh(v)
       /\ of' = [of EXCEPT ![v] = m]
       /\ box' = [box EXCEPT ![v] = [folder |-> f, flags |-> {}]]
  /\ UNCHANGED <<exists, cache, job, user, ghost, asked>>

\* sync_account of a folder: new uids are fetched, rows whose message is gone
\* are deleted, the flags of the others are brought up to date. What the cache
\* saved of another mailbox that had the name (its UIDVALIDITY differs) is forgotten.
Refresh(f) ==
  /\ f \in exists
  /\ LET stale == {k \in seen : k[1] = f /\ box[k[2]] # None /\ box[k[2]].folder # f}
         fresh == {u \in Uids : InFolder(u, f) /\ <<f, u>> \notin seen}
         known == {r.uid : r \in {x \in rows : x.folder = f}}
         now == fresh \union {u \in known : InFolder(u, f)}
     IN  /\ rows' = {r \in rows : r.folder # f}
                    \union {[folder |-> f, uid |-> u, flags |-> box[u].flags] : u \in now}
         /\ seen' = (seen \ stale) \union {<<f, u>> : u \in fresh}
  /\ UNCHANGED <<exists, of, box, job, user, ghost, asked>>

\* A bulk request names at most two messages.
Selections == {{r, s} : r \in rows, s \in rows}

\* Folder names that requests give; nobody keeps them from naming a junk folder.
Chosen == Others \union {Archive, Junk}

WebRequest(w) ==
  \/ \E r \in rows :
       \/ \E f \in Goals : MoveMessage(w, r, f)
       \/ DeleteMessage(w, r) \/ ArchiveMessage(w, r)
       \/ JunkMessage(w, r) \/ NotJunkMessage(w, r)
       \/ \E g \in Guards, on \in BOOLEAN : WebMark(w, r, g, on)
       \/ r.folder = Drafts /\ (DiscardDraft(w, r) \/ AutoSaveDraft(w, r) \/ SaveDraft(w, r))
       \/ \E s \in rows \ {r}, f \in Goals, act \in {"delete", "move"} \union Guards :
            BulkAction(w, r, s, act, f)
  \/ UndoMessage(w)
  \/ \E f \in Chosen : CreateFolder(w, f) \/ DeleteFolder(w, f) \/ \E g \in Chosen : RenameFolder(w, f, g)

ApiRequest(w) ==
  \/ \E r \in rows :
       \/ \E f \in Goals : ApiMove(w, r, f)
       \/ ApiDelete(w, r) \/ ApiReportSpam(w, r) \/ ApiNotSpam(w, r)
       \/ \E g \in Guards, on \in BOOLEAN : ApiUpdateFlags(w, r, g, on)
       \/ r.folder = Drafts /\ (ApiCreateDraft(w, r) \/ ApiDeleteDraft(w, r))
  \/ \E S \in Selections :
       \/ ApiBulkDelete(w, S)
       \/ \E f \in Goals : ApiBulkMove(w, S, f)
       \/ \E g \in Guards, on \in BOOLEAN : ApiBulkFlag(S, g, on)
  \/ \E f \in Chosen : ApiCreateFolder(w, f) \/ ApiDeleteFolder(w, f) \/ \E g \in Chosen : ApiRenameFolder(w, f, g)

McpRequest(w) ==
  \/ \E r \in rows :
       \/ \E f \in Goals : McpMove(w, r, f)
       \/ McpDelete(w, r) \/ McpReportSpam(w, r) \/ McpNotSpam(w, r)
       \/ \E g \in Guards, on \in BOOLEAN : McpUpdateFlags(w, r, g, on)
       \/ r.folder = Drafts /\ (McpSaveDraft(w, r) \/ McpDeleteDraft(w, r))
  \/ \E S \in Selections :
       \/ McpBulkDelete(w, S)
       \/ \E f \in Goals : McpBulkMove(w, S, f)
       \/ \E g \in Guards, on \in BOOLEAN : McpBulkFlag(S, g, on)
  \/ \E f \in Chosen : McpCreateFolder(w, f) \/ McpDeleteFolder(w, f) \/ \E g \in Chosen : McpRenameFolder(w, f, g)

Next ==
  \/ \E w \in Workers : Step(w)
  \/ asked < MaxAsked /\ \E w \in Workers : WebRequest(w) \/ ApiRequest(w) \/ McpRequest(w)
  \/ ShowUndo
  \/ \E p \in {"on", "user_off"} : SetSpamAction(p)
  \/ RecoverSpam
  \/ \E m \in Msgs : Arrive(m)
  \/ \E f \in Folders : Refresh(f)

Spec == Init /\ [][Next]_vars

-----------------------------------------------------------------------------
\* Whatever requests overlap, and wherever one is cut off, a message that has
\* arrived keeps a copy that is not marked \Deleted, unless its COPY was
\* refused (move_message copies before it marks, and EXPUNGE removes all that
\* is marked).
NoLoss == \A m \in Msgs \ spent :
  (\E u \in Uids : of[u] = m) => \E u \in Uids : of[u] = m /\ Alive(u)

\* A message that is still in a folder and that no later sync fetches has a
\* row there: a request drops the row only of what left its folder, and folder
\* changes forget the saved uidnext with the rows (cache_db.py). Not promised
\* of a message that a COPY did not find in the selected folder, which the
\* server does not report and whose row the API then drops, nor of a draft
\* whose row the composer dropped without deleting it.
NoHidden == \A u \in Uids :
  Alive(u) /\ u \notin astray /\ <<box[u].folder, u>> \in seen =>
    \E r \in rows : r.uid = u /\ r.folder = box[u].folder

\* The application turns the Spam action off only if the server does not take
\* the Junk keyword, or had no junk folder at some time while the request ran
\* that turns it off: failing connections and messages that vanish meanwhile do
\* not count (report_spam, _uid_exists; HLD.md U5.13). A junk folder that is made
\* after the LIST comes too late.
AutoOffConfirmed ==
  [][pref' = "auto_off" /\ pref # "auto_off" /\ keyword =>
       \E w \in bare : w \in off /\ w \notin off']_vars
=============================================================================
