------------------------------ MODULE Calendar ------------------------------
(***************************************************************************)
(* One account's calendars: the CalDAV server, which has the truth, and    *)
(* the two copies the suite keeps of it.                                   *)
(*                                                                         *)
(* - Requests of the web, REST and MCP controllers, and the mail sync when *)
(*   it meets an invitation or a reply, write to the server first and into *)
(*   the calendar cache when its answer is there.                          *)
(* - sync.py mirrors the server into a cache: into the calendar cache when *)
(*   a page asks for it, and into the mail cache file, which the reminder  *)
(*   worker opens with the calendar's schema (cache_db_path), from time to *)
(*   time.  The worker rings devices for what it finds there.              *)
(*                                                                         *)
(* Greenlets switch only at HTTP.  A conditional write repeats itself once *)
(* with the etag of the moment, so it replaces whatever is there, or       *)
(* fails: etags are left out.  A text is an iCalendar body or a title of a *)
(* calendar, numbered in the order they are made; a new collection has the *)
(* title 0, which its address is made of.                                  *)
(*                                                                         *)
(* A definition named Slip... is the definition after it with one mistake. *)
(***************************************************************************)
EXTENDS Naturals, FiniteSets

CONSTANTS
  Cals,      \* the addresses collections can have
  Home,      \* the one sync.py makes when there is none
  Uids,
  Threads,   \* requests and mail syncs under way at a time
  Worker,    \* the reminder worker
  MaxBegun,  \* the bound on what is begun: requests, syncs, changes by others,
             \* lost marks and ends of the process
  MaxTexts,  \* the bound on texts
  None

ASSUME CalendarAssumption == Home \in Cals /\ Worker \notin Threads /\ {MaxBegun, MaxTexts} \subseteq Nat

Actors == Threads \union {Worker}
Caches == {"web", "mail"}
CacheOf(t) == IF t = Worker THEN "mail" ELSE "web"
On(k) == {t \in Actors : CacheOf(t) = k}

\* of an event that takes place, or of one that is cancelled
Texts == [n : 1..MaxTexts, off : BOOLEAN]
Events == [Uids -> Texts \union {None}]
Collections == [title : Nat, events : Events]
\* what the caches hold of a calendar, and of an event
CalendarRows == [own : BOOLEAN, title : Nat, default : BOOLEAN]
EventRows == [text : Texts, full : BOOLEAN, of : Cals, live : BOOLEAN]

\* None is none of these.
ASSUME NoneAssumption == None \notin Texts \union Collections \union CalendarRows \union EventRows

VARIABLES
  dav,     \* address |-> the collection there: its title, and uid |-> text
  cal,     \* cache |-> calendars: address |-> its row
  row,     \* cache |-> calendar_events: address |-> uid |-> its row
  job,     \* actor |-> what it is doing
  begun,   \* how much was begun
  made,    \* how many texts there are
  fired,   \* push_calendar_fired: uids of the reminders that rang
  rang,    \* uid |-> how often devices were rung
  breaks,  \* marks lost, and ends of the process
  kept,    \* events put on the server that nobody removed since
  stir,    \* actors whose sync something else went on beside
  mirror   \* caches nothing happened to since a whole, undisturbed sync

ghosts == <<kept, stir, mirror>>
bell == <<fired, rang, breaks>>
vars == <<dav, cal, row, job, begun, made, bell, ghosts>>

----------------------------------------------------------------------------
Idle == [op |-> "idle"]
Stop(t) == job' = [job EXCEPT ![t] = Idle]
Goes(t, at) == job' = [job EXCEPT ![t].at = at]
Begun == begun < MaxBegun /\ begun' = begun + 1
Ready(t) == job[t] = Idle /\ Begun
Does(t, ops, at) == job[t].op \in ops /\ job[t].at = at

NoEvents == [u \in Uids |-> None]
\* its href is a whole address, or the path a listing gave it, in a collection
Row(text, full, of) == [text |-> text, full |-> full, of |-> of, live |-> ~text.off]

\* a text is made, of an event that may be cancelled, or may not
Makes(offs, text) ==
  /\ made < MaxTexts
  /\ made' = made + 1
  /\ \E off \in offs : text = [n |-> made + 1, off |-> off]

\* what the ghosts see of a change on the server, and of one in a cache
ServerStirs == stir' = Actors /\ mirror' = {}
CacheStirs(t, k) == stir' = stir \union (On(k) \ {t}) /\ mirror' = mirror \ {k}

Listed(c) == dav[c] # None
Has(c, u) == Listed(c) /\ dav[c].events[u] # None
Shown(k, c) == cal[k][c] # None
Held(k, c, u) == row[k][c][u] # None

----------------------------------------------------------------------------
(* The mirror (services/sync.py) *)

\* /calendar/sync, a first visit of the calendar, or the worker's clock
Sync(t) ==
  /\ Ready(t)
  /\ job' = [job EXCEPT ![t] = [op |-> "sync", at |-> "discover", left |-> {}, known |-> <<>>,
                                cur |-> Home, seen |-> NoEvents, first |-> TRUE, good |-> TRUE]]
  /\ UNCHANGED <<dav, cal, row, made, bell, ghosts>>

\* known are the titles of the collections met
Found(t, known) == job' = [job EXCEPT ![t].at = "next", ![t].left = DOMAIN known, ![t].known = known]

DiscoverCalendars(t) ==
  /\ Does(t, {"sync"}, "discover")
  /\ LET cs == {c \in Cals : Listed(c)} IN
     IF cs = {} THEN Goes(t, "make") ELSE Found(t, [c \in cs |-> dav[c].title])
  /\ stir' = stir \ {t}
  /\ UNCHANGED <<begun, dav, cal, row, made, bell, kept, mirror>>

Collection(c) == [dav EXCEPT ![c] = IF Listed(c) THEN @ ELSE [title |-> 0, events |-> NoEvents]]

MakeHome(t) ==
  /\ Does(t, {"sync"}, "make")
  /\ dav' = Collection(Home)
  /\ Found(t, [c \in {Home} |-> 0])
  /\ stir' = stir \union (Actors \ {t})
  /\ mirror' = {}
  /\ UNCHANGED <<begun, cal, row, made, bell, kept>>

\* upsert_calendar looks for the uid made of the address.  A calendar a request
\* made has a uid of its own, so the insert meets its address and is refused.
UpsertCalendar(t, k, c, title) ==
  IF Shown(k, c) /\ cal[k][c].own
    THEN Stop(t) /\ UNCHANGED cal
    ELSE /\ cal' = [cal EXCEPT ![k][c] =
                      [own |-> FALSE, title |-> title,
                       default |-> job[t].first /\ ~Shown(k, c) /\ \A d \in Cals : ~Shown(k, d)]]
         /\ job' = [job EXCEPT ![t].at = "list", ![t].cur = c, ![t].first = FALSE]

SyncCalendar(t) ==
  LET k == CacheOf(t) IN
  /\ Does(t, {"sync"}, "next")
  /\ \E c \in job[t].left : UpsertCalendar(t, k, c, job[t].known[c])
  /\ CacheStirs(t, k)
  /\ UNCHANGED <<begun, dav, row, made, bell, kept>>

NextCalendar(t, good) ==
  job' = [job EXCEPT ![t].at = "next", ![t].left = @ \ {job[t].cur}, ![t].good = @ /\ good,
                     ![t].cur = Home, ![t].seen = NoEvents]

\* list_events, or its failure, which is logged and forgotten
ListEvents(t) ==
  /\ Does(t, {"sync"}, "list")
  /\ \/ NextCalendar(t, FALSE)
     \/ /\ Listed(job[t].cur)
        /\ job' = [job EXCEPT ![t].at = "apply", ![t].seen = dav[job[t].cur].events]
  /\ UNCHANGED <<begun, dav, cal, row, made, bell, ghosts>>

SlipMirrored(old, c, seen) == [u \in Uids |-> IF seen[u] = None THEN old[u] ELSE Row(seen[u], FALSE, c)]
Mirrored(old, c, seen) == [u \in Uids |-> IF seen[u] = None THEN None ELSE Row(seen[u], FALSE, c)]

\* every event of the answer, and away with the others
ApplyEvents(t) ==
  LET k == CacheOf(t)
      c == job[t].cur
  IN
  /\ Does(t, {"sync"}, "apply")
  /\ IF Shown(k, c) \/ job[t].seen = NoEvents
       THEN /\ row' = [row EXCEPT ![k][c] = Mirrored(@, c, job[t].seen)]
            /\ NextCalendar(t, TRUE)
       ELSE NextCalendar(t, FALSE) /\ UNCHANGED row
  /\ CacheStirs(t, k)
  /\ UNCHANGED <<begun, dav, cal, made, bell, kept>>

\* calendars sync.py did not meet are dropped with their events
Met(t, k, c) == c \in DOMAIN job[t].known /\ Shown(k, c) /\ ~cal[k][c].own
SyncEnds(t) ==
  LET k == CacheOf(t) IN
  /\ Does(t, {"sync"}, "next") /\ job[t].left = {}
  /\ cal' = [cal EXCEPT ![k] = [c \in Cals |-> IF Met(t, k, c) THEN @[c] ELSE None]]
  /\ row' = [row EXCEPT ![k] = [c \in Cals |-> IF Met(t, k, c) THEN @[c] ELSE NoEvents]]
  /\ stir' = stir \union (On(k) \ {t})
  /\ mirror' = IF job[t].good /\ t \notin stir THEN mirror \union {k} ELSE mirror \ {k}
  /\ Stop(t)
  /\ UNCHANGED <<begun, dav, made, bell, kept>>

\* discovery, or making the first calendar, fails
SyncFails(t) ==
  /\ Does(t, {"sync"}, "discover") \/ Does(t, {"sync"}, "make")
  /\ Stop(t)
  /\ UNCHANGED <<begun, dav, cal, row, made, bell, ghosts>>

SyncStep(t) ==
  \/ Sync(t) \/ DiscoverCalendars(t) \/ MakeHome(t) \/ SyncCalendar(t)
  \/ ListEvents(t) \/ ApplyEvents(t) \/ SyncEnds(t) \/ SyncFails(t)

----------------------------------------------------------------------------
(* Writes *)

\* cal is the collection its href is in, to the calendar its row is to be in
Write(op, at, u, c, to, full, text) ==
  [op |-> op, at |-> at, uid |-> u, cal |-> c, to |-> to, full |-> full, text |-> text]
Begins(t, write) == job' = [job EXCEPT ![t] = write]
\* a write at the href a row has
Rewrites(t, op, at, u, c, to, text) ==
  LET r == row["web"][c][u] IN Begins(t, Write(op, at, u, r.of, to, r.full, text))

\* the event goes to the address made of its collection and its uid
Puts(t, u, c, text) ==
  /\ Begins(t, Write("put", "put", u, c, c, TRUE, text))
  /\ UNCHANGED <<dav, cal, row, bell, ghosts>>

Used == {u \in Uids : \E c \in Cals : Has(c, u) \/ \E k \in Caches : Held(k, c, u)}
          \union {job[s].uid : s \in {x \in Threads : job[x].op # "idle" /\ job[x].op # "sync"}}

\* The event and its address are both new.  The pages and tools make the uid and
\* name the address after it; api_event_create gives no uid to create_event, so
\* the address has a random name that is as new as the uid (one uid names both).
CreateEvent(t) ==
  /\ Ready(t)
  /\ \E u \in Uids \ Used, c \in Cals, text \in Texts :
       Shown("web", c) /\ Makes(BOOLEAN, text) /\ Puts(t, u, c, text)
QuickCreate(t) == CreateEvent(t)
ApiCreateEvent(t) == QuickCreate(t)
McpCreateEvent(t) == ApiCreateEvent(t)

\* the uid is the one of the attachment
IcsImport(t) ==
  /\ Ready(t)
  /\ \E u \in Uids, c \in Cals, text \in Texts :
       Shown("web", c) /\ Makes(BOOLEAN, text) /\ Puts(t, u, c, text)
\* a declined event is stored as a cancelled one
IcsRsvp(t) == IcsImport(t)
IcsRsvpExisting(t) ==
  /\ Ready(t)
  /\ \E u \in Uids, c \in Cals, text \in Texts :
       Held("web", c, u) /\ Makes(BOOLEAN, text) /\ Puts(t, u, c, text)

\* the default calendar, or whichever comes first by name
FirstCalendar(c) ==
  /\ Shown("web", c)
  /\ cal["web"][c].default \/ \A d \in Cals : Shown("web", d) => ~cal["web"][d].default
\* the mail sync meets METHOD:REQUEST; an event of that uid is left alone
ProcessInvite(t) ==
  /\ Ready(t)
  /\ \E u \in Uids, c \in Cals, text \in Texts :
       /\ \A d \in Cals : ~Held("web", d, u)
       /\ FirstCalendar(c)
       /\ Makes({FALSE}, text) /\ Puts(t, u, c, text)

\* a move of the event that another request is in the middle of
Moving(t, u) == \E s \in Threads \ {t} : job[s].op = "move" /\ job[s].uid = u

\* a row the REST update stored in a calendar its href is not in
Misplaced(u) == \E c \in Cals : Held("web", c, u) /\ row["web"][c][u].of # c

Stored(c, u, text) == dav' = [dav EXCEPT ![c].events[u] = text]
PutEvent(t) ==
  LET j == job[t] IN
  /\ Does(t, {"put"}, "put") /\ Listed(j.cal)
  /\ Stored(j.cal, j.uid, j.text)
  /\ kept' = IF Moving(t, j.uid) \/ Misplaced(j.uid) THEN kept ELSE kept \union {j.uid}
  /\ ServerStirs
  /\ Goes(t, "store") \/ Stop(t)   \* the answer may be lost
  /\ UNCHANGED <<begun, cal, row, made, bell>>

\* the web editor names the calendar the event is to be in
AfterRead(c, to) == IF to = c THEN "replace" ELSE "copy"
UpdateEvent(t) ==
  /\ Ready(t)
  /\ \E c \in Cals, u \in Uids, to \in Cals, text \in Texts :
       /\ Held("web", c, u) /\ Shown("web", to)
       /\ Makes(BOOLEAN, text)
       /\ Rewrites(t, IF to = c THEN "edit" ELSE "move", AfterRead(c, to), u, c, to, text)
       /\ kept' = IF to # c /\ Moving(t, u) THEN kept \ {u} ELSE kept
  /\ UNCHANGED <<dav, cal, row, bell, stir, mirror>>
\* dragging it keeps its calendar
MoveEvent(t) ==
  /\ Ready(t)
  /\ \E c \in Cals, u \in Uids, text \in Texts :
       /\ Held("web", c, u)
       /\ Makes({row["web"][c][u].text.off}, text)
       /\ Rewrites(t, "edit", "replace", u, c, c, text)
  /\ UNCHANGED <<dav, cal, row, bell, ghosts>>
\* the REST twin replaces the event where it is and stores the calendar it was given
ApiUpdateEvent(t) ==
  /\ Ready(t)
  /\ \E c \in Cals, u \in Uids, to \in Cals, text \in Texts :
       /\ Held("web", c, u)
       /\ Makes({FALSE}, text)
       /\ Rewrites(t, "edit", "replace", u, c, to, text)
  /\ UNCHANGED <<dav, cal, row, bell, ghosts>>
McpUpdateEvent(t) ==
  /\ Ready(t)
  /\ \E c \in Cals, u \in Uids, text \in Texts :
       /\ Held("web", c, u)
       /\ Makes({FALSE}, text)
       /\ Rewrites(t, "edit", "replace", u, c, c, text)
  /\ UNCHANGED <<dav, cal, row, bell, ghosts>>

\* an href of the server's listing is a path, which no request can be sent to
Reachable(j) == j.full /\ Listed(j.cal)
ReplaceEvent(t) ==
  LET j == job[t] IN
  /\ Does(t, {"edit", "reply"}, "replace") /\ Reachable(j)
  /\ Stored(j.cal, j.uid, j.text)
  /\ ServerStirs
  /\ Stop(t) \/ (j.op = "edit" /\ Goes(t, "store"))
  /\ UNCHANGED <<begun, cal, row, made, bell, kept>>

CopyEvent(t) ==
  LET j == job[t] IN
  /\ Does(t, {"move"}, "copy") /\ Listed(j.to)
  /\ Stored(j.to, j.uid, j.text)
  /\ ServerStirs
  /\ Goes(t, "drop") \/ Stop(t)
  /\ UNCHANGED <<begun, cal, row, made, bell, kept>>

\* contextlib.suppress around the DELETE of the old place, and only that
SlipAfterFailure(j) == IF j.op \in {"move", "delete"} THEN IF j.at = "copy" THEN "drop" ELSE "store" ELSE "end"
AfterFailure(j) == IF j.op \in {"move", "delete"} /\ j.at = "drop" THEN "store" ELSE "end"

\* the server refuses, cannot be reached or has lost the collection
WriteFails(t) ==
  /\ \E at \in {"put", "replace", "copy", "drop"} : Does(t, {"put", "edit", "move", "delete", "reply"}, at)
  /\ IF AfterFailure(job[t]) = "end" THEN Stop(t) ELSE Goes(t, AfterFailure(job[t]))
  /\ UNCHANGED <<begun, dav, cal, row, made, bell, ghosts>>

DeleteEvent(t) ==
  /\ Ready(t)
  /\ \E c \in Cals, u \in Uids :
       /\ Held("web", c, u)
       /\ Rewrites(t, "delete", "drop", u, c, c, None)
  /\ UNCHANGED <<dav, cal, row, made, bell, ghosts>>
ApiDeleteEvent(t) == DeleteEvent(t)
McpDeleteEvent(t) == ApiDeleteEvent(t)

DropEvent(t) ==
  LET j == job[t] IN
  /\ Does(t, {"move", "delete"}, "drop") /\ Reachable(j)
  /\ Stored(j.cal, j.uid, None)
  /\ kept' = IF j.op = "delete" THEN kept \ {j.uid} ELSE kept
  /\ ServerStirs
  /\ Goes(t, "store")
  /\ UNCHANGED <<begun, cal, row, made, bell>>

\* upsert_event; a calendar that is gone is a broken foreign key
StoreEvent(t) ==
  LET j == job[t]
      of == IF j.op = "edit" THEN j.cal ELSE j.to
  IN
  /\ Does(t, {"put", "edit", "move"}, "store")
  /\ row' = IF Shown("web", j.to) THEN [row EXCEPT !["web"][j.to][j.uid] = Row(j.text, TRUE, of)] ELSE row
  /\ kept' = IF of = j.to THEN kept ELSE kept \ {j.uid}
  /\ CacheStirs(t, "web")
  /\ Stop(t)
  /\ UNCHANGED <<begun, dav, cal, made, bell>>
ForgetEvent(t) ==
  LET j == job[t] IN
  /\ Does(t, {"delete"}, "store")
  /\ row' = [row EXCEPT !["web"][j.to][j.uid] = None]
  /\ CacheStirs(t, "web")
  /\ Stop(t)
  /\ UNCHANGED <<begun, dav, cal, made, bell, kept>>

\* the mail sync meets METHOD:REPLY: every row of the uid gets the text of one
ProcessReply(t) ==
  /\ Ready(t)
  /\ \E c \in Cals, u \in Uids, text \in Texts :
       /\ Held("web", c, u)
       /\ Makes({row["web"][c][u].text.off}, text)
       /\ row' = [row EXCEPT !["web"] = [d \in Cals |->
                    IF Held("web", d, u) THEN [@[d] EXCEPT ![u].text = text] ELSE @[d]]]
       /\ Rewrites(t, "reply", "replace", u, c, c, text)
  /\ CacheStirs(t, "web")
  /\ UNCHANGED <<dav, cal, bell, kept>>

\* the mail sync looks for a calendar part in each multipart message it stores;
\* what goes wrong then is logged and forgotten, and the sync goes on
ProcessInviteRequest(t) == ProcessInvite(t)
CheckImipReply(t) == ProcessInviteRequest(t) \/ ProcessReply(t)

\* METHOD:CANCEL, from the message's card: the cached row only
IcsCancel(t) ==
  /\ Ready(t)
  /\ \E c \in Cals, u \in Uids :
       /\ Held("web", c, u)
       /\ row' = [row EXCEPT !["web"][c][u].live = FALSE]
  /\ CacheStirs(t, "web")
  /\ UNCHANGED <<dav, cal, job, made, bell, kept>>

----------------------------------------------------------------------------
(* Calendars, and what others do *)

\* MKCOL, which an address in use does not mind
NewCalendar(t) ==
  /\ Ready(t)
  /\ \E c \in Cals : Begins(t, Write("make", "mkcol", None, c, c, TRUE, None))
  /\ UNCHANGED <<dav, cal, row, made, bell, ghosts>>
ApiCreateCalendar(t) == NewCalendar(t)
McpCreateCalendar(t) == ApiCreateCalendar(t)
MakeCalendar(t) ==
  /\ Does(t, {"make"}, "mkcol")
  /\ dav' = Collection(job[t].cal)
  /\ ServerStirs
  /\ Goes(t, "store") \/ Stop(t)
  /\ UNCHANGED <<begun, cal, row, made, bell, kept>>
\* upsert_calendar with a uid of its own: a row of that address refuses it
StoreCalendar(t) ==
  LET c == job[t].cal IN
  /\ Does(t, {"make"}, "store")
  /\ cal' = IF Shown("web", c) THEN cal ELSE [cal EXCEPT !["web"][c] = [own |-> TRUE, title |-> 0, default |-> FALSE]]
  /\ CacheStirs(t, "web")
  /\ Stop(t)
  /\ UNCHANGED <<begun, dav, row, made, bell, kept>>

\* the web form tells the server first, and stores the title whatever came of it
EditCalendar(t) ==
  /\ Ready(t)
  /\ \E c \in Cals, text \in Texts :
       /\ Shown("web", c) /\ Makes({FALSE}, text)
       /\ Begins(t, Write("retitle", "props", None, c, c, TRUE, text))
  /\ UNCHANGED <<dav, cal, row, bell, ghosts>>
Retitled(c, text) == cal' = [cal EXCEPT !["web"][c].title = text.n]
\* the REST and MCP twins store it first, and then do not mind what the server says
ApiUpdateCalendar(t) ==
  /\ Ready(t)
  /\ \E c \in Cals, text \in Texts :
       /\ Shown("web", c) /\ Makes({FALSE}, text)
       /\ Retitled(c, text)
       /\ Begins(t, Write("tell", "props", None, c, c, TRUE, text))
  /\ CacheStirs(t, "web")
  /\ UNCHANGED <<dav, row, bell, kept>>
McpUpdateCalendar(t) == ApiUpdateCalendar(t)
PatchProps(t) ==
  LET j == job[t] IN
  /\ Does(t, {"retitle", "tell"}, "props")
  /\ \/ Listed(j.cal) /\ dav' = [dav EXCEPT ![j.cal].title = j.text.n] /\ ServerStirs
     \/ UNCHANGED <<dav, stir, mirror>>
  /\ IF j.op = "retitle" THEN Goes(t, "store") ELSE Stop(t)
  /\ UNCHANGED <<begun, cal, row, made, bell, kept>>
StoreTitle(t) ==
  LET j == job[t] IN
  /\ Does(t, {"retitle"}, "store")
  /\ IF Shown("web", j.cal) THEN Retitled(j.cal, j.text) ELSE UNCHANGED cal
  /\ CacheStirs(t, "web")
  /\ Stop(t)
  /\ UNCHANGED <<begun, dav, row, made, bell, kept>>

\* the server first, whether it answers or not; never the default calendar
DeleteCalendar(t) ==
  /\ Ready(t)
  /\ \E c \in Cals :
       /\ Shown("web", c) /\ ~cal["web"][c].default
       /\ Begins(t, Write("unmake", "rmcol", None, c, c, TRUE, None))
  /\ UNCHANGED <<dav, cal, row, made, bell, ghosts>>
Removed(c) == dav' = [dav EXCEPT ![c] = None] /\ kept' = {u \in kept : ~Has(c, u)}
RemoveCalendar(t) ==
  /\ Does(t, {"unmake"}, "rmcol")
  /\ \/ Removed(job[t].cal) /\ ServerStirs
     \/ UNCHANGED <<dav, ghosts>>
  /\ Goes(t, "store")
  /\ UNCHANGED <<begun, cal, row, made, bell>>
Dropped(k, cs) ==
  /\ cal' = [cal EXCEPT ![k] = [c \in Cals |-> IF c \in cs THEN None ELSE @[c]]]
  /\ row' = [row EXCEPT ![k] = [c \in Cals |-> IF c \in cs THEN NoEvents ELSE @[c]]]
ForgetCalendar(t) ==
  /\ Does(t, {"unmake"}, "store")
  /\ Dropped("web", {job[t].cal})
  /\ CacheStirs(t, "web")
  /\ Stop(t)
  /\ UNCHANGED <<begun, dav, made, bell, kept>>
\* the REST and MCP twins drop any calendar, and only from the cache
ApiDeleteCalendar(t) ==
  /\ Ready(t)
  /\ \E c \in Cals : Shown("web", c) /\ Dropped("web", {c})
  /\ CacheStirs(t, "web")
  /\ UNCHANGED <<dav, job, made, bell, kept>>
McpDeleteCalendar(t) == ApiDeleteCalendar(t)

\* a cache file is removed: the mail cache with its account's mail, either when it cannot be opened
ResetCache(k) ==
  /\ Begun
  /\ Dropped(k, Cals)
  /\ stir' = stir \union On(k) /\ mirror' = mirror \ {k}
  /\ UNCHANGED <<dav, job, made, bell, kept>>

\* another client of the server
Elsewhere ==
  /\ Begun
  /\ \/ \E c \in Cals, u \in Uids, text \in Texts :
          Listed(c) /\ Makes({FALSE}, text) /\ Stored(c, u, text) /\ UNCHANGED kept
     \/ \E c \in Cals, u \in Uids : Has(c, u) /\ Stored(c, u, None) /\ kept' = kept \ {u} /\ UNCHANGED made
     \/ \E c \in Cals : Listed(c) /\ Removed(c) /\ UNCHANGED made
     \/ \E c \in Cals, text \in Texts :
          /\ Listed(c) /\ Makes({FALSE}, text) /\ dav' = [dav EXCEPT ![c].title = text.n] /\ UNCHANGED kept
  /\ ServerStirs
  /\ UNCHANGED <<cal, row, job, bell>>

----------------------------------------------------------------------------
(* The reminder worker (workers/calendar_reminders.py) *)

\* the reminders whose time has come, of events not cancelled
DueReminders ==
  /\ job[Worker] = Idle
  /\ \E due \in SUBSET {x \in Cals \X Uids : Held("mail", x[1], x[2]) /\ row["mail"][x[1]][x[2]].live} :
       due # {} /\ Begins(Worker, [op |-> "ring", at |-> "next", left |-> due, uid |-> None])
  /\ UNCHANGED <<begun, dav, cal, row, made, bell, ghosts>>

\* push_calendar_fired is asked before each push
SlipRings(u) == TRUE
Rings(u) == u \notin fired
FireReminder ==
  /\ Does(Worker, {"ring"}, "next")
  /\ \E x \in job[Worker].left :
       LET rest == [job[Worker] EXCEPT !.left = @ \ {x}] IN
       IF Rings(x[2])
         THEN /\ rang' = [rang EXCEPT ![x[2]] = @ + 1]
              /\ Begins(Worker, [rest EXCEPT !.at = "mark", !.uid = x[2]])
         ELSE UNCHANGED rang /\ Begins(Worker, rest)
  /\ UNCHANGED <<begun, dav, cal, row, made, fired, breaks, ghosts>>
MarkFired ==
  /\ Does(Worker, {"ring"}, "mark")
  /\ fired' = fired \union {job[Worker].uid}
  /\ Begins(Worker, [job[Worker] EXCEPT !.at = "next", !.uid = None])
  /\ UNCHANGED <<begun, dav, cal, row, made, rang, breaks, ghosts>>
Breaks == Begun /\ breaks' = breaks + 1
\* the commit fails, which ends this account's turn
MarkFails ==
  /\ Does(Worker, {"ring"}, "mark")
  /\ Breaks
  /\ Stop(Worker)
  /\ UNCHANGED <<dav, cal, row, made, fired, rang, ghosts>>
TurnEnds ==
  /\ Does(Worker, {"ring"}, "next") /\ job[Worker].left = {}
  /\ Stop(Worker)
  /\ UNCHANGED <<begun, dav, cal, row, made, bell, ghosts>>

ProcessEnds ==
  /\ Breaks
  /\ job' = [t \in Actors |-> Idle]
  /\ UNCHANGED <<dav, cal, row, made, fired, rang, ghosts>>

----------------------------------------------------------------------------
Init ==
  /\ dav = [c \in Cals |-> None]
  /\ cal = [k \in Caches |-> [c \in Cals |-> None]]
  /\ row = [k \in Caches |-> [c \in Cals |-> NoEvents]]
  /\ job = [t \in Actors |-> Idle]
  /\ begun = 0 /\ made = 0
  /\ fired = {} /\ rang = [u \in Uids |-> 0] /\ breaks = 0
  /\ kept = {} /\ stir = {} /\ mirror = {}

Request(t) ==
  \/ McpCreateEvent(t) \/ IcsRsvp(t) \/ IcsRsvpExisting(t) \/ CheckImipReply(t)
  \/ UpdateEvent(t) \/ MoveEvent(t) \/ ApiUpdateEvent(t) \/ McpUpdateEvent(t)
  \/ McpDeleteEvent(t) \/ IcsCancel(t)
  \/ McpCreateCalendar(t) \/ EditCalendar(t) \/ McpUpdateCalendar(t) \/ DeleteCalendar(t) \/ McpDeleteCalendar(t)
RequestStep(t) ==
  \/ PutEvent(t) \/ ReplaceEvent(t) \/ CopyEvent(t) \/ DropEvent(t) \/ WriteFails(t)
  \/ StoreEvent(t) \/ ForgetEvent(t)
  \/ MakeCalendar(t) \/ StoreCalendar(t) \/ PatchProps(t) \/ StoreTitle(t)
  \/ RemoveCalendar(t) \/ ForgetCalendar(t)
WorkerStep == DueReminders \/ FireReminder \/ MarkFired \/ MarkFails \/ TurnEnds

Next ==
  \/ \E t \in Actors : SyncStep(t)
  \/ \E t \in Threads : Request(t) \/ RequestStep(t)
  \/ WorkerStep
  \/ Elsewhere \/ ProcessEnds \/ \E k \in Caches : ResetCache(k)

Spec == Init /\ [][Next]_vars

----------------------------------------------------------------------------
\* A sync that met no error, and beside which nothing happened on the server or
\* in its cache, leaves the cache holding what the server holds: every
\* calendar under its title, every event in its text of now, and nothing else.
SyncMirrors ==
  \A k \in mirror, c \in Cals :
    /\ Shown(k, c) <=> Listed(c)
    /\ Shown(k, c) => cal[k][c].title = dav[c].title
    /\ \A u \in Uids :
         /\ Held(k, c, u) <=> Has(c, u)
         /\ Held(k, c, u) => row[k][c][u].text = dav[c].events[u]

\* An event that was put on the server and that nobody removed is on it, also
\* in the middle of a change of its calendar and when that fails half way.
\* An event of which two changes of calendar are under way at a time, or a row
\* is where its href is not (Misplaced), is excepted until it is put anew.
NeverNowhere == \A u \in kept : \E c \in Cals : Has(c, u)

\* The mirror makes every reminder anew each time, and an event can be in two
\* calendars; still its reminder rings once, and once more only for a mark
\* that was lost or an end of the process.
PushedOnce == \A u \in Uids : rang[u] <= 1 + breaks
=============================================================================
