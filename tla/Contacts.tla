------------------------------ MODULE Contacts ------------------------------
(***************************************************************************)
(* One account's contacts: the address book on the CardDAV server, which   *)
(* has the truth, and the contacts cache the suite shows.                  *)
(*                                                                         *)
(* A request of the web pages, the REST API or the MCP server (a process   *)
(* of its own) writes to the server first and into the cache when the      *)
(* answer is there, so others run in between.  Writes to one cache row do  *)
(* not depend on other rows, so the loop that applies a listing is a step. *)
(*                                                                         *)
(* A text is a vCard: the number it was made with, and the address the     *)
(* contact has, if any.  Its etag is its number.  An address a contact     *)
(* gets is one work or home address; forms and patches choose it freely.   *)
(* The server never gives an etag twice and gives one with every answer,   *)
(* and hrefs are whole addresses, one for each uid (list_contacts).        *)
(*                                                                         *)
(* A definition named Slip... is the definition after it with one mistake. *)
(***************************************************************************)
EXTENDS Naturals, Sequences

CONSTANTS
  Uids,
  Mails,
  Threads,   \* requests under way at a time
  MaxBegun,  \* the bound on requests, changes by other clients and cache resets
  MaxTexts,  \* the bound on texts
  None

\* texts as they are numbered, and rows with the etag last seen
Texts == [n : Nat, mail : Mails \union {None}]
Rows == [text : Texts, etag : Nat]

ASSUME ContactsAssumption ==
  /\ None \notin Uids \union Mails \union Threads
  /\ None \notin Texts /\ None \notin Rows
  /\ {MaxBegun, MaxTexts} \subseteq Nat

VARIABLES
  book,    \* there is an address book
  srv,     \* uid |-> the text in it
  row,     \* uid |-> its row in the cache: the text, and the etag last seen
  form,    \* uid |-> the text that the last form for it was filled with
  synced,  \* addressbook_state has a row
  job,     \* actor |-> what it is doing
  begun,   \* how much was begun
  made,    \* how many texts there are
  taken,   \* uids that were given away
  calm,    \* the actor that nobody did anything beside, since it began
  apart    \* something happened since the last calm sync that need not leave
           \* the cache as the server

ghosts == <<calm, apart>>
vars == <<book, srv, row, form, synced, job, begun, made, taken, ghosts>>

----------------------------------------------------------------------------
Idle == [op |-> "idle"]
Begun == begun < MaxBegun /\ begun' = begun + 1
Does(t, ops, at) == job[t].op \in ops /\ job[t].at = at
Goes(t, at) == job' = [job EXCEPT ![t].at = at]

\* a request begins, or ends
Begins(t, j) ==
  LET alone == \A s \in Threads : job[s] = Idle IN
  /\ Begun
  /\ job[t] = Idle
  /\ job' = [job EXCEPT ![t] = j]
  /\ calm' = IF alone THEN t ELSE None
  /\ apart' = (apart \/ ~alone)

Ends(t) == job' = [job EXCEPT ![t] = Idle] /\ calm' = IF calm = t THEN None ELSE calm

\* a request of one step, or somebody else, makes cache and server differ
Disturbs == Begun /\ calm' = None /\ apart' = TRUE

Row(text) == [text |-> text, etag |-> text.n]
Held(u) == row[u] # None

\* find_by_email and email_exists, of rows other than u's
FindByEmail(m, u) == m # None /\ \E v \in Uids \ {u} : Held(v) /\ row[v].text.mail = m

----------------------------------------------------------------------------
(* The mirror *)

Sync(t) ==
  /\ Begins(t, [op |-> "sync", at |-> "discover"])
  /\ UNCHANGED <<book, srv, row, form, synced, made, taken>>

ContactSync(t) == Sync(t)
ContactList(t) == ~synced /\ Sync(t)

\* where a request goes on that has an address book
NextOf(op) == CASE op = "sync" -> "list" [] op = "save" -> "next" [] OTHER -> "put"

DiscoverAddressBook(t) ==
  /\ Does(t, {"sync", "new", "api", "save"}, "discover")
  /\ Goes(t, IF book THEN NextOf(job[t].op) ELSE "make")
  /\ UNCHANGED <<book, srv, row, form, synced, begun, made, taken, ghosts>>

CreateAddressBook(t) ==
  /\ Does(t, {"sync", "new", "api", "save"}, "make")
  /\ book' = TRUE
  /\ Goes(t, NextOf(job[t].op))
  /\ UNCHANGED <<srv, row, form, synced, begun, made, taken, ghosts>>

ListContacts(t) ==
  /\ Does(t, {"sync"}, "list")
  /\ job' = [job EXCEPT ![t] = [op |-> "sync", at |-> "apply", listing |-> srv]]
  /\ UNCHANGED <<book, srv, row, form, synced, begun, made, taken, ghosts>>

SlipMirrored(t) == [u \in Uids |-> IF job[t].listing[u] = None THEN row[u] ELSE Row(job[t].listing[u])]

Mirrored(t) == [u \in Uids |-> IF job[t].listing[u] = None THEN None ELSE Row(job[t].listing[u])]

\* rows of the listing are stored, others deleted
ApplyListing(t) ==
  /\ Does(t, {"sync"}, "apply")
  /\ row' = Mirrored(t)
  /\ synced' = TRUE
  /\ apart' = (apart /\ calm # t)
  /\ Ends(t)
  /\ UNCHANGED <<book, srv, form, begun, made, taken>>

----------------------------------------------------------------------------
(* New contacts *)

\* a request about u, at its first call of the server
Request(op, at, u, m) ==
  [op |-> op, at |-> at, u |-> u, mail |-> m, etag |-> None, found |-> None, base |-> None,
   text |-> None, left |-> <<>>]

Creates(t, op, m, u) ==
  /\ u \notin taken
  /\ taken' = taken \union {u}
  /\ Begins(t, Request(op, "discover", u, m))
  /\ UNCHANGED <<book, srv, row, form, synced, made>>

\* the form refuses an address that a contact in the cache has
ContactNew(t, m, u) == ~FindByEmail(m, None) /\ Creates(t, "new", m, u)

ApiCreateContact(t, m, u) == Creates(t, "api", m, u)
ContactsCreate(t, m, u) == Creates(t, "api", m, u)

\* the recipients of a message that is being sent
ApiAutoSave(t, ms) ==
  /\ Begins(t, [Request("save", "discover", None, None) EXCEPT !.left = ms])
  /\ UNCHANGED <<book, srv, row, form, synced, made, taken>>

\* a mistake: nobody looks again once a recipient was saved
SlipEmailExists(t) == job[t].u = None /\ FindByEmail(Head(job[t].left), None)

EmailExists(t) == FindByEmail(Head(job[t].left), None)

SkipRecipient(t) ==
  /\ Does(t, {"save"}, "next")
  /\ job[t].left # <<>>
  /\ EmailExists(t)
  /\ job' = [job EXCEPT ![t].left = Tail(@)]
  /\ UNCHANGED <<book, srv, row, form, synced, begun, made, taken, ghosts>>

SaveRecipient(t, u) ==
  /\ Does(t, {"save"}, "next")
  /\ job[t].left # <<>>
  /\ ~EmailExists(t)
  /\ u \notin taken
  /\ taken' = taken \union {u}
  /\ job' = [job EXCEPT ![t] = [Request("save", "put", u, Head(@.left)) EXCEPT !.left = Tail(job[t].left)]]
  /\ UNCHANGED <<book, srv, row, form, synced, begun, made, ghosts>>

AutoSaved(t) ==
  /\ Does(t, {"save"}, "next")
  /\ job[t].left = <<>>
  /\ Ends(t)
  /\ UNCHANGED <<book, srv, row, form, synced, begun, made, taken, apart>>

\* the server takes the text a request has for u
Puts(t) ==
  LET text == [n |-> made + 1, mail |-> job[t].mail] IN
  /\ made < MaxTexts
  /\ made' = made + 1
  /\ srv' = [srv EXCEPT ![job[t].u] = text]
  /\ job' = [job EXCEPT ![t].at = "upsert", ![t].text = text]

\* PUT without a condition, at an address of its own
CreateContact(t) ==
  /\ Does(t, {"new", "api", "save"}, "put")
  /\ Puts(t)
  /\ UNCHANGED <<book, row, form, synced, begun, taken, ghosts>>

\* a request is through with a contact; auto-save goes on
Leaves(t) ==
  IF job[t].op = "save" THEN Goes(t, "next") /\ UNCHANGED calm ELSE Ends(t)

UpsertContact(t, u) == row' = [row EXCEPT ![u] = Row(job[t].text)]

StoreContact(t) ==
  /\ Does(t, {"new", "api", "save", "edit", "update"}, "upsert")
  /\ UpsertContact(t, job[t].u)
  /\ Leaves(t)
  /\ UNCHANGED <<book, srv, form, synced, begun, made, taken, apart>>

\* a call fails, or the answer to a PUT gets lost or cannot be stored: a page
\* or an error says so, and the text stays on the server
RequestFails(t) ==
  /\ \/ job[t].op \in {"sync", "new", "api"} /\ job[t].at \in {"discover", "make"}
     \/ Does(t, {"sync"}, "list")
     \/ Does(t, {"update"}, "get")
     \/ Does(t, {"new", "api", "save", "edit", "update"}, "put")
     \/ Does(t, {"new", "api", "save", "edit", "update"}, "upsert")
  /\ apart' = (apart \/ job[t].at = "upsert")
  /\ Leaves(t)
  /\ UNCHANGED <<book, srv, row, form, synced, begun, made, taken>>

\* without an address book every recipient fails that is not skipped
SaveFails(t) ==
  /\ job[t].op = "save" /\ job[t].at \in {"discover", "make"}
  /\ Ends(t)
  /\ UNCHANGED <<book, srv, row, form, synced, begun, made, taken, apart>>

----------------------------------------------------------------------------
(* Changes *)

\* a page fills a form with the row, and customers send it when they like: after
\* a failure it comes back as they typed it, to be sent again
ContactEditForm(u) ==
  /\ Held(u)
  /\ form' = [form EXCEPT ![u] = row[u].text]
  /\ UNCHANGED <<book, srv, row, synced, job, begun, made, taken, ghosts>>

\* what the form says becomes the whole card, under the etag the row has by now;
\* it may not have another contact's address
ContactEdit(t, u, m) ==
  /\ Held(u)
  /\ form[u] # None
  /\ ~FindByEmail(m, u)
  /\ Begins(t, [Request("edit", "put", u, m) EXCEPT
                  !.etag = row[u].etag, !.found = row[u].text, !.base = form[u]])
  /\ UNCHANGED <<book, srv, row, form, synced, made, taken>>

\* a patch is merged into the card the server has, under the etag of the row
Patches(t, u, m) ==
  /\ Held(u)
  /\ Begins(t, [Request("update", "get", u, m) EXCEPT !.etag = row[u].etag])
  /\ UNCHANGED <<book, srv, row, form, synced, made, taken>>

ApiUpdateContact(t, u, m) == Patches(t, u, m)
ContactsUpdate(t, u, m) == Patches(t, u, m)

GetContact(t) ==
  /\ Does(t, {"update"}, "get")
  /\ IF srv[job[t].u] = None
       THEN Ends(t)
       ELSE job' = [job EXCEPT ![t].at = "put", ![t].base = srv[job[t].u]] /\ UNCHANGED calm
  /\ UNCHANGED <<book, srv, row, form, synced, begun, made, taken, apart>>

\* If-Match
Matches(t) == srv[job[t].u] # None /\ srv[job[t].u].n = job[t].etag

\* a mistake: If-Match is left out
SlipUpdateContact(t) ==
  /\ Does(t, {"edit", "update"}, "put")
  /\ Puts(t)
  /\ UNCHANGED <<book, row, form, synced, begun, taken, ghosts>>

UpdateContact(t) ==
  /\ Does(t, {"edit", "update"}, "put")
  /\ IF Matches(t) THEN Puts(t) /\ UNCHANGED calm ELSE Ends(t) /\ UNCHANGED <<srv, made>>
  /\ UNCHANGED <<book, row, form, synced, begun, taken, apart>>

----------------------------------------------------------------------------
(* Deletions *)

ContactDelete(t, u) ==
  /\ Held(u)
  /\ Begins(t, [Request("delete", "drop", u, None) EXCEPT !.etag = row[u].etag])
  /\ UNCHANGED <<book, srv, row, form, synced, made, taken>>

\* DELETE with If-Match; a refusal or a failure is logged, and the row goes all
\* the same
DeleteContact(t) ==
  /\ Does(t, {"delete"}, "drop")
  /\ \/ Matches(t) /\ srv' = [srv EXCEPT ![job[t].u] = None] /\ UNCHANGED apart
     \/ srv[job[t].u] # None /\ apart' = TRUE /\ UNCHANGED srv
     \/ srv[job[t].u] = None /\ UNCHANGED <<srv, apart>>
  /\ Goes(t, "forget")
  /\ UNCHANGED <<book, row, form, synced, begun, made, taken, calm>>

ForgetContact(t) ==
  /\ Does(t, {"delete"}, "forget")
  /\ row' = [row EXCEPT ![job[t].u] = None]
  /\ Ends(t)
  /\ UNCHANGED <<book, srv, form, synced, begun, made, taken, apart>>

\* the API and the tools delete the rows only
DropsRows(us) ==
  /\ us # {} /\ \A u \in us : Held(u)
  /\ row' = [u \in Uids |-> IF u \in us THEN None ELSE row[u]]
  /\ Disturbs
  /\ UNCHANGED <<book, srv, form, synced, job, made, taken>>

ApiDeleteContact(u) == DropsRows({u})
ContactsDelete(u) == DropsRows({u})
ApiBulkDeleteContacts(us) == DropsRows(us)
ContactsBulkDelete(us) == DropsRows(us)

\* a cache that does not open is made anew
OpenCache ==
  /\ row' = [u \in Uids |-> None]
  /\ synced' = FALSE
  /\ Disturbs
  /\ UNCHANGED <<book, srv, form, job, made, taken>>

----------------------------------------------------------------------------
(* Other clients of the address book *)

WritesElsewhere(u, m) ==
  /\ srv[u] # None \/ u \notin taken
  /\ book' = TRUE
  /\ taken' = taken \union {u}
  /\ made < MaxTexts
  /\ made' = made + 1
  /\ srv' = [srv EXCEPT ![u] = [n |-> made + 1, mail |-> m]]
  /\ Disturbs
  /\ UNCHANGED <<row, form, synced, job>>

DeletesElsewhere(u) ==
  /\ srv[u] # None
  /\ srv' = [srv EXCEPT ![u] = None]
  /\ Disturbs
  /\ UNCHANGED <<book, row, form, synced, job, made, taken>>

----------------------------------------------------------------------------
Init ==
  /\ book = FALSE
  /\ srv = [u \in Uids |-> None]
  /\ row = [u \in Uids |-> None]
  /\ form = [u \in Uids |-> None]
  /\ synced = FALSE
  /\ job = [t \in Threads |-> Idle]
  /\ begun = 0
  /\ made = 0
  /\ taken = {}
  /\ calm = None
  /\ apart = FALSE

Addresses == Mails \union {None}
Recipients == {<<m>> : m \in Mails} \union {<<m, n>> : m, n \in Mails}

Asks(t) ==
  \/ ContactSync(t) \/ ContactList(t)
  \/ \E ms \in Recipients : ApiAutoSave(t, ms)
  \/ \E u \in Uids :
       \/ ContactDelete(t, u)
       \/ \E m \in Addresses :
            \/ ContactNew(t, m, u) \/ ApiCreateContact(t, m, u) \/ ContactsCreate(t, m, u)
            \/ ContactEdit(t, u, m) \/ ApiUpdateContact(t, u, m) \/ ContactsUpdate(t, u, m)

Proceeds(t) ==
  \/ DiscoverAddressBook(t) \/ CreateAddressBook(t) \/ ListContacts(t) \/ ApplyListing(t)
  \/ SkipRecipient(t) \/ (\E u \in Uids : SaveRecipient(t, u)) \/ AutoSaved(t)
  \/ CreateContact(t) \/ StoreContact(t) \/ RequestFails(t) \/ SaveFails(t)
  \/ GetContact(t) \/ UpdateContact(t) \/ DeleteContact(t) \/ ForgetContact(t)

Next ==
  \/ \E t \in Threads : Asks(t) \/ Proceeds(t)
  \/ \E u \in Uids :
       \/ ContactEditForm(u)
       \/ ApiDeleteContact(u) \/ ContactsDelete(u) \/ DeletesElsewhere(u)
       \/ \E m \in Addresses : WritesElsewhere(u, m)
  \/ \E us \in SUBSET Uids : ApiBulkDeleteContacts(us) \/ ContactsBulkDelete(us)
  \/ OpenCache

Spec == Init /\ [][Next]_vars

----------------------------------------------------------------------------
\* What a request writes over a contact was made from the text it replaces: what
\* the form was filled with, or the card the API fetched.  One exception: a form
\* that was older than the row when it was sent replaces the text of that row,
\* which nobody may have read.  Nobody else's change is undone, and a contact
\* somebody deleted does not come back, whatever syncs, edits and other clients'
\* changes come between reading, sending and PUT (etags of rows in
\* upsert_contact, If-Match in update_contact).
EditsSeen ==
  [][\A t \in Threads :
       Does(t, {"edit", "update"}, "put") /\ srv'[job[t].u] # srv[job[t].u] /\ job'[t] # job[t]
         => \/ srv[job[t].u] = job[t].base
            \/ job[t].op = "edit" /\ job[t].base # job[t].found /\ srv[job[t].u] = job[t].found]_vars

\* Requests one at a time, of which none fails half-way, leave the cache as the
\* server, etags included, once a calm sync has made it so, and until somebody
\* writes to one of the two alone (_sync_contacts, contact_new, contact_edit,
\* contact_delete, api_auto_save).
InStep ==
  \/ apart
  \/ \E t \in Threads : job[t] # Idle
  \/ \A u \in Uids : row[u] = IF srv[u] = None THEN None ELSE Row(srv[u])

\* While that lasts, a page that makes or changes a contact, and the saving of
\* recipients, give no two contacts one address (_check_email_duplicates,
\* email_exists).
OneCard ==
  [][\A t \in Threads :
       ~apart /\ Does(t, {"new", "edit", "save"}, "put") /\ srv' # srv
         => \A u \in Uids \ {job[t].u} :
              job[t].mail # None /\ srv[u] # None => srv[u].mail # job[t].mail]_vars
=============================================================================
