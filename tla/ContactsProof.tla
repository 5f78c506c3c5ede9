---------------------------- MODULE ContactsProof ----------------------------
(***************************************************************************)
(* Theorems about Contacts, for any contacts, addresses, requests and      *)
(* bounds.                                                                 *)
(*                                                                         *)
(* The versions of a contact that rows, forms, listings and requests hold  *)
(* are never ahead of the server's, and the one that has the server's etag *)
(* is the server's (Sound).  From it follows that what If-Match lets pass  *)
(* replaces the text that the etag was found with.                         *)
(***************************************************************************)
EXTENDS Contacts, TLAPS

Stages == {"discover", "make", "next", "put", "upsert", "get", "drop", "forget"}
RequestOps == {"new", "api", "save", "edit", "update", "delete"}
Syncs == [op : {"sync"}, at : {"discover", "make", "list"}]
Applies == [op : {"sync"}, at : {"apply"}, listing : [Uids -> Texts \union {None}]]
Requests ==
  [op : RequestOps, at : Stages, u : Uids \union {None}, mail : Addresses, etag : Nat \union {None},
   found : Texts \union {None}, base : Texts \union {None}, text : Texts \union {None}, left : Seq(Mails)]
Jobs == {Idle} \union Syncs \union Applies \union Requests

\* x may be held as a version of contact u, when the server has S and m texts
\* were made
Sound(S, m, u, x) ==
  /\ x \in Texts /\ x.n <= m
  /\ S[u] # None => x.n < S[u].n \/ x = S[u]

RowOK(S, m, u, r) == r \in Rows /\ Sound(S, m, u, r.text) /\ r.etag = r.text.n

\* What a request knows of the text that it is to replace: the row when the form
\* was sent, or the card the API fetched.
Found(j) == IF j.op = "edit" THEN j.found ELSE j.base

\* An edit or a patch that goes to the server found a version as new as its etag.
JobOK(S, m, j) ==
  /\ j.op = "sync" /\ j.at = "apply" =>
       \A u \in Uids : j.listing[u] # None => Sound(S, m, u, j.listing[u])
  /\ j.op \in RequestOps =>
       /\ j.op # "save" \/ j.at \in {"put", "upsert"} => j.u \in Uids
       /\ j.at = "upsert" => Sound(S, m, j.u, j.text)
  /\ j.op \in {"edit", "update"} /\ j.at = "get" =>
       j.etag \in Nat /\ j.etag <= m /\ (S[j.u] # None => j.etag <= S[j.u].n)
  /\ j.op \in {"edit", "update"} /\ j.at = "put" =>
       /\ j.etag \in Nat /\ Sound(S, m, j.u, Found(j)) /\ j.etag <= Found(j).n
       /\ Sound(S, m, j.u, j.base)

ServerOK == made \in Nat /\ srv \in [Uids -> Texts \union {None}] /\ \A u \in Uids : srv[u] # None => srv[u].n <= made
RowsOK == row \in [Uids -> Rows \union {None}] /\ \A u \in Uids : row[u] # None => RowOK(srv, made, u, row[u])
JobsOK == job \in [Threads -> Jobs] /\ \A t \in Threads : JobOK(srv, made, job[t])

IInv == ServerOK /\ RowsOK /\ JobsOK

FormsOK ==
  form \in [Uids -> Texts \union {None}] /\ \A u \in Uids : form[u] # None => Sound(srv, made, u, form[u])

-----------------------------------------------------------------------------
(* What the server does to a contact: nothing, delete it, or replace it by a *)
(* text that is newer than all before.                                       *)
Grows(S, m, S2, m2) ==
  /\ m2 >= m
  /\ \A u \in Uids : S2[u] = S[u] \/ S2[u] = None \/ (S2[u] \in Texts /\ S2[u].n > m)

\* A version that may be held can still be held.
LEMMA SoundGrows ==
  ASSUME NEW S, NEW m \in Nat, NEW S2, NEW m2 \in Nat, Grows(S, m, S2, m2),
         NEW u \in Uids, NEW x, Sound(S, m, u, x)
  PROVE  Sound(S2, m2, u, x)
BY DEF Grows, Sound, Texts

\* What a request may hold it can still hold.
LEMMA JobGrows ==
  ASSUME NEW S, NEW m \in Nat, NEW S2, NEW m2 \in Nat, Grows(S, m, S2, m2),
         NEW j, JobOK(S, m, j)
  PROVE  JobOK(S2, m2, j)
<1>1. j.op = "sync" /\ j.at = "apply" =>
        \A u \in Uids : j.listing[u] # None => Sound(S2, m2, u, j.listing[u])
  BY SoundGrows DEF JobOK
<1>2. j.op \in RequestOps =>
        /\ j.op # "save" \/ j.at \in {"put", "upsert"} => j.u \in Uids
        /\ j.at = "upsert" => Sound(S2, m2, j.u, j.text)
  <2>1. j.op \in RequestOps /\ j.at = "upsert" => j.u \in Uids /\ Sound(S, m, j.u, j.text)
    BY DEF JobOK
  <2> QED BY <2>1, SoundGrows DEF JobOK
<1>3. j.op \in {"edit", "update"} /\ j.at = "get" =>
        j.etag \in Nat /\ j.etag <= m2 /\ (S2[j.u] # None => j.etag <= S2[j.u].n)
  BY DEF JobOK, Grows, RequestOps, Texts
<1>4. j.op \in {"edit", "update"} /\ j.at = "put" =>
        /\ j.etag \in Nat /\ Sound(S2, m2, j.u, Found(j)) /\ j.etag <= Found(j).n
        /\ Sound(S2, m2, j.u, j.base)
  <2>1. j.op \in {"edit", "update"} => j.u \in Uids
    BY DEF JobOK, RequestOps
  <2> QED BY <2>1, SoundGrows DEF JobOK
<1> QED BY <1>1, <1>2, <1>3, <1>4 DEF JobOK

\* A row may be kept.
LEMMA RowGrows ==
  ASSUME NEW S, NEW m \in Nat, NEW S2, NEW m2 \in Nat, Grows(S, m, S2, m2),
         NEW u \in Uids, NEW r, RowOK(S, m, u, r)
  PROVE  RowOK(S2, m2, u, r)
BY SoundGrows DEF RowOK

\* Nothing changes for what is held while the server rests.
LEMMA RestGrows == ASSUME NEW S, NEW m \in Nat PROVE Grows(S, m, S, m)
BY DEF Grows

\* A step of one request, or of none, that leaves rows and server alone.
LEMMA StillKeeps ==
  ASSUME IInv, NEW t \in Threads, NEW j \in Jobs, JobOK(srv, made, j),
         job' = [job EXCEPT ![t] = j], UNCHANGED <<srv, made, row>>
  PROVE  IInv'
BY DEF IInv, ServerOK, RowsOK, JobsOK

\* A text that is put on the server is newer than all that is held.
LEMMA PutGrows ==
  ASSUME IInv, NEW u \in Uids, NEW text \in Texts, text.n = made + 1,
         made' = made + 1, srv' = [srv EXCEPT ![u] = text], UNCHANGED row
  PROVE  Grows(srv, made, srv', made') /\ ServerOK' /\ RowsOK' /\ Sound(srv', made', u, text)
<1>1. Grows(srv, made, srv', made') BY DEF IInv, ServerOK, Grows, Texts
<1>2. ServerOK' BY DEF IInv, ServerOK, Texts
<1>3. RowsOK' BY <1>1, <1>2, RowGrows DEF IInv, ServerOK, RowsOK
<1>4. Sound(srv', made', u, text) BY <1>2 DEF IInv, ServerOK, Sound
<1> QED BY <1>1, <1>2, <1>3, <1>4

\* A contact that is deleted leaves what is held as it is.
LEMMA DeleteGrows ==
  ASSUME IInv, NEW u \in Uids, srv' = [srv EXCEPT ![u] = None], UNCHANGED <<made, row>>
  PROVE  Grows(srv, made, srv', made') /\ ServerOK' /\ RowsOK'
<1>1. Grows(srv, made, srv', made') BY DEF IInv, ServerOK, Grows
<1>2. ServerOK' BY DEF IInv, ServerOK
<1>3. RowsOK' BY <1>1, <1>2, RowGrows DEF IInv, ServerOK, RowsOK
<1> QED BY <1>1, <1>2, <1>3

\* The requests, one of which moves on.
LEMMA JobsKeep ==
  ASSUME IInv, Grows(srv, made, srv', made'), made' \in Nat,
         NEW t \in Threads, NEW j \in Jobs, JobOK(srv', made', j), job' = [job EXCEPT ![t] = j]
  PROVE  JobsOK'
<1>1. job' \in [Threads -> Jobs] BY DEF IInv, JobsOK
<1>2. ASSUME NEW s \in Threads PROVE JobOK(srv', made', job'[s])
  BY JobGrows DEF IInv, ServerOK, JobsOK
<1> QED BY <1>1, <1>2 DEF JobsOK

\* The requests, while somebody else writes.
LEMMA JobsWait ==
  ASSUME IInv, Grows(srv, made, srv', made'), made' \in Nat, UNCHANGED job
  PROVE  JobsOK'
<1>2. ASSUME NEW s \in Threads PROVE JobOK(srv', made', job'[s])
  BY JobGrows DEF IInv, ServerOK, JobsOK
<1> QED BY <1>2 DEF IInv, JobsOK

\* Rows that are dropped.
LEMMA DropKeeps ==
  ASSUME IInv, UNCHANGED <<srv, made>>, row' \in [Uids -> Rows \union {None}],
         \A u \in Uids : row'[u] = row[u] \/ row'[u] = None
  PROVE  RowsOK' /\ ServerOK'
BY DEF IInv, ServerOK, RowsOK

-----------------------------------------------------------------------------
\* It holds at first.
LEMMA InitInv == Init => IInv /\ FormsOK
BY DEF Init, IInv, ServerOK, RowsOK, JobsOK, FormsOK, JobOK, Jobs, Idle, RequestOps

\* Beginning a request.
LEMMA BeginKeeps ==
  ASSUME IInv, NEW t \in Threads, NEW j \in Jobs, JobOK(srv, made, j),
         Begins(t, j), UNCHANGED <<srv, made, row>>
  PROVE  IInv'
BY StillKeeps DEF Begins

\* Every request begins with a record of its kind.
LEMMA RequestType ==
  ASSUME NEW op \in RequestOps, NEW at \in Stages, NEW u \in Uids \union {None}, NEW m \in Addresses
  PROVE  Request(op, at, u, m) \in Requests
<1>1. <<>> \in Seq(Mails) OBVIOUS
<1> QED BY <1>1 DEF Request, Requests

\* Asking for something.
LEMMA AskKeeps ==
  ASSUME IInv, FormsOK, NEW t \in Threads, Asks(t)
  PROVE  IInv'
<1> USE DEF Jobs
<1>1. CASE Sync(t)
  <2>1. [op |-> "sync", at |-> "discover"] \in Jobs BY DEF Syncs
  <2>2. JobOK(srv, made, [op |-> "sync", at |-> "discover"]) BY DEF JobOK, RequestOps
  <2> QED BY <1>1, <2>1, <2>2, BeginKeeps DEF Sync
<1>2. ASSUME NEW ms \in Recipients, ApiAutoSave(t, ms) PROVE IInv'
  <2> DEFINE j == [Request("save", "discover", None, None) EXCEPT !.left = ms]
  <2>1. ms \in Seq(Mails)
    <3>1. \A m \in Mails : <<m>> \in Seq(Mails) OBVIOUS
    <3>2. \A m, n \in Mails : <<m, n>> \in Seq(Mails) OBVIOUS
    <3>3. CASE ms \in {<<m>> : m \in Mails}
      <4>1. PICK m \in Mails : ms = <<m>> BY <3>3
      <4> QED BY <3>1, <4>1
    <3>4. CASE ms \in {<<m, n>> : m, n \in Mails}
      <4>1. PICK m \in Mails, n \in Mails : ms = <<m, n>> BY <3>4
      <4> QED BY <3>2, <4>1
    <3> QED BY <3>3, <3>4 DEF Recipients
  <2>2. j \in Requests
    <3>1. Request("save", "discover", None, None) \in Requests
      BY RequestType DEF RequestOps, Stages, Addresses
    <3> QED BY <3>1, <2>1 DEF Requests
  <2>3. JobOK(srv, made, j) BY DEF JobOK, RequestOps, Request
  <2> QED BY <1>2, <2>2, <2>3, BeginKeeps DEF ApiAutoSave
<1>3. ASSUME NEW u \in Uids, ContactDelete(t, u) PROVE IInv'
  <2>r. Request("delete", "drop", u, None) \in Requests
    BY RequestType DEF RequestOps, Stages, Addresses
  <2> DEFINE j == [Request("delete", "drop", u, None) EXCEPT !.etag = row[u].etag]
  <2>1. row[u].etag \in Nat BY <1>3 DEF ContactDelete, Held, IInv, RowsOK, Rows
  <2>2. j \in Requests BY <2>r, <2>1 DEF Requests
  <2>3. JobOK(srv, made, j) BY DEF JobOK, RequestOps, Request
  <2> QED BY <1>3, <2>2, <2>3, BeginKeeps DEF ContactDelete
<1>4. ASSUME NEW u \in Uids, NEW m \in Addresses, NEW op \in {"new", "api"}, Creates(t, op, m, u) PROVE IInv'
  <2> DEFINE j == Request(op, "discover", u, m)
  <2>1. j \in Requests BY RequestType DEF RequestOps, Stages
  <2>2. JobOK(srv, made, j) BY DEF JobOK, RequestOps, Request
  <2> QED BY <1>4, <2>1, <2>2, BeginKeeps DEF Creates
<1>5. ASSUME NEW u \in Uids, NEW m \in Addresses, ContactEdit(t, u, m) PROVE IInv'
  <2>r. Request("edit", "put", u, m) \in Requests
    BY RequestType DEF RequestOps, Stages, Addresses
  <2> DEFINE j == [Request("edit", "put", u, m) EXCEPT
                    !.etag = row[u].etag, !.found = row[u].text, !.base = form[u]]
  <2>1. RowOK(srv, made, u, row[u]) BY <1>5 DEF ContactEdit, Held, IInv, RowsOK
  <2>3. form[u] \in Texts /\ Sound(srv, made, u, form[u]) BY <1>5 DEF ContactEdit, FormsOK
  <2>2. j \in Requests BY <2>r, <2>1, <2>3 DEF Requests, RowOK, Rows
  <2>4. j.op = "edit" /\ j.at = "put" /\ j.u = u /\ j.etag = row[u].etag /\ j.found = row[u].text /\ j.base = form[u]
    BY DEF Request
  <2>5. JobOK(srv, made, j) BY <2>1, <2>3, <2>4 DEF JobOK, RequestOps, RowOK, Rows, Found, Texts
  <2> QED BY <1>5, <2>2, <2>5, BeginKeeps DEF ContactEdit
<1>6. ASSUME NEW u \in Uids, NEW m \in Addresses, Patches(t, u, m) PROVE IInv'
  <2>r. Request("update", "get", u, m) \in Requests
    BY RequestType DEF RequestOps, Stages, Addresses
  <2> DEFINE j == [Request("update", "get", u, m) EXCEPT !.etag = row[u].etag]
  <2>1. RowOK(srv, made, u, row[u]) BY <1>6 DEF Patches, Held, IInv, RowsOK
  <2>2. j \in Requests BY <2>r, <2>1 DEF Requests, RowOK, Rows
  <2>3. srv[u] # None => row[u].etag <= srv[u].n
    BY <2>1 DEF RowOK, Rows, Sound, Texts, IInv, ServerOK
  <2>4. JobOK(srv, made, j) BY <2>1, <2>3 DEF JobOK, RequestOps, Request, RowOK, Rows, Sound
  <2> QED BY <1>6, <2>2, <2>4, BeginKeeps DEF Patches
<1> QED BY <1>1, <1>2, <1>3, <1>4, <1>5, <1>6
        DEF Asks, ContactSync, ContactList, ContactNew, ApiCreateContact, ContactsCreate,
            ApiUpdateContact, ContactsUpdate

-----------------------------------------------------------------------------
\* A request ends, and leaves server and rows alone.
LEMMA EndKeeps ==
  ASSUME IInv, NEW t \in Threads, Ends(t), UNCHANGED <<srv, made, row>>
  PROVE  IInv'
<1>1. JobOK(srv, made, Idle) BY DEF JobOK, Idle, RequestOps
<1> QED BY <1>1, StillKeeps DEF Ends, Jobs

\* Where requests of the address book go on.
LEMMA DiscoverKeeps ==
  ASSUME IInv, NEW t \in Threads, DiscoverAddressBook(t) \/ CreateAddressBook(t)
  PROVE  IInv'
<1> DEFINE to == IF DiscoverAddressBook(t) THEN (IF book THEN NextOf(job[t].op) ELSE "make") ELSE NextOf(job[t].op)
           j == [job[t] EXCEPT !.at = to]
<1>1. job[t] \in Jobs /\ JobOK(srv, made, job[t]) BY DEF IInv, JobsOK
<1>2. job' = [job EXCEPT ![t] = j] /\ UNCHANGED <<srv, made, row>>
  BY DEF DiscoverAddressBook, CreateAddressBook, Goes, IInv, JobsOK
<1>3. job[t].op \in {"sync", "new", "api", "save"} /\ job[t].at \in {"discover", "make"}
  BY DEF DiscoverAddressBook, CreateAddressBook, Does
<1>4. CASE job[t].op = "sync"
  <2>1. job[t] \in Syncs BY <1>1, <1>3, <1>4 DEF Jobs, Idle, Applies, Requests, RequestOps, Syncs
  <2>2. to \in {"make", "list"} BY <1>4 DEF NextOf
  <2>3. j \in Syncs /\ j.at # "apply" BY <2>1, <2>2 DEF Syncs
  <2>4. JobOK(srv, made, j) BY <2>3 DEF JobOK, Syncs, RequestOps
  <2> QED BY <1>2, <2>3, <2>4, StillKeeps DEF Jobs
<1>5. CASE job[t].op \in {"new", "api", "save"}
  <2>1. job[t] \in Requests BY <1>1, <1>5 DEF Jobs, Idle, Applies, Requests, Syncs
  <2>2. to = "make" \/ to = (IF job[t].op = "save" THEN "next" ELSE "put") BY <1>5 DEF NextOf
  <2>3. j \in Requests BY <2>1, <2>2 DEF Requests, Stages
  <2>4. JobOK(srv, made, j)
    <3>1. j.op = job[t].op /\ j.u = job[t].u /\ j.at = to BY <2>1 DEF Requests
    <3> QED BY <1>1, <1>5, <2>2, <3>1 DEF JobOK, RequestOps
  <2> QED BY <1>2, <2>3, <2>4, StillKeeps DEF Jobs
<1> QED BY <1>3, <1>4, <1>5

\* What a request is, by what it is doing.
LEMMA JobKinds ==
  ASSUME IInv, NEW t \in Threads
  PROVE  /\ job[t] \in Jobs /\ JobOK(srv, made, job[t])
         /\ job[t].op \in RequestOps => job[t] \in Requests
         /\ job[t].op = "sync" /\ job[t].at = "apply" => job[t] \in Applies
BY DEF IInv, JobsOK, Jobs, Idle, Syncs, Applies, Requests, RequestOps

\* A request that is through with a contact.
LEMMA LeaveKeeps ==
  ASSUME IInv, NEW t \in Threads, job[t].op \in RequestOps, Leaves(t), UNCHANGED <<srv, made, row>>
  PROVE  IInv'
<1>1. CASE job[t].op = "save"
  <2> DEFINE j == [job[t] EXCEPT !.at = "next"]
  <2>1. j \in Requests /\ j.op = "save" /\ j.at = "next" BY JobKinds, <1>1 DEF Requests, Stages
  <2>2. JobOK(srv, made, j) BY <2>1 DEF JobOK, RequestOps
  <2>3. job' = [job EXCEPT ![t] = j] BY <1>1 DEF Leaves, Goes, IInv, JobsOK
  <2> QED BY <2>1, <2>2, <2>3, StillKeeps DEF Jobs
<1>2. CASE job[t].op # "save" BY <1>2, EndKeeps DEF Leaves
<1> QED BY <1>1, <1>2

\* The server lists what it has.
LEMMA ListKeeps ==
  ASSUME IInv, NEW t \in Threads, ListContacts(t)
  PROVE  IInv'
<1> DEFINE j == [op |-> "sync", at |-> "apply", listing |-> srv]
<1>1. j \in Applies BY DEF Applies, IInv, ServerOK
<1>2. \A u \in Uids : srv[u] # None => Sound(srv, made, u, srv[u]) BY DEF IInv, ServerOK, Sound
<1>3. JobOK(srv, made, j) BY <1>2 DEF JobOK, RequestOps
<1> QED BY <1>1, <1>3, StillKeeps DEF ListContacts, Jobs

\* The rows become the listing.
LEMMA ApplyKeeps ==
  ASSUME IInv, NEW t \in Threads, ApplyListing(t)
  PROVE  IInv'
<1>1. job[t] \in Applies /\ JobOK(srv, made, job[t]) BY JobKinds DEF ApplyListing, Does
<1>2. RowsOK'
  <2>1. job[t].listing \in [Uids -> Texts \union {None}] BY <1>1 DEF Applies
  <2>2. \A u \in Uids : job[t].listing[u] # None => Sound(srv, made, u, job[t].listing[u])
    BY <1>1 DEF JobOK, ApplyListing, Does
  <2>3. \A u \in Uids : job[t].listing[u] # None => RowOK(srv, made, u, Row(job[t].listing[u]))
    BY <2>1, <2>2 DEF RowOK, Row, Rows, Texts
  <2>4. \A u \in Uids : row'[u] = IF job[t].listing[u] = None THEN None ELSE Row(job[t].listing[u])
    BY DEF ApplyListing, Mirrored
  <2>5. row' \in [Uids -> Rows \union {None}] BY <2>3 DEF ApplyListing, Mirrored, RowOK
  <2> QED BY <2>3, <2>4, <2>5 DEF RowsOK, ApplyListing
<1>3. JobsOK'
  <2>1. JobOK(srv', made', Idle) BY DEF JobOK, Idle, RequestOps
  <2>2. Grows(srv, made, srv', made') /\ made' \in Nat BY RestGrows DEF ApplyListing, IInv, ServerOK
  <2>3. job' = [job EXCEPT ![t] = Idle] BY DEF ApplyListing, Ends
  <2> QED BY <2>1, <2>2, <2>3, JobsKeep DEF Jobs
<1>4. ServerOK' BY DEF ApplyListing, IInv, ServerOK
<1> QED BY <1>2, <1>3, <1>4 DEF IInv

\* The recipients of a message, one by one.
LEMMA RecipientKeeps ==
  ASSUME IInv, NEW t \in Threads, SkipRecipient(t) \/ AutoSaved(t) \/ SaveFails(t)
  PROVE  IInv'
<1>1. CASE SkipRecipient(t)
  <2> DEFINE j == [job[t] EXCEPT !.left = Tail(@)]
  <2>1. job[t] \in Requests /\ job[t].op = "save" /\ job[t].at = "next" /\ job[t].left # <<>>
    BY <1>1, JobKinds DEF SkipRecipient, Does, RequestOps
  <2>2. Tail(job[t].left) \in Seq(Mails) BY <2>1 DEF Requests
  <2>3. j \in Requests /\ j.op = "save" /\ j.at = "next" BY <2>1, <2>2 DEF Requests
  <2>4. JobOK(srv, made, j) BY <2>3 DEF JobOK, RequestOps
  <2> QED BY <1>1, <2>3, <2>4, StillKeeps DEF SkipRecipient, Jobs
<1>2. CASE AutoSaved(t) \/ SaveFails(t) BY <1>2, EndKeeps DEF AutoSaved, SaveFails
<1> QED BY <1>1, <1>2

\* A recipient is saved with a UID of its own.
LEMMA SaveKeeps ==
  ASSUME IInv, NEW t \in Threads, NEW u \in Uids, SaveRecipient(t, u)
  PROVE  IInv'
<1> DEFINE j == [Request("save", "put", u, Head(job[t].left)) EXCEPT !.left = Tail(job[t].left)]
<1>1. job[t] \in Requests /\ job[t].left # <<>>
  BY JobKinds DEF SaveRecipient, Does, RequestOps
<1>2. Tail(job[t].left) \in Seq(Mails) /\ Head(job[t].left) \in Addresses BY <1>1 DEF Requests, Addresses
<1>3. Request("save", "put", u, Head(job[t].left)) \in Requests
  BY <1>2, RequestType DEF RequestOps, Stages
<1>4. j \in Requests BY <1>2, <1>3 DEF Requests
<1>5. j.op = "save" /\ j.at = "put" /\ j.u = u BY DEF Request
<1>6. JobOK(srv, made, j) BY <1>5 DEF JobOK, RequestOps
<1>7. job' = [job EXCEPT ![t] = j] BY DEF SaveRecipient, IInv, JobsOK
<1> QED BY <1>4, <1>6, <1>7, StillKeeps DEF SaveRecipient, Jobs

\* A PUT that is taken.
LEMMA PutKeeps ==
  ASSUME IInv, NEW t \in Threads, job[t].op \in RequestOps, job[t].at = "put", Puts(t), UNCHANGED row
  PROVE  IInv'
<1> DEFINE text == [n |-> made + 1, mail |-> job[t].mail]
           j == [job[t] EXCEPT !.at = "upsert", !.text = text]
<1>1. job[t] \in Requests /\ job[t].u \in Uids BY JobKinds DEF JobOK
<1>2. text \in Texts /\ text.n = made + 1 BY <1>1 DEF Texts, Requests, Addresses, IInv, ServerOK
<1>3. Grows(srv, made, srv', made') /\ ServerOK' /\ RowsOK' /\ Sound(srv', made', job[t].u, text)
  BY <1>1, <1>2, PutGrows DEF Puts
<1>4. j \in Requests /\ j.op = job[t].op /\ j.u = job[t].u /\ j.at = "upsert" /\ j.text = text
  BY <1>1, <1>2 DEF Requests, Stages
<1>5. JobOK(srv', made', j) BY <1>1, <1>3, <1>4 DEF JobOK
<1>6. job' = [job EXCEPT ![t] = j] BY DEF Puts, IInv, JobsOK
<1>7. JobsOK' BY <1>3, <1>4, <1>5, <1>6, JobsKeep DEF Jobs, ServerOK
<1> QED BY <1>3, <1>7 DEF IInv

\* The answer of a PUT is stored.
LEMMA StoreKeeps ==
  ASSUME IInv, NEW t \in Threads, StoreContact(t)
  PROVE  IInv'
<1>1. job[t] \in Requests /\ job[t].u \in Uids /\ Sound(srv, made, job[t].u, job[t].text)
  BY JobKinds DEF StoreContact, Does, RequestOps, JobOK
<1>2. RowOK(srv, made, job[t].u, Row(job[t].text))
  BY <1>1 DEF Sound, RowOK, Row, Rows, Texts
<1>3. RowsOK' BY <1>1, <1>2 DEF StoreContact, UpsertContact, RowsOK, IInv, RowOK
<1>4. ServerOK' BY DEF StoreContact, IInv, ServerOK
<1>5. CASE job[t].op = "save"
  <2> DEFINE j == [job[t] EXCEPT !.at = "next"]
  <2>1. j \in Requests /\ j.op = "save" /\ j.at = "next" BY <1>1, <1>5 DEF Requests, Stages
  <2>2. JobOK(srv', made', j) BY <2>1 DEF JobOK, RequestOps
  <2>3. job' = [job EXCEPT ![t] = j] BY <1>5 DEF StoreContact, Leaves, Goes, IInv, JobsOK
  <2>4. Grows(srv, made, srv', made') BY RestGrows DEF StoreContact, IInv, ServerOK
  <2>5. JobsOK' BY <1>4, <2>1, <2>2, <2>3, <2>4, JobsKeep DEF Jobs, ServerOK
  <2> QED BY <1>3, <1>4, <2>5 DEF IInv
<1>6. CASE job[t].op # "save"
  <2>1. JobOK(srv', made', Idle) BY DEF JobOK, Idle, RequestOps
  <2>2. job' = [job EXCEPT ![t] = Idle] BY <1>6 DEF StoreContact, Leaves, Ends
  <2>3. Grows(srv, made, srv', made') BY RestGrows DEF StoreContact, IInv, ServerOK
  <2>4. JobsOK' BY <1>4, <2>1, <2>2, <2>3, JobsKeep DEF Jobs, ServerOK
  <2> QED BY <1>3, <1>4, <2>4 DEF IInv
<1> QED BY <1>5, <1>6

\* A call that fails.
LEMMA FailKeeps ==
  ASSUME IInv, NEW t \in Threads, RequestFails(t)
  PROVE  IInv'
<1>1. CASE job[t].op = "sync" BY <1>1, EndKeeps DEF RequestFails, Leaves
<1>2. CASE job[t].op \in RequestOps BY <1>2, LeaveKeeps DEF RequestFails
<1>3. job[t].op = "sync" \/ job[t].op \in RequestOps BY DEF RequestFails, Does, RequestOps
<1> QED BY <1>1, <1>2, <1>3

\* The card that a patch is merged into is at least as new as its row was.
LEMMA GetKeeps ==
  ASSUME IInv, NEW t \in Threads, GetContact(t)
  PROVE  IInv'
<1>1. CASE srv[job[t].u] = None BY <1>1, EndKeeps DEF GetContact
<1>2. CASE srv[job[t].u] # None
  <2> DEFINE j == [job[t] EXCEPT !.at = "put", !.base = srv[job[t].u]]
  <2>1. /\ job[t] \in Requests /\ job[t].op = "update" /\ job[t].u \in Uids
        /\ job[t].etag \in Nat /\ job[t].etag <= srv[job[t].u].n
    BY <1>2, JobKinds DEF GetContact, Does, JobOK, RequestOps
  <2>2. srv[job[t].u] \in Texts /\ Sound(srv, made, job[t].u, srv[job[t].u])
    BY <1>2, <2>1 DEF IInv, ServerOK, Sound
  <2>3. /\ j \in Requests /\ j.op = "update" /\ j.u = job[t].u /\ j.at = "put"
        /\ j.etag = job[t].etag /\ j.base = srv[job[t].u]
    BY <2>1, <2>2 DEF Requests, Stages
  <2>4. JobOK(srv, made, j) BY <2>1, <2>2, <2>3 DEF JobOK, Found
  <2>5. job' = [job EXCEPT ![t] = j] BY <1>2 DEF GetContact, IInv, JobsOK
  <2> QED BY <2>3, <2>4, <2>5, StillKeeps DEF GetContact, Jobs
<1> QED BY <1>1, <1>2

\* A conditional PUT.
LEMMA UpdateKeeps ==
  ASSUME IInv, NEW t \in Threads, UpdateContact(t)
  PROVE  IInv'
<1>1. CASE Matches(t)
  BY <1>1, PutKeeps DEF UpdateContact, Does, RequestOps
<1>2. CASE ~Matches(t) BY <1>2, EndKeeps DEF UpdateContact
<1> QED BY <1>1, <1>2

\* A deletion.
LEMMA DeleteKeeps ==
  ASSUME IInv, NEW t \in Threads, DeleteContact(t)
  PROVE  IInv'
<1> DEFINE j == [job[t] EXCEPT !.at = "forget"]
<1>1. job[t] \in Requests /\ job[t].op = "delete" /\ job[t].u \in Uids
  BY JobKinds DEF DeleteContact, Does, RequestOps, JobOK
<1>2. j \in Requests /\ j.op = "delete" /\ j.u = job[t].u /\ j.at = "forget" BY <1>1 DEF Requests, Stages
<1>3. JobOK(srv', made', j) BY <1>1, <1>2 DEF JobOK, RequestOps
<1>4. job' = [job EXCEPT ![t] = j] BY DEF DeleteContact, Goes, IInv, JobsOK
<1>5. srv' = [srv EXCEPT ![job[t].u] = None] \/ srv' = srv BY DEF DeleteContact
<1>6. Grows(srv, made, srv', made') /\ ServerOK' /\ RowsOK'
  <2>1. CASE srv' = [srv EXCEPT ![job[t].u] = None]
    BY <1>1, <2>1, DeleteGrows DEF DeleteContact
  <2>2. CASE srv' = srv
    BY <2>2, RestGrows DEF DeleteContact, IInv, ServerOK, RowsOK
  <2> QED BY <1>5, <2>1, <2>2
<1>7. JobsOK' BY <1>2, <1>3, <1>4, <1>6, JobsKeep DEF Jobs, ServerOK
<1> QED BY <1>6, <1>7 DEF IInv

\* The row of a contact that is gone goes.
LEMMA ForgetKeeps ==
  ASSUME IInv, NEW t \in Threads, ForgetContact(t)
  PROVE  IInv'
<1>1. job[t].u \in Uids BY JobKinds DEF ForgetContact, Does, RequestOps, JobOK
<1>2. RowsOK' /\ ServerOK'
  <2>1. row' \in [Uids -> Rows \union {None}] /\ \A u \in Uids : row'[u] = row[u] \/ row'[u] = None
    BY <1>1 DEF ForgetContact, IInv, RowsOK
  <2> QED BY <2>1, DropKeeps DEF ForgetContact
<1>3. JobOK(srv', made', Idle) BY DEF JobOK, Idle, RequestOps
<1>4. Grows(srv, made, srv', made') BY RestGrows DEF ForgetContact, IInv, ServerOK
<1>5. job' = [job EXCEPT ![t] = Idle] BY DEF ForgetContact, Ends
<1>6. JobsOK' BY <1>2, <1>3, <1>4, <1>5, JobsKeep DEF Jobs, ServerOK
<1> QED BY <1>2, <1>6 DEF IInv

\* Rows that go without a request.
LEMMA RowsGo ==
  ASSUME IInv, OpenCache \/ \E us \in SUBSET Uids : DropsRows(us)
  PROVE  IInv'
<1>1. /\ row' \in [Uids -> Rows \union {None}] /\ \A u \in Uids : row'[u] = row[u] \/ row'[u] = None
      /\ UNCHANGED <<srv, made, job>>
  BY DEF OpenCache, DropsRows, IInv, RowsOK
<1>2. RowsOK' /\ ServerOK' BY <1>1, DropKeeps
<1>3. JobsOK' BY <1>1, <1>2, RestGrows, JobsWait DEF IInv, ServerOK
<1> QED BY <1>2, <1>3 DEF IInv

\* Other clients.
LEMMA OthersKeep ==
  ASSUME IInv, NEW u \in Uids, DeletesElsewhere(u) \/ \E m \in Addresses : WritesElsewhere(u, m)
  PROVE  IInv'
<1>1. Grows(srv, made, srv', made') /\ ServerOK' /\ RowsOK' /\ job' = job
  <2>1. CASE DeletesElsewhere(u) BY <2>1, DeleteGrows DEF DeletesElsewhere
  <2>2. ASSUME NEW m \in Addresses, WritesElsewhere(u, m)
        PROVE  Grows(srv, made, srv', made') /\ ServerOK' /\ RowsOK' /\ job' = job
    <3> DEFINE text == [n |-> made + 1, mail |-> m]
    <3>1. text \in Texts /\ text.n = made + 1 BY DEF Texts, Addresses, IInv, ServerOK
    <3> QED BY <2>2, <3>1, PutGrows DEF WritesElsewhere
  <2> QED BY <2>1, <2>2
<1>2. JobsOK' BY <1>1, JobsWait DEF ServerOK
<1> QED BY <1>1, <1>2 DEF IInv

\* Every step keeps the invariant.
LEMMA StepInv == IInv /\ FormsOK /\ [Next]_vars => IInv'
<1> SUFFICES ASSUME IInv, FormsOK, [Next]_vars PROVE IInv'
  OBVIOUS
<1>1. CASE UNCHANGED vars
  BY <1>1, Zenon DEF vars, ghosts, IInv, ServerOK, RowsOK, JobsOK
<1>2. ASSUME NEW t \in Threads, Asks(t) PROVE IInv' BY <1>2, AskKeeps
<1>3. ASSUME NEW t \in Threads, Proceeds(t) PROVE IInv'
  BY <1>3, DiscoverKeeps, ListKeeps, ApplyKeeps, RecipientKeeps, SaveKeeps, StoreKeeps, FailKeeps,
     GetKeeps, UpdateKeeps, DeleteKeeps, ForgetKeeps, PutKeeps
     DEF Proceeds, CreateContact, Does, RequestOps
<1>4. ASSUME NEW u \in Uids, ApiDeleteContact(u) \/ ContactsDelete(u) PROVE IInv'
  <2>1. {u} \in SUBSET Uids OBVIOUS
  <2> QED BY <1>4, <2>1, RowsGo DEF ApiDeleteContact, ContactsDelete
<1>5. ASSUME NEW us \in SUBSET Uids, ApiBulkDeleteContacts(us) \/ ContactsBulkDelete(us) PROVE IInv'
  BY <1>5, RowsGo DEF ApiBulkDeleteContacts, ContactsBulkDelete
<1>6. CASE OpenCache BY <1>6, RowsGo
<1>7. ASSUME NEW u \in Uids, DeletesElsewhere(u) \/ \E m \in Addresses : WritesElsewhere(u, m) PROVE IInv'
  BY <1>7, OthersKeep
<1>8. ASSUME NEW u \in Uids, ContactEditForm(u) PROVE IInv'
  BY <1>8 DEF ContactEditForm, ghosts, IInv, ServerOK, RowsOK, JobsOK
<1> QED BY <1>1, <1>2, <1>3, <1>4, <1>5, <1>6, <1>7, <1>8 DEF Next

\* What a step does to the server.
LEMMA StepGrows ==
  ASSUME IInv, [Next]_vars
  PROVE  Grows(srv, made, srv', made')
<1>1. made \in Nat BY DEF IInv, ServerOK
<1>2. CASE UNCHANGED <<srv, made>> BY <1>1, <1>2, RestGrows
<1>3. ASSUME NEW u \in Uids, DeletesElsewhere(u) \/ \E m \in Addresses : WritesElsewhere(u, m)
      PROVE  Grows(srv, made, srv', made')
  BY <1>3 DEF DeletesElsewhere, WritesElsewhere, Addresses, Grows, Texts, IInv, ServerOK
<1>4. ASSUME NEW t \in Threads, CreateContact(t) \/ UpdateContact(t) \/ DeleteContact(t)
      PROVE  Grows(srv, made, srv', made')
  <2>1. CASE Puts(t)
    <3>1. job[t] \in Requests /\ job[t].u \in Uids
      BY <1>4, JobKinds DEF CreateContact, UpdateContact, DeleteContact, Does, RequestOps, JobOK
    <3>2. [n |-> made + 1, mail |-> job[t].mail] \in Texts BY <1>1, <3>1 DEF Requests, Addresses, Texts
    <3> QED BY <1>1, <2>1, <3>1, <3>2 DEF Puts, Grows, IInv, ServerOK
  <2>2. CASE UNCHANGED made /\ srv' = [srv EXCEPT ![job[t].u] = None]
    BY <1>1, <2>2 DEF Grows, IInv, ServerOK
  <2> QED BY <1>2, <1>4, <2>1, <2>2 DEF CreateContact, UpdateContact, DeleteContact
<1>5. ASSUME Next, ~UNCHANGED <<srv, made>>,
             \A u \in Uids : ~DeletesElsewhere(u) /\ \A m \in Addresses : ~WritesElsewhere(u, m)
      PROVE  \E t \in Threads : CreateContact(t) \/ UpdateContact(t) \/ DeleteContact(t)
  <2>1. ~OpenCache /\ \A us \in SUBSET Uids : ~ApiBulkDeleteContacts(us) /\ ~ContactsBulkDelete(us)
    BY <1>5 DEF OpenCache, ApiBulkDeleteContacts, ContactsBulkDelete, DropsRows
  <2>2. \A u \in Uids : ~ContactEditForm(u) /\ ~ApiDeleteContact(u) /\ ~ContactsDelete(u)
    BY <1>5 DEF ContactEditForm, ApiDeleteContact, ContactsDelete, DropsRows
  <2>3. ASSUME NEW s \in Threads PROVE ~Asks(s)
    BY <1>5 DEF Asks, ContactSync, ContactList, Sync, ApiAutoSave, ContactDelete, ContactNew, ApiCreateContact,
           ContactsCreate, Creates, ContactEdit, ApiUpdateContact, ContactsUpdate, Patches
  <2>4. ASSUME NEW s \in Threads, Proceeds(s) PROVE CreateContact(s) \/ UpdateContact(s) \/ DeleteContact(s)
    BY <1>5, <2>4 DEF Proceeds, DiscoverAddressBook, CreateAddressBook, ListContacts, ApplyListing,
                SkipRecipient, SaveRecipient, AutoSaved, StoreContact, RequestFails, SaveFails, GetContact,
                ForgetContact
  <2> QED BY <1>5, <2>1, <2>2, <2>3, <2>4 DEF Next
<1>6. CASE Next BY <1>2, <1>3, <1>4, <1>5, <1>6
<1>7. CASE UNCHANGED vars BY <1>2, <1>7 DEF vars
<1> QED BY <1>6, <1>7

\* Which steps change what the forms say.
LEMMA FormSteps ==
  ASSUME Next
  PROVE  UNCHANGED form \/ \E u \in Uids : ContactEditForm(u)
<1>1. OpenCache \/ (\E us \in SUBSET Uids : ApiBulkDeleteContacts(us) \/ ContactsBulkDelete(us))
        => UNCHANGED form
  BY DEF OpenCache, ApiBulkDeleteContacts, ContactsBulkDelete, DropsRows
<1>2. \A u \in Uids :
        \/ ApiDeleteContact(u) \/ ContactsDelete(u) \/ DeletesElsewhere(u)
        \/ \E m \in Addresses : WritesElsewhere(u, m)
        => UNCHANGED form
  BY DEF ApiDeleteContact, ContactsDelete, DropsRows, DeletesElsewhere, WritesElsewhere
<1>3. ASSUME NEW s \in Threads, Asks(s) PROVE UNCHANGED form
  BY <1>3 DEF Asks, ContactSync, ContactList, Sync, ApiAutoSave, ContactDelete, ContactNew, ApiCreateContact,
         ContactsCreate, Creates, ContactEdit, ApiUpdateContact, ContactsUpdate, Patches
<1>4. ASSUME NEW s \in Threads, Proceeds(s) PROVE UNCHANGED form
  BY <1>4 DEF Proceeds, DiscoverAddressBook, CreateAddressBook, ListContacts, ApplyListing, SkipRecipient,
              SaveRecipient, AutoSaved, StoreContact, RequestFails, SaveFails, GetContact, ForgetContact,
              CreateContact, UpdateContact, DeleteContact
<1> QED BY <1>1, <1>2, <1>3, <1>4 DEF Next

\* What the forms say stays a version of their contact.
LEMMA StepForms ==
  ASSUME IInv, FormsOK, [Next]_vars
  PROVE  FormsOK'
<1>1. made \in Nat /\ made' \in Nat /\ Grows(srv, made, srv', made')
  BY StepInv, StepGrows DEF IInv, ServerOK
<1>2. CASE UNCHANGED form BY <1>1, <1>2, SoundGrows DEF FormsOK
<1>3. ASSUME NEW u \in Uids, ContactEditForm(u) PROVE FormsOK'
  <2>1. RowOK(srv, made, u, row[u]) BY <1>3 DEF ContactEditForm, Held, IInv, RowsOK
  <2>2. row[u].text \in Texts /\ Sound(srv, made, u, row[u].text) BY <2>1 DEF RowOK, Rows
  <2>3. form' = [form EXCEPT ![u] = row[u].text] /\ UNCHANGED <<srv, made>> BY <1>3 DEF ContactEditForm
  <2> QED BY <2>2, <2>3 DEF FormsOK
<1>4. UNCHANGED form \/ \E u \in Uids : ContactEditForm(u) BY FormSteps DEF vars
<1> QED BY <1>2, <1>3, <1>4

\* Every version that a row, an open form, a listing, a patch or a stored answer
\* holds is the server's or an older one, and a request's etag is no newer than
\* the text that was found with it (etags of upsert_contact, GET and POST of
\* contact_edit).
THEOREM VersionsAreSound == Spec => [](IInv /\ FormsOK)
<1>1. Init => IInv /\ FormsOK BY InitInv
<1>2. IInv /\ FormsOK /\ [Next]_vars => (IInv /\ FormsOK)' BY StepInv, StepForms
<1> QED BY <1>1, <1>2, PTL DEF Spec

-----------------------------------------------------------------------------
\* What one step may do to a contact that an edit or a patch is to be written
\* over.
ReadBefore(t) ==
  Does(t, {"edit", "update"}, "put") /\ srv'[job[t].u] # srv[job[t].u] /\ job'[t] # job[t]
    => \/ srv[job[t].u] = job[t].base
       \/ job[t].op = "edit" /\ job[t].base # job[t].found /\ srv[job[t].u] = job[t].found

\* If-Match compares with the etag of what was found: the server's version has
\* its number, so it is what was found.
LEMMA MatchedIsFound ==
  ASSUME IInv, NEW t \in Threads, Does(t, {"edit", "update"}, "put"), Matches(t)
  PROVE  srv[job[t].u] = Found(job[t])
<1>1. /\ job[t].u \in Uids /\ job[t].etag \in Nat
      /\ Sound(srv, made, job[t].u, Found(job[t])) /\ job[t].etag <= Found(job[t]).n
  BY JobKinds DEF JobOK, Does, RequestOps
<1>2. srv[job[t].u].n = job[t].etag /\ srv[job[t].u] # None BY DEF Matches
<1> QED BY <1>1, <1>2 DEF Sound, Texts

\* An edit or a patch finds on the server what it was made from, or what the row
\* held when its form was sent.
LEMMA StepReads ==
  ASSUME IInv, [Next]_vars, NEW t \in Threads
  PROVE  ReadBefore(t)
<1> SUFFICES ASSUME Does(t, {"edit", "update"}, "put"), srv'[job[t].u] # srv[job[t].u], job'[t] # job[t]
             PROVE  \/ srv[job[t].u] = job[t].base
                    \/ job[t].op = "edit" /\ job[t].base # job[t].found /\ srv[job[t].u] = job[t].found
  BY DEF ReadBefore
<1>1. Next BY DEF vars, ghosts
<1>2. PICK s \in Threads : CreateContact(s) \/ UpdateContact(s) \/ DeleteContact(s)
  <2>1. ~OpenCache /\ \A us \in SUBSET Uids : ~ApiBulkDeleteContacts(us) /\ ~ContactsBulkDelete(us)
    BY DEF OpenCache, ApiBulkDeleteContacts, ContactsBulkDelete, DropsRows
  <2>2. \A u \in Uids : /\ ~ContactEditForm(u) /\ ~ApiDeleteContact(u) /\ ~ContactsDelete(u)
                         /\ ~DeletesElsewhere(u)
                         /\ \A m \in Addresses : ~WritesElsewhere(u, m)
    BY DEF ContactEditForm, ApiDeleteContact, ContactsDelete, DropsRows, DeletesElsewhere, WritesElsewhere
  <2>3. ASSUME NEW s \in Threads PROVE ~Asks(s)
    BY DEF Asks, ContactSync, ContactList, Sync, ApiAutoSave, ContactDelete, ContactNew, ApiCreateContact,
           ContactsCreate, Creates, ContactEdit, ApiUpdateContact, ContactsUpdate, Patches
  <2>4. ASSUME NEW s \in Threads, Proceeds(s) PROVE CreateContact(s) \/ UpdateContact(s) \/ DeleteContact(s)
    BY <2>4 DEF Proceeds, DiscoverAddressBook, CreateAddressBook, ListContacts, ApplyListing, SkipRecipient,
                SaveRecipient, AutoSaved, StoreContact, RequestFails, SaveFails, GetContact, ForgetContact
  <2> QED BY <1>1, <2>1, <2>2, <2>3, <2>4 DEF Next
<1>3. s = t BY <1>2 DEF CreateContact, UpdateContact, DeleteContact, Puts, Ends, Goes, IInv, JobsOK
<1>4. UpdateContact(t) /\ Matches(t)
  BY <1>2, <1>3 DEF CreateContact, UpdateContact, DeleteContact, Does
<1>5. srv[job[t].u] = Found(job[t]) BY <1>4, MatchedIsFound
<1> QED BY <1>5 DEF Found

\* EditsSeen, for any contacts, requests and bounds: an edit or a patch is
\* written over the version it was made from; only a form that was older than
\* the row when it was sent is written over that row's (If-Match in
\* update_contact).
THEOREM NothingUnread == Spec => EditsSeen
<1>1. Init => IInv /\ FormsOK BY InitInv
<1>2. IInv /\ FormsOK /\ [Next]_vars => (IInv /\ FormsOK)' BY StepInv, StepForms
<1>3. IInv /\ FormsOK /\ [Next]_vars => \A t \in Threads : ReadBefore(t) BY StepReads
<1>4. IInv /\ FormsOK /\ [Next]_vars => [\A t \in Threads : ReadBefore(t)]_vars BY <1>3
<1>5. Spec => [][\A t \in Threads : ReadBefore(t)]_vars
  BY <1>1, <1>2, <1>4, PTL DEF Spec
<1> QED BY <1>5 DEF EditsSeen, ReadBefore

-----------------------------------------------------------------------------
(* Cache and server, while nothing happened that need not leave them alike.  *)

Same(u) == row[u] = IF srv[u] = None THEN None ELSE Row(srv[u])

\* A request j has been to the server and is still to change the cache.
Half(j) == j.op \in RequestOps /\ j.at \in {"upsert", "forget"}
Midway(t, u) == Half(job[t]) /\ job[t].u = u

\* What such a request will write is what the server has, in S.
HalfOK(S, j) == Half(j) => S[j.u] = IF j.at = "upsert" THEN j.text ELSE None

\* What a request is about to give its address to has it for itself, in the
\* rows R.
ClaimOK(R, j) ==
  \/ j.op \in {"new", "edit"} /\ j.at \in {"discover", "make", "put"}
  \/ j.op = "save" /\ j.at = "put"
  => \A v \in Uids \ {j.u} : j.mail # None /\ R[v] # None => R[v].text.mail # j.mail

AloneOK == calm # None => calm \in Threads /\ job[calm] # Idle /\ \A s \in Threads \ {calm} : job[s] = Idle
FreshOK == \A t \in Threads : calm = t /\ Does(t, {"sync"}, "apply") => job[t].listing = srv
CalmOK == ~apart => \A t \in Threads : job[t] # Idle => calm = t
AgreeOK == ~apart => \A u \in Uids : Same(u) \/ \E t \in Threads : Midway(t, u)
ClaimsOK == ~apart => \A t \in Threads : ClaimOK(row, job[t]) /\ HalfOK(srv, job[t])

CalmInv == AloneOK /\ FreshOK /\ CalmOK /\ AgreeOK /\ ClaimsOK

\* At first all is calm.
LEMMA InitCalm == Init => CalmInv
BY DEF Init, CalmInv, AloneOK, FreshOK, CalmOK, AgreeOK, ClaimsOK, ClaimOK, HalfOK, Half, Same, Idle, Does, RequestOps

\* Somebody else disturbs.
LEMMA DisturbCalm == Disturbs => CalmInv'
BY ContactsAssumption DEF Disturbs, CalmInv, AloneOK, FreshOK, CalmOK, AgreeOK, ClaimsOK

\* While nobody is at it, the cache is as the server.
LEMMA IdleSame ==
  ASSUME CalmInv, ~apart, \A t \in Threads : job[t] = Idle
  PROVE  \A u \in Uids : Same(u)
<1>1. \A t \in Threads : job[t].op \notin RequestOps BY DEF Idle, RequestOps
<1>2. \A u \in Uids : ~\E t \in Threads : Midway(t, u) BY <1>1 DEF Midway, Half
<1> QED BY <1>2 DEF CalmInv, AgreeOK

\* While a request is not half-way, the cache is as the server.
LEMMA BusySame ==
  ASSUME CalmInv, ~apart, NEW t \in Threads, job[t] # Idle,
         ~Half(job[t])
  PROVE  \A u \in Uids : Same(u)
<1>1. \A s \in Threads : s # t => job[s] = Idle BY DEF CalmInv, AloneOK, CalmOK
<1>2. \A s \in Threads : s # t => job[s].op \notin RequestOps BY <1>1 DEF Idle, RequestOps
<1>3. \A u \in Uids : ~\E s \in Threads : Midway(s, u) BY <1>2 DEF Midway, Half
<1> QED BY <1>3 DEF CalmInv, AgreeOK

\* A request begins.
LEMMA BeginCalm ==
  ASSUME IInv, CalmInv, NEW t \in Threads, NEW j \in Jobs, Begins(t, j), UNCHANGED <<srv, row>>,
         j.op # "idle", j.at # "apply", ~Half(j), (\A u \in Uids : Same(u)) => ClaimOK(row, j)
  PROVE  CalmInv'
<1>1. job' = [job EXCEPT ![t] = j] /\ job \in [Threads -> Jobs] BY DEF Begins, IInv, JobsOK
<1>2. CASE \A s \in Threads : job[s] = Idle
  <2>1. calm' = t /\ (~apart' => ~apart) BY <1>2 DEF Begins
  <2>2. \A s \in Threads \ {t} : job'[s] = Idle BY <1>1, <1>2
  <2>3. job'[t] = j /\ j # Idle BY <1>1 DEF Idle
  <2>4. AloneOK' BY <2>1, <2>2, <2>3 DEF AloneOK
  <2>5. FreshOK' BY <2>1, <2>3 DEF FreshOK, Does
  <2>6. CalmOK' BY <2>1, <2>2 DEF CalmOK
  <2>7. AgreeOK' BY <1>2, <2>1, IdleSame DEF AgreeOK, Same
  <2>8. ClaimsOK'
    <3>1. ClaimOK(row, Idle) /\ HalfOK(srv, Idle) BY DEF ClaimOK, HalfOK, Half, Idle, RequestOps
    <3>2. HalfOK(srv, j) BY DEF HalfOK
    <3> QED BY <1>2, <2>1, <2>2, <2>3, <3>1, <3>2, IdleSame DEF ClaimsOK
  <2> QED BY <2>4, <2>5, <2>6, <2>7, <2>8 DEF CalmInv
<1>3. CASE ~\A s \in Threads : job[s] = Idle
  BY <1>3, ContactsAssumption DEF Begins, CalmInv, AloneOK, FreshOK, CalmOK, AgreeOK, ClaimsOK
<1> QED BY <1>2, <1>3

\* A request moves on, server and rows resting; half-way it leaves them apart.
LEMMA MoveCalm ==
  ASSUME IInv, CalmInv, NEW t \in Threads, NEW j, job' = [job EXCEPT ![t] = j],
         UNCHANGED <<srv, row, calm>>, job[t] # Idle, j.op # "idle",
         ~apart' => ~apart /\ ~Half(job[t]), ~Half(j),
         j.op = "sync" /\ j.at = "apply" => j.listing = srv,
         (\A u \in Uids : Same(u)) /\ ClaimOK(row, job[t]) => ClaimOK(row, j)
  PROVE  CalmInv'
<1>1. job'[t] = j /\ (\A s \in Threads \ {t} : job'[s] = job[s]) /\ j # Idle BY DEF IInv, JobsOK, Idle
<1>2. AloneOK' BY <1>1 DEF CalmInv, AloneOK
<1>3. FreshOK' BY <1>1 DEF CalmInv, FreshOK, Does
<1>4. CalmOK' BY <1>1 DEF CalmInv, CalmOK
<1>5. AgreeOK' BY BusySame DEF AgreeOK, Same
<1>6. ClaimsOK' BY <1>1, BusySame DEF CalmInv, ClaimsOK, HalfOK
<1> QED BY <1>2, <1>3, <1>4, <1>5, <1>6 DEF CalmInv

\* A request ends, server and rows resting; half-way it leaves them apart.
LEMMA EndCalm ==
  ASSUME IInv, CalmInv, NEW t \in Threads, Ends(t), UNCHANGED <<srv, row>>, job[t] # Idle,
         ~apart' => ~apart /\ ~Half(job[t])
  PROVE  CalmInv'
<1>1. job'[t] = Idle /\ \A s \in Threads \ {t} : job'[s] = job[s] BY DEF Ends, IInv, JobsOK
<1>2. AloneOK' BY <1>1, ContactsAssumption DEF Ends, CalmInv, AloneOK
<1>3. FreshOK' BY <1>1, ContactsAssumption DEF Ends, CalmInv, FreshOK, Does, Idle
<1>4. CalmOK' BY <1>1 DEF Ends, CalmInv, CalmOK
<1>5. AgreeOK' BY BusySame DEF AgreeOK, Same
<1>6. ClaimsOK'
  <2>1. ClaimOK(row, Idle) /\ HalfOK(srv, Idle) BY DEF ClaimOK, HalfOK, Half, Idle, RequestOps
  <2> QED BY <1>1, <2>1 DEF CalmInv, ClaimsOK
<1> QED BY <1>2, <1>3, <1>4, <1>5, <1>6 DEF CalmInv

\* Asking for something: the form looks the address up first.
LEMMA AskCalm ==
  ASSUME IInv, FormsOK, CalmInv, NEW t \in Threads, Asks(t)
  PROVE  CalmInv'
<1> USE DEF Jobs
<1>1. CASE Sync(t)
  <2> DEFINE j == [op |-> "sync", at |-> "discover"]
  <2>1. j \in Jobs BY DEF Syncs
  <2>2. ~Half(j) /\ ClaimOK(row, j) BY DEF Half, ClaimOK, RequestOps
  <2> QED BY <1>1, <2>1, <2>2, BeginCalm DEF Sync
<1>2. ASSUME NEW ms \in Recipients, ApiAutoSave(t, ms) PROVE CalmInv'
  <2> DEFINE j == [Request("save", "discover", None, None) EXCEPT !.left = ms]
  <2>1. j.op = "save" /\ j.at = "discover" BY DEF Request
  <2>2. j \in Jobs
    <3>1. IInv' BY <1>2, AskKeeps DEF Asks
    <3>2. job'[t] = j BY <1>2 DEF ApiAutoSave, Begins, IInv, JobsOK
    <3> QED BY <3>1, <3>2 DEF IInv, JobsOK
  <2>3. ~Half(j) /\ ClaimOK(row, j) BY <2>1 DEF Half, ClaimOK
  <2> QED BY <1>2, <2>1, <2>2, <2>3, BeginCalm DEF ApiAutoSave
<1>3. ASSUME NEW u \in Uids, ContactDelete(t, u) PROVE CalmInv'
  <2> DEFINE j == [Request("delete", "drop", u, None) EXCEPT !.etag = row[u].etag]
  <2>1. j.op = "delete" /\ j.at = "drop" BY DEF Request
  <2>2. j \in Jobs
    <3>1. IInv' BY <1>3, AskKeeps DEF Asks
    <3>2. job'[t] = j BY <1>3 DEF ContactDelete, Begins, IInv, JobsOK
    <3> QED BY <3>1, <3>2 DEF IInv, JobsOK
  <2>3. ~Half(j) /\ ClaimOK(row, j) BY <2>1 DEF Half, ClaimOK
  <2> QED BY <1>3, <2>1, <2>2, <2>3, BeginCalm DEF ContactDelete
<1>4. ASSUME NEW u \in Uids, NEW m \in Addresses, NEW op \in {"new", "api"}, Creates(t, op, m, u),
             op = "new" => ~FindByEmail(m, None)
      PROVE  CalmInv'
  <2> DEFINE j == Request(op, "discover", u, m)
  <2>1. j.op = op /\ j.at = "discover" /\ j.u = u /\ j.mail = m BY DEF Request
  <2>2. j \in Jobs BY RequestType DEF RequestOps, Stages
  <2>3. ~Half(j) BY <2>1 DEF Half
  <2>4. ClaimOK(row, j) BY <1>4, <2>1, ContactsAssumption DEF ClaimOK, FindByEmail, Held
  <2> QED BY <1>4, <2>1, <2>2, <2>3, <2>4, BeginCalm DEF Creates
<1>5. ASSUME NEW u \in Uids, NEW m \in Addresses, ContactEdit(t, u, m) PROVE CalmInv'
  <2> DEFINE j == [Request("edit", "put", u, m) EXCEPT
                    !.etag = row[u].etag, !.found = row[u].text, !.base = form[u]]
  <2>1. j.op = "edit" /\ j.at = "put" /\ j.u = u /\ j.mail = m BY DEF Request
  <2>2. j \in Jobs
    <3>1. IInv' BY <1>5, AskKeeps DEF Asks
    <3>2. job'[t] = j BY <1>5 DEF ContactEdit, Begins, IInv, JobsOK
    <3> QED BY <3>1, <3>2 DEF IInv, JobsOK
  <2>3. ~Half(j) BY <2>1 DEF Half
  <2>4. ClaimOK(row, j) BY <1>5, <2>1 DEF ContactEdit, ClaimOK, FindByEmail, Held
  <2> QED BY <1>5, <2>1, <2>2, <2>3, <2>4, BeginCalm DEF ContactEdit
<1>6. ASSUME NEW u \in Uids, NEW m \in Addresses, Patches(t, u, m), ApiUpdateContact(t, u, m) PROVE CalmInv'
  <2> DEFINE j == [Request("update", "get", u, m) EXCEPT !.etag = row[u].etag]
  <2>1. j.op = "update" /\ j.at = "get" BY DEF Request
  <2>2. j \in Jobs
    <3>1. IInv' BY <1>6, AskKeeps DEF Asks
    <3>2. job'[t] = j BY <1>6 DEF Patches, Begins, IInv, JobsOK
    <3> QED BY <3>1, <3>2 DEF IInv, JobsOK
  <2>3. ~Half(j) /\ ClaimOK(row, j) BY <2>1 DEF Half, ClaimOK
  <2> QED BY <1>6, <2>1, <2>2, <2>3, BeginCalm DEF Patches
<1> QED BY <1>1, <1>2, <1>3, <1>4, <1>5, <1>6
        DEF Asks, ContactSync, ContactList, ContactNew, ApiCreateContact, ContactsCreate,
            ApiUpdateContact, ContactsUpdate

\* Finding or making the address book.
LEMMA DiscoverCalm ==
  ASSUME IInv, CalmInv, NEW t \in Threads, DiscoverAddressBook(t) \/ CreateAddressBook(t)
  PROVE  CalmInv'
<1>1. PICK to \in {"make", "list", "next", "put"} :
        /\ job' = [job EXCEPT ![t].at = to]
        /\ job[t].op \in {"new", "api"} \/ to # "put"
  BY DEF DiscoverAddressBook, CreateAddressBook, Goes, NextOf, Does
<1> DEFINE j == [job[t] EXCEPT !.at = to]
<1>2. /\ job[t].op \in {"sync", "new", "api", "save"} /\ job[t].at \in {"discover", "make"}
      /\ UNCHANGED <<srv, row, calm, apart>>
  BY DEF DiscoverAddressBook, CreateAddressBook, Does, ghosts
<1>3. job[t] \in Syncs \union Requests BY <1>2, JobKinds DEF Jobs, Idle, Applies, RequestOps
<1>4. j.op = job[t].op /\ j.at = to /\ (job[t].op # "sync" => j.u = job[t].u /\ j.mail = job[t].mail)
  BY <1>3 DEF Syncs, Requests
<1>5. job' = [job EXCEPT ![t] = j] BY <1>1 DEF IInv, JobsOK
<1>6. job[t] # Idle /\ ~Half(job[t]) /\ ~Half(j) BY <1>2, <1>4 DEF Idle, Half
<1>7. ClaimOK(row, job[t]) => ClaimOK(row, j) BY <1>1, <1>2, <1>4 DEF ClaimOK
<1> QED BY <1>2, <1>4, <1>5, <1>6, <1>7, MoveCalm

\* The server lists what it has.
LEMMA ListCalm ==
  ASSUME IInv, CalmInv, NEW t \in Threads, ListContacts(t)
  PROVE  CalmInv'
<1> DEFINE j == [op |-> "sync", at |-> "apply", listing |-> srv]
<1>1. ~Half(j) /\ ClaimOK(row, j) BY DEF Half, ClaimOK, RequestOps
<1>2. job[t] # Idle /\ ~Half(job[t]) BY DEF ListContacts, Does, Idle, Half, RequestOps
<1>3. UNCHANGED <<srv, row, calm, apart>> /\ job' = [job EXCEPT ![t] = j] BY DEF ListContacts, ghosts
<1> QED BY <1>1, <1>2, <1>3, MoveCalm

\* A calm sync makes the cache as the server.
LEMMA ApplyCalm ==
  ASSUME IInv, CalmInv, NEW t \in Threads, ApplyListing(t)
  PROVE  CalmInv'
<1>1. job'[t] = Idle /\ \A s \in Threads \ {t} : job'[s] = job[s] BY DEF ApplyListing, Ends, IInv, JobsOK
<1>2. job[t] # Idle /\ srv' = srv BY DEF ApplyListing, Does, Idle
<1>3. AloneOK' BY <1>1, ContactsAssumption DEF ApplyListing, Ends, CalmInv, AloneOK
<1>4. FreshOK' BY <1>1, <1>2, ContactsAssumption DEF ApplyListing, Ends, CalmInv, FreshOK, Does, Idle
<1>5. CASE apart'
  BY <1>3, <1>4, <1>5 DEF CalmInv, CalmOK, AgreeOK, ClaimsOK
<1>6. CASE ~apart'
  <2>1. calm = t BY <1>2, <1>6 DEF ApplyListing, CalmInv, CalmOK
  <2>2. \A s \in Threads : job'[s] = Idle BY <1>1, <2>1, ContactsAssumption DEF CalmInv, AloneOK
  <2>3. job[t].listing = srv BY <2>1 DEF CalmInv, FreshOK, ApplyListing
  <2>4. \A u \in Uids : Same(u)' BY <1>2, <2>3 DEF ApplyListing, Mirrored, Same, Row
  <2>5. CalmOK' BY <2>2 DEF CalmOK
  <2>6. AgreeOK' BY <2>4 DEF AgreeOK
  <2>7. ClaimsOK'
    <3>1. ClaimOK(row', Idle) /\ HalfOK(srv', Idle) BY DEF ClaimOK, HalfOK, Half, Idle, RequestOps
    <3> QED BY <2>2, <3>1 DEF ClaimsOK
  <2> QED BY <1>3, <1>4, <2>5, <2>6, <2>7 DEF CalmInv
<1> QED BY <1>5, <1>6

\* A recipient whose address nobody has.
LEMMA SaveCalm ==
  ASSUME IInv, CalmInv, NEW t \in Threads, NEW u \in Uids, SaveRecipient(t, u)
  PROVE  CalmInv'
<1> DEFINE j == [Request("save", "put", u, Head(job[t].left)) EXCEPT !.left = Tail(job[t].left)]
<1>1. j.op = "save" /\ j.at = "put" /\ j.u = u /\ j.mail = Head(job[t].left) BY DEF Request
<1>2. ~Half(j) BY <1>1 DEF Half
<1>3. ClaimOK(row, j)
  BY <1>1, ContactsAssumption DEF SaveRecipient, EmailExists, FindByEmail, Held, ClaimOK
<1>4. job[t] # Idle /\ ~Half(job[t]) BY DEF SaveRecipient, Does, Idle, Half
<1>5. UNCHANGED <<srv, row, calm, apart>> /\ job' = [job EXCEPT ![t] = j]
  BY DEF SaveRecipient, ghosts, IInv, JobsOK
<1> QED BY <1>1, <1>2, <1>3, <1>4, <1>5, MoveCalm

\* Steps that only move a request on, or end it.
LEMMA RecipientCalm ==
  ASSUME IInv, CalmInv, NEW t \in Threads, SkipRecipient(t) \/ AutoSaved(t) \/ SaveFails(t)
  PROVE  CalmInv'
<1>1. CASE SkipRecipient(t)
  <2> DEFINE j == [job[t] EXCEPT !.left = Tail(@)]
  <2>1. job[t] \in Requests /\ job[t].op = "save" /\ job[t].at = "next"
    BY <1>1, JobKinds DEF SkipRecipient, Does, RequestOps
  <2>2. j.op = "save" /\ j.at = "next" BY <2>1 DEF Requests
  <2>3. ~Half(j) /\ ~Half(job[t]) /\ ClaimOK(row, j) /\ job[t] # Idle BY <2>1, <2>2 DEF Half, ClaimOK, Idle
  <2>4. UNCHANGED <<srv, row, calm, apart>> /\ job' = [job EXCEPT ![t] = j]
    BY <1>1 DEF SkipRecipient, ghosts, IInv, JobsOK
  <2> QED BY <2>2, <2>3, <2>4, MoveCalm
<1>2. CASE AutoSaved(t) \/ SaveFails(t)
  BY <1>2, EndCalm DEF AutoSaved, SaveFails, Does, Half, Idle
<1> QED BY <1>1, <1>2

\* A request of recipients goes on to the next.
LEMMA LeaveCalm ==
  ASSUME IInv, CalmInv, NEW t \in Threads, Leaves(t), UNCHANGED <<srv, row>>, job[t] # Idle,
         ~apart' => ~apart /\ ~Half(job[t])
  PROVE  CalmInv'
<1>1. CASE job[t].op = "save"
  <2> DEFINE j == [job[t] EXCEPT !.at = "next"]
  <2>1. job[t] \in Requests BY <1>1, JobKinds DEF RequestOps
  <2>2. j.op = "save" /\ j.at = "next" BY <1>1, <2>1 DEF Requests
  <2>3. ~Half(j) /\ ClaimOK(row, j) BY <2>2 DEF Half, ClaimOK
  <2>4. UNCHANGED calm /\ job' = [job EXCEPT ![t] = j] BY <1>1 DEF Leaves, Goes, IInv, JobsOK
  <2> QED BY <2>2, <2>3, <2>4, MoveCalm
<1>2. CASE job[t].op # "save" BY <1>2, EndCalm DEF Leaves
<1> QED BY <1>1, <1>2

\* A call that fails: its request goes on or ends.
LEMMA FailCalm ==
  ASSUME IInv, CalmInv, NEW t \in Threads, RequestFails(t)
  PROVE  CalmInv'
<1>1. job[t].op # "idle" /\ job[t].at # "forget" BY DEF RequestFails, Does
<1>2. ~apart' => ~apart /\ job[t].at # "upsert" BY DEF RequestFails
<1>3. job[t] # Idle BY <1>1 DEF Idle
<1>4. ~apart' => ~Half(job[t]) BY <1>1, <1>2 DEF Half
<1>5. Leaves(t) /\ UNCHANGED <<srv, row>> BY DEF RequestFails
<1> QED BY <1>2, <1>3, <1>4, <1>5, LeaveCalm

\* The card of a patch is read.
LEMMA GetCalm ==
  ASSUME IInv, CalmInv, NEW t \in Threads, GetContact(t)
  PROVE  CalmInv'
<1>1. job[t] \in Requests /\ job[t].op = "update" /\ job[t].at = "get"
  BY JobKinds DEF GetContact, Does, RequestOps
<1>2. job[t] # Idle /\ ~Half(job[t]) BY <1>1 DEF Idle, Half
<1>3. CASE srv[job[t].u] = None BY <1>2, <1>3, EndCalm DEF GetContact
<1>4. CASE srv[job[t].u] # None
  <2> DEFINE j == [job[t] EXCEPT !.at = "put", !.base = srv[job[t].u]]
  <2>1. j.op = "update" /\ j.at = "put" BY <1>1 DEF Requests
  <2>2. ~Half(j) /\ ClaimOK(row, j) BY <2>1 DEF Half, ClaimOK
  <2>3. UNCHANGED <<srv, row, calm, apart>> /\ job' = [job EXCEPT ![t] = j]
    BY <1>4 DEF GetContact, IInv, JobsOK
  <2> QED BY <1>2, <2>1, <2>2, <2>3, MoveCalm
<1> QED BY <1>3, <1>4

\* A PUT: what the request will store is what the server has.
LEMMA PutCalm ==
  ASSUME IInv, CalmInv, NEW t \in Threads, job[t].op \in RequestOps, job[t].at = "put", Puts(t),
         UNCHANGED <<row, calm, apart>>
  PROVE  CalmInv'
<1> DEFINE text == [n |-> made + 1, mail |-> job[t].mail]
           j == [job[t] EXCEPT !.at = "upsert", !.text = text]
<1>1. job[t] \in Requests /\ job[t].u \in Uids BY JobKinds DEF JobOK
<1>2. j.op = job[t].op /\ j.at = "upsert" /\ j.u = job[t].u /\ j.text = text BY <1>1 DEF Requests
<1>3. job'[t] = j /\ \A s \in Threads \ {t} : job'[s] = job[s] BY DEF Puts, IInv, JobsOK
<1>4. srv' = [srv EXCEPT ![job[t].u] = text] /\ srv \in [Uids -> Texts \union {None}]
  BY DEF Puts, IInv, ServerOK
<1>5. job[t] # Idle /\ j # Idle /\ ~Half(job[t]) BY <1>2 DEF Idle, RequestOps, Half
<1>6. AloneOK' BY <1>3, <1>5 DEF CalmInv, AloneOK
<1>7. FreshOK'
  <2>1. ASSUME NEW s \in Threads, calm = s, s # t PROVE FALSE
    BY <1>5, <2>1, ContactsAssumption DEF CalmInv, AloneOK
  <2>2. j.op # "sync" BY <1>2 DEF RequestOps
  <2> QED BY <1>3, <2>1, <2>2 DEF FreshOK, Does
<1>8. CalmOK' BY <1>3, <1>5 DEF CalmInv, CalmOK
<1>9. AgreeOK'
  <2> SUFFICES ASSUME ~apart, NEW u \in Uids PROVE Same(u)' \/ \E s \in Threads : Midway(s, u)'
    BY DEF AgreeOK
  <2>1. CASE u = job[t].u
    <3>1. Midway(t, u)' BY <1>2, <1>3, <2>1 DEF Midway, Half
    <3> QED BY <3>1
  <2>2. CASE u # job[t].u
    <3>1. Same(u) BY <1>5, BusySame
    <3> QED BY <1>4, <2>2, <3>1 DEF Same
  <2> QED BY <2>1, <2>2
<1>10. ClaimsOK'
  <2> SUFFICES ASSUME ~apart, NEW s \in Threads PROVE ClaimOK(row, job'[s]) /\ HalfOK(srv', job'[s])
    BY DEF ClaimsOK
  <2>1. CASE s = t
    <3>1. ClaimOK(row, j) BY <1>2 DEF ClaimOK
    <3>2. HalfOK(srv', j) BY <1>1, <1>2, <1>4 DEF HalfOK
    <3> QED BY <1>3, <2>1, <3>1, <3>2
  <2>2. CASE s # t
    <3>1. job'[s] = Idle BY <1>3, <1>5, <2>2 DEF CalmInv, CalmOK
    <3> QED BY <3>1 DEF ClaimOK, HalfOK, Half, Idle, RequestOps
  <2> QED BY <2>1, <2>2
<1> QED BY <1>6, <1>7, <1>8, <1>9, <1>10 DEF CalmInv

\* A half-way request has the others idle and the cache as the server, but for
\* its contact.
LEMMA HalfSame ==
  ASSUME CalmInv, ~apart, NEW t \in Threads, Half(job[t])
  PROVE  /\ \A s \in Threads \ {t} : job[s] = Idle
         /\ \A u \in Uids \ {job[t].u} : Same(u)
         /\ HalfOK(srv, job[t])
<1>1. job[t] # Idle BY DEF Half, Idle, RequestOps
<1>2. \A s \in Threads \ {t} : job[s] = Idle BY <1>1 DEF CalmInv, CalmOK
<1>3. ASSUME NEW u \in Uids \ {job[t].u} PROVE ~\E s \in Threads : Midway(s, u)
  BY <1>2 DEF Midway, Half, Idle, RequestOps
<1> QED BY <1>2, <1>3 DEF CalmInv, AgreeOK, ClaimsOK

\* The cache follows: a request of contact u writes its row, and goes on with
\* nothing half-way.
LEMMA FollowCalm ==
  ASSUME IInv, CalmInv, NEW t \in Threads, Half(job[t]), job[t].u \in Uids, UNCHANGED <<srv, apart>>,
         row' = [row EXCEPT ![job[t].u] = IF srv[job[t].u] = None THEN None ELSE Row(srv[job[t].u])]
         \/ apart,
         NEW j, job' = [job EXCEPT ![t] = j], ~Half(j), ClaimOK(row', j), j.op # "sync",
         \/ calm' = calm /\ j # Idle
         \/ calm' = (IF calm = t THEN None ELSE calm) /\ j = Idle
  PROVE  CalmInv'
<1>1. job'[t] = j /\ \A s \in Threads \ {t} : job'[s] = job[s] BY DEF IInv, JobsOK
<1>2. job[t] # Idle BY DEF Half, Idle, RequestOps
<1>3. AloneOK' BY <1>1, <1>2, ContactsAssumption DEF CalmInv, AloneOK
<1>4. FreshOK' BY <1>1, ContactsAssumption DEF CalmInv, FreshOK, Does
<1>5. CASE apart BY <1>3, <1>4, <1>5 DEF CalmInv, CalmOK, AgreeOK, ClaimsOK
<1>6. CASE ~apart
  <2>1. /\ \A s \in Threads \ {t} : job'[s] = Idle
        /\ \A u \in Uids \ {job[t].u} : Same(u)
    BY <1>1, <1>6, HalfSame
  <2>2. CalmOK' BY <1>1, <1>2, <2>1, <1>6 DEF CalmInv, CalmOK
  <2>3. \A u \in Uids : Same(u)' BY <1>6, <2>1 DEF Same, IInv, RowsOK
  <2>4. AgreeOK' BY <2>3 DEF AgreeOK
  <2>5. ClaimOK(row', Idle) /\ HalfOK(srv', Idle) BY DEF ClaimOK, HalfOK, Half, Idle, RequestOps
  <2>6. HalfOK(srv', j) BY DEF HalfOK
  <2>7. ClaimsOK' BY <1>1, <2>1, <2>5, <2>6 DEF ClaimsOK
  <2> QED BY <1>3, <1>4, <2>2, <2>4, <2>7 DEF CalmInv
<1> QED BY <1>5, <1>6

\* The answer of a PUT is stored.
LEMMA StoreCalm ==
  ASSUME IInv, CalmInv, NEW t \in Threads, StoreContact(t)
  PROVE  CalmInv'
<1> DEFINE u == job[t].u
<1>1. /\ job[t] \in Requests /\ u \in Uids /\ job[t].at = "upsert" /\ Half(job[t])
      /\ Sound(srv, made, u, job[t].text)
  BY JobKinds DEF StoreContact, Does, RequestOps, Half, JobOK
<1>2. UNCHANGED <<srv, apart>> BY DEF StoreContact
<1>3. row' = [row EXCEPT ![u] = IF srv[u] = None THEN None ELSE Row(srv[u])] \/ apart
  <2>1. CASE ~apart
    <3>1. srv[u] = job[t].text BY <1>1, <2>1, HalfSame DEF HalfOK
    <3>2. srv[u] # None BY <1>1, <3>1, ContactsAssumption DEF Sound
    <3> QED BY <3>1, <3>2 DEF StoreContact, UpsertContact
  <2> QED BY <2>1
<1>4. CASE job[t].op = "save"
  <2> DEFINE j == [job[t] EXCEPT !.at = "next"]
  <2>1. j.op = "save" /\ j.at = "next" BY <1>1, <1>4 DEF Requests
  <2>2. ~Half(j) /\ ClaimOK(row', j) /\ j # Idle BY <2>1 DEF Half, ClaimOK, Idle
  <2>3. calm' = calm /\ job' = [job EXCEPT ![t] = j]
    BY <1>4 DEF StoreContact, Leaves, Goes, IInv, JobsOK
  <2> QED BY <1>1, <1>2, <1>3, <2>1, <2>2, <2>3, FollowCalm
<1>5. CASE job[t].op # "save"
  <2>1. ~Half(Idle) /\ ClaimOK(row', Idle) /\ Idle.op # "sync" BY DEF Half, ClaimOK, Idle, RequestOps
  <2>2. calm' = (IF calm = t THEN None ELSE calm) /\ job' = [job EXCEPT ![t] = Idle]
    BY <1>5 DEF StoreContact, Leaves, Ends
  <2> QED BY <1>1, <1>2, <1>3, <2>1, <2>2, FollowCalm
<1> QED BY <1>4, <1>5

\* The row of a contact that is gone goes.
LEMMA ForgetCalm ==
  ASSUME IInv, CalmInv, NEW t \in Threads, ForgetContact(t)
  PROVE  CalmInv'
<1> DEFINE u == job[t].u
<1>1. u \in Uids /\ job[t].at = "forget" /\ Half(job[t])
  BY JobKinds DEF ForgetContact, Does, RequestOps, Half, JobOK
<1>2. row' = [row EXCEPT ![u] = IF srv[u] = None THEN None ELSE Row(srv[u])] \/ apart
  <2>1. CASE ~apart
    <3>1. srv[u] = None BY <1>1, <2>1, HalfSame DEF HalfOK
    <3> QED BY <3>1 DEF ForgetContact
  <2> QED BY <2>1
<1>3. ~Half(Idle) /\ ClaimOK(row', Idle) /\ Idle.op # "sync" BY DEF Half, ClaimOK, Idle, RequestOps
<1>4. /\ calm' = (IF calm = t THEN None ELSE calm) /\ job' = [job EXCEPT ![t] = Idle]
      /\ UNCHANGED <<srv, apart>>
  BY DEF ForgetContact, Ends
<1> QED BY <1>1, <1>2, <1>3, <1>4, FollowCalm

\* A deletion that is refused is noticed; any other has the contact gone.
LEMMA DeleteCalm ==
  ASSUME IInv, CalmInv, NEW t \in Threads, DeleteContact(t)
  PROVE  CalmInv'
<1> DEFINE u == job[t].u
           j == [job[t] EXCEPT !.at = "forget"]
<1>1. job[t] \in Requests /\ job[t].op = "delete" /\ job[t].at = "drop" /\ u \in Uids
  BY JobKinds DEF DeleteContact, Does, RequestOps, JobOK
<1>2. j.op = "delete" /\ j.at = "forget" /\ j.u = u BY <1>1 DEF Requests
<1>3. job'[t] = j /\ \A s \in Threads \ {t} : job'[s] = job[s] BY DEF DeleteContact, Goes, IInv, JobsOK
<1>4. job[t] # Idle /\ j # Idle /\ ~Half(job[t]) BY <1>1, <1>2 DEF Idle, Half
<1>5. UNCHANGED <<row, calm>> BY DEF DeleteContact
<1>6. AloneOK' BY <1>3, <1>4, <1>5 DEF CalmInv, AloneOK
<1>7. FreshOK'
  <2>1. ASSUME NEW s \in Threads, calm = s, s # t PROVE FALSE
    BY <1>4, <2>1, ContactsAssumption DEF CalmInv, AloneOK
  <2> QED BY <1>2, <1>3, <1>5, <2>1 DEF FreshOK, Does
<1>8. CASE apart' BY <1>6, <1>7, <1>8 DEF CalmInv, CalmOK, AgreeOK, ClaimsOK
<1>9. CASE ~apart'
  <2>1. ~apart /\ srv' \in {srv, [srv EXCEPT ![u] = None]} /\ srv'[u] = None
    BY <1>1, <1>9 DEF DeleteContact, IInv, ServerOK
  <2>2. CalmOK' BY <1>3, <1>4, <1>5, <2>1 DEF CalmInv, CalmOK
  <2>3. ASSUME NEW v \in Uids PROVE Same(v)' \/ \E s \in Threads : Midway(s, v)'
    <3>1. CASE v = u
      <4>1. Midway(t, v)' BY <1>2, <1>3, <3>1 DEF Midway, Half, RequestOps
      <4> QED BY <4>1
    <3>2. CASE v # u
      <4>1. Same(v) BY <1>4, <2>1, BusySame
      <4>2. srv'[v] = srv[v] BY <2>1, <3>2 DEF IInv, ServerOK
      <4> QED BY <1>5, <4>1, <4>2 DEF Same
    <3> QED BY <3>1, <3>2
  <2>4. AgreeOK' BY <2>3 DEF AgreeOK
  <2>5. ClaimOK(row', j) /\ HalfOK(srv', j) BY <1>2, <2>1 DEF ClaimOK, HalfOK
  <2>6. \A s \in Threads \ {t} : job'[s] = Idle BY <1>3, <1>4, <2>1 DEF CalmInv, CalmOK
  <2>7. ClaimOK(row', Idle) /\ HalfOK(srv', Idle) BY DEF ClaimOK, HalfOK, Half, Idle, RequestOps
  <2>8. ClaimsOK' BY <1>3, <2>5, <2>6, <2>7 DEF ClaimsOK
  <2> QED BY <1>6, <1>7, <2>2, <2>4, <2>8 DEF CalmInv
<1> QED BY <1>8, <1>9

\* Every step keeps it.
LEMMA StepCalm == IInv /\ FormsOK /\ CalmInv /\ [Next]_vars => CalmInv'
<1> SUFFICES ASSUME IInv, FormsOK, CalmInv, [Next]_vars PROVE CalmInv'
  OBVIOUS
<1>1. CASE UNCHANGED vars
  BY <1>1 DEF vars, ghosts, CalmInv, AloneOK, FreshOK, CalmOK, AgreeOK, ClaimsOK, Does, Same, Midway
<1>2. ASSUME NEW t \in Threads, Asks(t) PROVE CalmInv' BY <1>2, AskCalm
<1>3. ASSUME NEW t \in Threads, Proceeds(t) PROVE CalmInv'
  <2>1. ASSUME CreateContact(t) PROVE CalmInv'
    BY <2>1, PutCalm DEF CreateContact, Does, RequestOps, ghosts
  <2>2. ASSUME UpdateContact(t) PROVE CalmInv'
    <3>1. CASE Matches(t) BY <2>2, <3>1, PutCalm DEF UpdateContact, Does, RequestOps
    <3>2. CASE ~Matches(t) BY <2>2, <3>2, EndCalm DEF UpdateContact, Does, Idle, Half
    <3> QED BY <3>1, <3>2
  <2> QED
    BY <1>3, <2>1, <2>2, DiscoverCalm, ListCalm, ApplyCalm, RecipientCalm, SaveCalm, StoreCalm, FailCalm,
       GetCalm, DeleteCalm, ForgetCalm DEF Proceeds
<1>4. CASE Disturbs BY <1>4, DisturbCalm
<1>5. ASSUME NEW u \in Uids, ContactEditForm(u) PROVE CalmInv'
  BY <1>5 DEF ContactEditForm, ghosts, CalmInv, AloneOK, FreshOK, CalmOK, AgreeOK, ClaimsOK, Does, Same, Midway
<1>6. Next => \/ \E t \in Threads : Asks(t) \/ Proceeds(t)
              \/ \E u \in Uids : ContactEditForm(u)
              \/ Disturbs
  BY DEF Next, ApiDeleteContact, ContactsDelete, ApiBulkDeleteContacts, ContactsBulkDelete, DropsRows,
         OpenCache, DeletesElsewhere, WritesElsewhere
<1> QED BY <1>1, <1>2, <1>3, <1>4, <1>5, <1>6

\* InStep, for any contacts, requests and bounds: undisturbed requests, one at a
\* time, leave the cache as the server (_sync_contacts, contact_new,
\* contact_edit, contact_delete, api_auto_save).
THEOREM CacheInStep == Spec => []InStep
<1>1. Init => IInv /\ FormsOK /\ CalmInv BY InitInv, InitCalm
<1>2. IInv /\ FormsOK /\ CalmInv /\ [Next]_vars => (IInv /\ FormsOK /\ CalmInv)'
  BY StepInv, StepForms, StepCalm
<1>3. CalmInv => InStep BY IdleSame DEF InStep, Same
<1> QED BY <1>1, <1>2, <1>3, PTL DEF Spec

\* What a request is about to give its address to has it for itself.
OwnAddress(t) ==
  ~apart /\ Does(t, {"new", "edit", "save"}, "put") /\ srv' # srv
    => \A u \in Uids \ {job[t].u} : job[t].mail # None /\ srv[u] # None => srv[u].mail # job[t].mail

\* An address that a calm request is about to put is on no other card.
LEMMA StepOwns ==
  ASSUME IInv, CalmInv, NEW t \in Threads
  PROVE  OwnAddress(t)
<1> SUFFICES ASSUME ~apart, Does(t, {"new", "edit", "save"}, "put"), NEW u \in Uids \ {job[t].u},
                    job[t].mail # None, srv[u] # None
             PROVE  srv[u].mail # job[t].mail
  BY DEF OwnAddress
<1>1. job[t] # Idle /\ ~Half(job[t]) BY DEF Does, Idle, Half
<1>2. row[u] = Row(srv[u]) BY <1>1, BusySame DEF Same
<1>3. srv[u] \in Texts BY DEF IInv, ServerOK
<1>4. row[u] \in Rows /\ row[u].text = srv[u] BY <1>2, <1>3 DEF Row, Rows, Texts
<1>5. row[u] # None BY <1>4, ContactsAssumption
<1>6. ClaimOK(row, job[t]) BY DEF CalmInv, ClaimsOK
<1>7. row[u].text.mail # job[t].mail BY <1>5, <1>6 DEF ClaimOK, Does
<1> QED BY <1>4, <1>7

\* OneCard, for any contacts, addresses and bounds: while cache and server are
\* in step, no page and no saving of recipients gives an address twice
\* (_check_email_duplicates, email_exists).
THEOREM AddressesAreUnique == Spec => OneCard
<1>1. Init => IInv /\ FormsOK /\ CalmInv BY InitInv, InitCalm
<1>2. IInv /\ FormsOK /\ CalmInv /\ [Next]_vars => (IInv /\ FormsOK /\ CalmInv)'
  BY StepInv, StepForms, StepCalm
<1>3. IInv /\ CalmInv /\ [Next]_vars => [\A t \in Threads : OwnAddress(t)]_vars BY StepOwns
<1>4. Spec => [][\A t \in Threads : OwnAddress(t)]_vars
  BY <1>1, <1>2, <1>3, PTL DEF Spec
<1> QED BY <1>4 DEF OneCard, OwnAddress
=============================================================================
