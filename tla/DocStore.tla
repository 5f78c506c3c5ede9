----------------------------- MODULE DocStore -----------------------------
(***************************************************************************)
(* The documents of one account: their rows in the encrypted cache, their  *)
(* files on disk, which repeat what the rows say (the blob in an ODF's     *)
(* meta.xml, or the meta.json beside any other format), the shares in the  *)
(* shared database, and the editors that save through WOPI                 *)
(* (app/modules/docs: controllers docs.py, sharing.py and wopi.py,         *)
(* services resync.py, storage.py and doc_meta.py), the REST handlers of   *)
(* app/api/controllers/docs.py and the tools of app/mcp/tools/docs.py.     *)
(*                                                                         *)
(* A handler commits its writes one by one and waits for nothing between   *)
(* them (SQLite and files do not yield to other greenlets), so no other    *)
(* handler of its process runs in between, but the process may end, and    *)
(* the MCP server is a process of its own: a handler is an action that     *)
(* leaves its writes in todo, and the writes are actions. Of a row only    *)
(* its trash mark and its folder are kept. Docs are the documents looked   *)
(* at, an account has others. The requests are those of a customer who is  *)
(* signed in, or of the holder of a token that may write documents.        *)
(*                                                                         *)
(* A definition named Slip... is the definition after it with one mistake. *)
(***************************************************************************)
EXTENDS Integers, Sequences, FiniteSets, SequencesExt

CONSTANTS
  Docs,     \* document ids
  Shares,   \* shares that grant writing
  Folders,  \* folders below the root
  Root,     \* the root folder
  None

Meta == [trashed : BOOLEAN, folder : Folders \union {Root}]

ASSUME DocAssumption ==
  /\ IsFiniteSet(Docs)
  /\ Root \notin Folders
  /\ None \notin Docs \union Meta \union {"odf", "other"}

\* The gunicorn worker, which serves the pages and the REST API, and the MCP
\* server.
Procs == {"web", "mcp"}

\* What resync makes of a file that says nothing.
Plain == [trashed |-> FALSE, folder |-> Root]

VARIABLES
  row,       \* document |-> its row, or None
  disk,      \* document |-> what its files say, or None without a content file
  share,     \* share |-> its document, and whether it is not revoked
  editor,    \* documents with an unexpired WOPI token of the owner
  guests,    \* shares with an unexpired WOPI token
  undo,      \* docs_folder_undo of the session
  enabled,   \* whether the account is active
  format,    \* document |-> "odf", or "other" with a meta.json; None before it is created
  todo,      \* process |-> the writes that its running handler has still to do
  writer,    \* who wrote the document's files last
  doubtful   \* documents of a handler that was cut off, rebuilt from what neither
             \* a request nor the owner's editor had written, trashed by the API,
             \* or of two handlers at a time

tokens == <<editor, guests>>
ghosts == <<writer, doubtful>>
vars == <<row, disk, share, tokens, undo, enabled, format, todo, ghosts>>

Init ==
  /\ row = [d \in Docs |-> None]
  /\ disk = [d \in Docs |-> None]
  /\ share = [s \in Shares |-> [doc |-> None, active |-> FALSE]]
  /\ editor = {} /\ guests = {}
  /\ undo = None
  /\ enabled = TRUE
  /\ format = [d \in Docs |-> None]
  /\ todo = [p \in Procs |-> <<>>]
  /\ writer = [d \in Docs |-> "request"]
  /\ doubtful = {}

-----------------------------------------------------------------------------
(* The writes of handlers *)

Rows(f) == [do |-> "rows", rows |-> f]
Row(d, r) == Rows([x \in {d} |-> r])
Content(d, m, w) == [do |-> "content", doc |-> d, meta |-> m, by |-> w]
Inject(d) == [do |-> "inject", doc |-> d]
Unlink(d) == [do |-> "unlink", doc |-> d]
Revoke(d) == [do |-> "revoke", doc |-> d]
Undo(u) == [do |-> "undo", undo |-> u]

Touched(w) == IF w.do = "rows" THEN DOMAIN w.rows
              ELSE IF w.do = "undo" THEN {} ELSE {w.doc}

TouchedBy(writes) == UNION {Touched(writes[i]) : i \in DOMAIN writes}

Next1(p, w) ==
  /\ todo[p] # <<>> /\ Head(todo[p]).do = w
  /\ todo' = [todo EXCEPT ![p] = Tail(@)]

\* One commit to the documents table.
WriteRows(p) ==
  /\ Next1(p, "rows")
  /\ LET rows == Head(todo[p]).rows
     IN  row' = [d \in Docs |-> IF d \in DOMAIN rows THEN rows[d] ELSE row[d]]
  /\ UNCHANGED <<disk, share, tokens, undo, enabled, format, ghosts>>

\* The content arrives with m in it: a sidecar is left alone.
Saved(d, m) == [disk EXCEPT ![d] = IF format[d] = "other" /\ @ # None THEN @ ELSE m]

\* write_file
WriteContent(p) ==
  /\ Next1(p, "content")
  /\ LET w == Head(todo[p])
     IN  /\ disk' = Saved(w.doc, w.meta)
         /\ writer' = [writer EXCEPT ![w.doc] = w.by]
  /\ UNCHANGED <<row, share, tokens, undo, enabled, format, doubtful>>

\* inject_metadata_from_doc_row: the row as it is now, if there is a file.
WriteMeta(p) ==
  /\ Next1(p, "inject")
  /\ LET d == Head(todo[p]).doc
     IN  /\ disk' = [disk EXCEPT ![d] = IF @ = None THEN None ELSE row[d]]
         /\ writer' = [writer EXCEPT ![d] = "request"]
  /\ UNCHANGED <<row, share, tokens, undo, enabled, format, doubtful>>

\* delete_file, with the sidecar.
DeleteFile(p) ==
  /\ Next1(p, "unlink")
  /\ disk' = [disk EXCEPT ![Head(todo[p]).doc] = None]
  /\ UNCHANGED <<row, share, tokens, undo, enabled, format, ghosts>>

\* revoke_shares_for_doc
RevokeAll(p) ==
  /\ Next1(p, "revoke")
  /\ share' = [s \in Shares |-> IF share[s].doc = Head(todo[p]).doc
                                THEN [share[s] EXCEPT !.active = FALSE] ELSE share[s]]
  /\ UNCHANGED <<row, disk, tokens, undo, enabled, format, ghosts>>

\* The response sets the session's cookie.
WriteUndo(p) ==
  /\ Next1(p, "undo")
  /\ undo' = Head(todo[p]).undo
  /\ UNCHANGED <<row, disk, share, tokens, enabled, format, ghosts>>

\* The process ends within a handler.
Crash(p) ==
  /\ todo[p] # <<>>
  /\ todo' = [todo EXCEPT ![p] = <<>>]
  /\ doubtful' = doubtful \union TouchedBy(todo[p])
  /\ UNCHANGED <<row, disk, share, tokens, undo, enabled, format, writer>>

-----------------------------------------------------------------------------
(* The requests of the owner: controllers/docs.py *)

Idle(p) == todo[p] = <<>>

\* The documents of handlers that are running.
Pending == UNION {TouchedBy(todo[p]) : p \in Procs}

\* What every page's handler asks first: the account is active, its cache opens.
Serves == Idle("web") /\ enabled

\* A handler of p begins. If one of the other process is at the same
\* document, their reads and writes mix.
Begins(p, writes, doubt) ==
  /\ Idle(p)
  /\ todo' = [todo EXCEPT ![p] = writes]
  /\ doubtful' = doubtful \union doubt \union (TouchedBy(writes) \intersect Pending)
  /\ UNCHANGED <<row, disk, share, tokens, undo, enabled, writer>>

Handles(p, writes) == Begins(p, writes, {}) /\ UNCHANGED format

Does(writes) == Handles("web", writes)

\* Every document of a set, in the order the code happens to visit them.
ForEach(S, Op(_)) == FlattenSeq([i \in DOMAIN SetToSeq(S) |-> Op(SetToSeq(S)[i])])

Active(d) == row[d] # None /\ ~row[d].trashed
InTrash(d) == row[d] # None /\ row[d].trashed
In(f) == {d \in Docs : row[d] # None /\ row[d].folder = f}
Moved(S, f) == Rows([d \in S |-> [row[d] EXCEPT !.folder = f]])

At(f) == [trashed |-> FALSE, folder |-> f]

\* An ODF with its metadata in it; any other format, with its sidecar; and
\* what gets no metadata, written before its row.
Written(d, f) == <<Row(d, At(f)), Content(d, At(f), "request")>>
Beside(d, f) == <<Row(d, At(f)), Content(d, Plain, "request"), Inject(d)>>
Bare(d) == <<Content(d, Plain, "blind"), Row(d, Plain)>>

\* A handler makes a document: a new id.
Makes(p, d, fmt, writes) ==
  /\ format[d] = None
  /\ format' = [format EXCEPT ![d] = fmt]
  /\ Begins(p, writes, {})

Create(d, f) == Serves /\ Makes("web", d, "odf", Written(d, f))

\* A text is converted by pandoc before anything is written: by then the
\* account may be inactive, and the cache that was opened deleted.
Upload(d, f) ==
  \/ Serves /\ Makes("web", d, "other", Beside(d, f))
  \/ Makes("web", d, "odf", Written(d, f))
  \/ Makes("web", d, "odf", Tail(Written(d, f)))

\* convert writes what Collabora made of another document.
Convert(d) ==
  \E writes \in {Written(d, Root), Tail(Written(d, Root))} : Makes("web", d, "odf", writes)

\* rename changes a part of the row that is not kept here.
Rename(d) ==
  /\ Serves /\ Active(d)
  /\ Does(<<Inject(d)>>)

UpdateTags(d) == Rename(d)

Move(d, f) ==
  /\ Serves /\ Active(d)
  /\ Does(<<Moved({d}, f), Inject(d)>>)

Trashing(d) == <<Row(d, [row[d] EXCEPT !.trashed = TRUE]), Revoke(d), Inject(d)>>
Purging(d) == <<Row(d, None), Unlink(d), Revoke(d)>>

SlipDelete(d) ==
  /\ Serves /\ row[d] # None
  /\ Does(IF row[d].trashed THEN Purging(d)
          ELSE <<Row(d, [row[d] EXCEPT !.trashed = TRUE]), Inject(d)>>)

\* delete: into the trash, and out of it for good.
Delete(d) ==
  /\ Serves /\ row[d] # None
  /\ Does(IF row[d].trashed THEN Purging(d) ELSE Trashing(d))

EmptyTrash ==
  /\ Serves
  /\ Does(ForEach({d \in Docs : InTrash(d)}, Purging))

SlipRestore(d) ==
  /\ Serves /\ row[d] # None
  /\ Does(<<Row(d, [row[d] EXCEPT !.trashed = FALSE])>>)

Restore(d) ==
  /\ Serves /\ row[d] # None
  /\ Does(<<Row(d, [row[d] EXCEPT !.trashed = FALSE]), Inject(d)>>)

Injecting(d) == <<Inject(d)>>

\* rename_folder: all its documents move, the active ones of the new folder
\* are injected.
RenameFolder(f, g) ==
  /\ Serves
  /\ Does(<<Moved(In(f), g)>> \o ForEach({d \in In(f) \union In(g) : Active(d)}, Injecting))

SlipDeleteFolder(f) ==
  /\ Serves
  /\ LET moved == {d \in In(f) : Active(d)}
     IN  Does(<<Moved(In(f), Root)>> \o ForEach(moved, Injecting)
              \o <<Undo([docs |-> moved, folder |-> Root])>>)

\* delete_folder: all its documents move to the parent, the active ones are
\* injected and remembered with their folder.
DeleteFolder(f) ==
  /\ Serves
  /\ LET moved == {d \in In(f) : Active(d)}
     IN  Does(<<Moved(In(f), Root)>> \o ForEach(moved, Injecting)
              \o <<Undo([docs |-> moved, folder |-> f])>>)

\* undo_delete_folder: the remembered ones that are still active move back.
UndoDeleteFolder ==
  /\ Serves /\ undo # None
  /\ LET Back(d) == <<Moved({d}, undo.folder), Inject(d)>>
     IN  Does(ForEach({d \in undo.docs : Active(d)}, Back) \o <<Undo(None)>>)

\* sync: a row for every file that has none.
Resync ==
  /\ Serves
  /\ LET lost == {d \in Docs : disk[d] # None /\ row[d] = None}
         Found(d) == <<Row(d, [disk[d] EXCEPT !.trashed = FALSE])>>
                     \o (IF disk[d].trashed THEN <<Row(d, disk[d])>> ELSE <<>>)
     IN  Begins("web", ForEach(lost, Found), {d \in lost : writer[d] \in {"guest", "blind"}})
  /\ UNCHANGED format

\* index with ?resync=1.
IndexResync == Resync

\* open_cache deletes a cache it cannot open, whoever has it open.
Reset ==
  /\ \E p \in Procs : Idle(p)
  /\ row' = [d \in Docs |-> None]
  /\ doubtful' = doubtful \union Pending
  /\ UNCHANGED <<disk, share, tokens, undo, enabled, format, todo, writer>>

\* An administrator (de)activates the account.
ToggleAccount ==
  /\ Idle("web")
  /\ enabled' = ~enabled
  /\ UNCHANGED <<row, disk, share, tokens, undo, format, todo, ghosts>>

-----------------------------------------------------------------------------
(* Shares and editors: controllers/sharing.py and wopi.py *)

NewShare(d) == [doc |-> d, active |-> TRUE]

AddShare(s, d) ==
  /\ Serves /\ Active(d) /\ share[s].doc = None
  /\ share' = [share EXCEPT ![s] = NewShare(d)]
  /\ UNCHANGED <<row, disk, tokens, undo, enabled, format, todo, ghosts>>

RevokeShare(s) ==
  /\ Idle("web") /\ share[s].active
  /\ share' = [share EXCEPT ![s].active = FALSE]
  /\ UNCHANGED <<row, disk, tokens, undo, enabled, format, todo, ghosts>>

\* editor: a token for a document that is not in the trash.
OpenEditor(d) ==
  /\ Serves /\ Active(d)
  /\ editor' = editor \union {d}
  /\ UNCHANGED <<row, disk, share, guests, undo, enabled, format, todo, ghosts>>

\* public_share_view: a token for a share not revoked.
OpenShare(s) ==
  /\ Idle("web") /\ share[s].active
  /\ guests' = guests \union {s}
  /\ UNCHANGED <<row, disk, share, editor, undo, enabled, format, todo, ghosts>>

\* open_shared_doc: the same for a recipient who is signed in.
OpenSharedDoc(s) == OpenShare(s)

\* Tokens expire.
Expire ==
  /\ Idle("web")
  /\ \/ \E d \in editor : editor' = editor \ {d} /\ guests' = guests
     \/ \E s \in guests : guests' = guests \ {s} /\ editor' = editor
  /\ UNCHANGED <<row, disk, share, undo, enabled, format, todo, ghosts>>

SlipSave(d) ==
  /\ Idle("web") /\ d \in editor
  /\ \E m \in Meta :
       /\ disk' = Saved(d, IF enabled /\ row[d] # None THEN Plain ELSE m)
       /\ writer' = [writer EXCEPT ![d] = IF enabled /\ row[d] # None THEN "owner" ELSE "blind"]
  /\ UNCHANGED <<row, share, tokens, undo, enabled, format, todo, doubtful>>

\* wopi_put_file: with the row at hand its metadata goes into the content,
\* the folder and the tags not among it; without a row or an active account
\* the content is written as Collabora sent it, whatever metadata that kept.
Save(d) ==
  /\ Idle("web") /\ d \in editor
  /\ \E m \in Meta :
       /\ disk' = Saved(d, IF enabled /\ row[d] # None
                           THEN [trashed |-> row[d].trashed, folder |-> Root] ELSE m)
       /\ writer' = [writer EXCEPT ![d] = IF enabled /\ row[d] # None THEN "owner" ELSE "blind"]
  /\ UNCHANGED <<row, share, tokens, undo, enabled, format, todo, doubtful>>

SlipSaveShare(s) ==
  /\ Idle("web") /\ s \in guests
  /\ \E m \in Meta : disk' = Saved(share[s].doc, m)
  /\ writer' = [writer EXCEPT ![share[s].doc] = "guest"]
  /\ UNCHANGED <<row, share, tokens, undo, enabled, format, todo, doubtful>>

\* _wopi_put_file_share: the share is looked up again, the content written
\* as it came.
SaveShare(s) ==
  /\ Idle("web") /\ s \in guests /\ share[s].active
  /\ \E m \in Meta : disk' = Saved(share[s].doc, m)
  /\ writer' = [writer EXCEPT ![share[s].doc] = "guest"]
  /\ UNCHANGED <<row, share, tokens, undo, enabled, format, todo, doubtful>>

-----------------------------------------------------------------------------
(* app/api/controllers/docs.py: the account's token is enough. What these  *)
(* handlers do as the pages do is one definition here, for p the web       *)
(* process or the MCP server (app/mcp/tools/docs.py).                      *)

MakesAt(p, d, f) == Makes(p, d, "odf", Written(d, f))

\* Neither the file nor the shares hear of it.
Trashes(p, d) ==
  /\ Active(d)
  /\ Begins(p, <<Row(d, [row[d] EXCEPT !.trashed = TRUE])>>, {d})
  /\ UNCHANGED format

Retags(p, d) == Active(d) /\ Handles(p, <<Inject(d)>>)

MovesTo(p, d, f) == Active(d) /\ Handles(p, <<Moved({d}, f), Inject(d)>>)

RenamesFolder(p, f, g) ==
  Handles(p, <<Moved(In(f), g)>> \o ForEach({d \in In(f) \union In(g) : Active(d)}, Injecting))

\* Without an undo.
DropsFolder(p, f) ==
  Handles(p, <<Moved(In(f), Root)>> \o ForEach({d \in In(f) : Active(d)}, Injecting))

\* d is the document, or the draft of another, which need not be one: no row
\* is looked at, and no share revoked.
AppliesDraft(p, d) ==
  \/ format[d] # None /\ \E m \in Meta : Handles(p, <<Content(d, m, "blind")>>)
  \/ disk[d] # None /\ Handles(p, <<Row(d, None), Unlink(d)>>)

DiscardsDraft(p, d) == format[d] # None /\ Handles(p, <<Row(d, None), Unlink(d)>>)

ApiCreate(d, f) == MakesAt("web", d, f)
ApiDelete(d) == Trashes("web", d)
ApiTags(d) == Retags("web", d)
ApiMove(d, f) == MovesTo("web", d, f)
ApiRenameFolder(f, g) == RenamesFolder("web", f, g)
ApiDeleteFolder(f) == DropsFolder("web", f)
ApiCreateDraft(d) == Makes("web", d, "odf", Bare(d))
ApiApplyDraft(d) == AppliesDraft("web", d)
ApiDiscardDraft(d) == DiscardsDraft("web", d)
ApiConvert(d) == MakesAt("web", d, Root)

\* An ODF is stored as it came, with the metadata it may hold.
ApiUpload(d) ==
  \/ \E m \in Meta : Makes("web", d, "odf", <<Row(d, Plain), Content(d, m, "blind")>>)
  \/ Makes("web", d, "other", Beside(d, Root))

\* The row was looked at before Collabora converted the content.
ApiContent(d) ==
  format[d] # None /\ \E m \in Meta : Handles("web", <<Content(d, m, "blind")>>)

McpCreate(d, f) == MakesAt("mcp", d, f)
McpDelete(d) == Trashes("mcp", d)
McpTags(d) == Retags("mcp", d)
McpMove(d, f) == MovesTo("mcp", d, f)
McpRenameFolder(f, g) == RenamesFolder("mcp", f, g)
McpDeleteFolder(f) == DropsFolder("mcp", f)
McpContent(d) == Active(d) /\ Handles("mcp", <<Content(d, Plain, "blind")>>)
McpCreateDraft(d) == Makes("mcp", d, "odf", Bare(d))
McpApplyDraft(d) == AppliesDraft("mcp", d)
McpDiscardDraft(d) == DiscardsDraft("mcp", d)

\* Unlike the other two, without metadata.
McpConvert(d) == Makes("mcp", d, "odf", Bare(d))

-----------------------------------------------------------------------------
Write(p) ==
  WriteRows(p) \/ WriteContent(p) \/ WriteMeta(p) \/ DeleteFile(p) \/ RevokeAll(p) \/ WriteUndo(p)

Places == Folders \union {Root}

Request ==
  \/ \E d \in Docs : Rename(d) \/ UpdateTags(d) \/ Delete(d) \/ Restore(d) \/ Convert(d)
  \/ \E d \in Docs, f \in Places : Create(d, f) \/ Upload(d, f) \/ Move(d, f)
  \/ \E f \in Folders : DeleteFolder(f) \/ \E g \in Folders \ {f} : RenameFolder(f, g)
  \/ EmptyTrash \/ UndoDeleteFolder \/ Resync \/ IndexResync

Editing ==
  \/ \E d \in Docs : OpenEditor(d) \/ Save(d) \/ \E s \in Shares : AddShare(s, d)
  \/ \E s \in Shares : RevokeShare(s) \/ OpenShare(s) \/ OpenSharedDoc(s) \/ SaveShare(s)
  \/ Expire

Rest ==
  \/ \E d \in Docs, f \in Places : ApiCreate(d, f) \/ ApiMove(d, f)
  \/ \E d \in Docs :
       ApiDelete(d) \/ ApiTags(d) \/ ApiContent(d) \/ ApiUpload(d) \/ ApiConvert(d)
         \/ ApiCreateDraft(d) \/ ApiApplyDraft(d) \/ ApiDiscardDraft(d)
  \/ \E f \in Folders : ApiDeleteFolder(f) \/ \E g \in Folders \ {f} : ApiRenameFolder(f, g)

Tool ==
  \/ \E d \in Docs, f \in Places : McpCreate(d, f) \/ McpMove(d, f)
  \/ \E d \in Docs :
       McpDelete(d) \/ McpTags(d) \/ McpContent(d) \/ McpConvert(d)
         \/ McpCreateDraft(d) \/ McpApplyDraft(d) \/ McpDiscardDraft(d)
  \/ \E f \in Folders : McpDeleteFolder(f) \/ \E g \in Folders \ {f} : McpRenameFolder(f, g)

Next ==
  \/ \E p \in Procs : Write(p) \/ Crash(p)
  \/ Request \/ Editing \/ Rest \/ Tool
  \/ Reset \/ ToggleAccount

Spec == Init /\ [][Next]_vars

-----------------------------------------------------------------------------
\* Type invariant.
TypeOK ==
  /\ row \in [Docs -> Meta \union {None}]
  /\ disk \in [Docs -> Meta \union {None}]
  /\ share \in [Shares -> [doc : Docs \union {None}, active : BOOLEAN]]
  /\ editor \subseteq Docs /\ guests \subseteq Shares
  /\ undo \in [docs : SUBSET Docs, folder : Folders] \union {None}
  /\ enabled \in BOOLEAN
  /\ format \in [Docs -> {"odf", "other", None}]
  /\ doubtful \subseteq Docs
  /\ writer \in [Docs -> {"request", "owner", "guest", "blind"}]

\* A document with a row has its file.
HasFile(d) == disk[d] # None

\* What the owner's requests or editor wrote last is right about the trash.
TrashAgrees(d) == writer[d] \in {"request", "owner"} => disk[d].trashed = row[d].trashed

\* What a request wrote last is right about the folder, of active documents.
FolderAgrees(d) ==
  writer[d] = "request" /\ ~row[d].trashed => disk[d].folder = row[d].folder

\* Documents that no handler is at, and none left in doubt.
Settled == Docs \ (doubtful \union Pending)

\* M6b, U13.85c: the cache may be lost at any time between requests: a resync
\* finds every document, in the trash if it was there, and in its folder,
\* unless a process ended within a handler, two were at it at a time, or
\* somebody wrote the file who did not see the row.
Recoverable ==
  \A d \in Settled : row[d] # None => HasFile(d) /\ TrashAgrees(d) /\ FolderAgrees(d)

\* U13.60j: "when the owner deletes a document (soft or hard delete), all
\* active shares for that document are automatically revoked": a document
\* in the trash has none, through restores, resyncs and new shares, unless a
\* process ended within the handler or the API trashed it.
NoShareOfTrash ==
  \A s \in Shares : share[s].active /\ share[s].doc \in Settled => ~InTrash(share[s].doc)

\* No guest writes a document while it is in the trash, with whatever token
\* an editor that is still open holds.
TrashSealed ==
  [][\A d \in Docs \ doubtful :
       InTrash(d) /\ writer[d] # "guest" => writer'[d] # "guest"]_vars
=============================================================================
