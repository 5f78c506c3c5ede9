-------------------------- MODULE DocStoreProof ---------------------------
(***************************************************************************)
(* TypeOK, Recoverable, NoShareOfTrash and TrashSealed hold in every       *)
(* behaviour of DocStore, for any documents, shares and folders.           *)
(*                                                                         *)
(* Between its first and its last write a handler leaves row, file and     *)
(* shares at odds. So the invariant looks ahead: whatever is left to do    *)
(* for a document ends with them agreeing (EndsWell), whatever order the   *)
(* writes come in and whatever the other process does in between.          *)
(***************************************************************************)
EXTENDS DocStore, FiniteSetTheorems, WellFoundedInduction, TLAPS

-----------------------------------------------------------------------------
(* What is left to do for a document *)

Writers == {"request", "owner", "guest", "blind"}
UndoSet == [docs : SUBSET Docs, folder : Folders]
Values == Meta \union {None}

RowWrites == [do : {"rows"}, rows : UNION {[S -> Values] : S \in SUBSET Docs}]
ContentWrites == [do : {"content"}, doc : Docs, meta : Meta, by : {"request", "blind"}]
OtherWrites == [do : {"inject", "unlink", "revoke"}, doc : Docs]
UndoWrites == [do : {"undo"}, undo : UndoSet \union {None}]
Writes == RowWrites \union ContentWrites \union OtherWrites \union UndoWrites

\* Where the writes w write the row, the files and the shares of d.
AtRow(w, d) == {i \in DOMAIN w : w[i].do = "rows" /\ d \in DOMAIN w[i].rows}
AtFile(w, d) == {i \in DOMAIN w : w[i].do \in {"content", "inject", "unlink"} /\ w[i].doc = d}
AtShare(w, d) == {i \in DOMAIN w : w[i].do = "revoke" /\ w[i].doc = d}

\* After them the row r of d is e.
RowEnds(w, d, r, e) ==
  \/ AtRow(w, d) = {} /\ e = r
  \/ \E i \in AtRow(w, d) : w[i].rows[d] = e /\ \A j \in AtRow(w, d) : j <= i

\* The files, with m in them, agree with the row r, as far as who wrote them
\* knew it. A sidecar always does. Files without a row, which a resync will
\* find, say nothing of a trash the shares A do not know of.
Right(r, m, by, fmt, A) ==
  /\ r = None /\ m # None /\ by \in {"request", "owner"} /\ A # {} => ~m.trashed
  /\ r # None =>
       /\ m # None
       /\ by \in {"request", "owner"} \/ fmt = "other" => m.trashed = r.trashed
       /\ by = "request" \/ fmt = "other" => r.trashed \/ m.folder = r.folder

\* So it is after the writes w, with the row e.
NoFile(w, d, e, m, by, fmt, A) ==
  AtFile(w, d) = {} /\ Right(e, m, by, fmt, A) /\ (e = None => AtRow(w, d) = {})
Removed(w, d, e) ==
  \E i \in AtFile(w, d) :
    /\ AtFile(w, d) = {i} /\ w[i].do = "unlink" /\ e = None
    /\ \A j \in AtRow(w, d) : j < i
Injected(w, d, e, m) ==
  \E i \in AtFile(w, d) :
    /\ AtFile(w, d) = {i} /\ w[i].do = "inject" /\ e # None /\ m # None
    /\ \A j \in AtRow(w, d) : j < i
ThenInjected(w, d, e) ==
  \E k, i \in AtFile(w, d) :
    /\ AtFile(w, d) = {k, i} /\ k < i /\ w[k].do = "content" /\ w[i].do = "inject" /\ e # None
    /\ \A j \in AtRow(w, d) : j < i
Contained(w, d, e, m, fmt, A) ==
  \E i \in AtFile(w, d) :
    /\ AtFile(w, d) = {i} /\ w[i].do = "content"
    /\ e = None => AtRow(w, d) = {}
    /\ \/ w[i].by = "blind" /\ (e # None /\ fmt = "other" => Right(e, m, "blind", fmt, A))
       \/ /\ w[i].by = "request" /\ fmt = "odf"
          /\ e = None => ~w[i].meta.trashed
          /\ e # None => w[i].meta = e
FileEnds(w, d, e, m, by, fmt, A) ==
  \/ NoFile(w, d, e, m, by, fmt, A) \/ Removed(w, d, e) \/ Injected(w, d, e, m)
  \/ ThenInjected(w, d, e) \/ Contained(w, d, e, m, fmt, A)

\* The shares A are none, or revoked, if the document ends in the trash.
ShareEnds(w, d, e, A) == e # None /\ e.trashed => A = {} \/ AtShare(w, d) # {}

\* The MCP server does not take documents out of the trash or put them there,
\* but for what is in doubt, and does not revoke.
TrashKept(w, d, r, e, A) ==
  /\ \A i \in AtRow(w, d) : w[i].rows[d] = e
  /\ r # None /\ e # None => r.trashed = e.trashed
  /\ r # None /\ r.trashed => A = {}
  /\ e # None /\ e.trashed => A = {}

\* What process p has still to do, w, ends well for d, with row r, files that
\* say m, written by by, format fmt, and active shares A.
EndsWell(p, w, d, r, m, by, fmt, A) ==
  \E e \in Values :
    /\ RowEnds(w, d, r, e)
    /\ FileEnds(w, d, e, m, by, fmt, A)
    /\ ShareEnds(w, d, e, A)
    /\ p = "mcp" => TrashKept(w, d, r, e, A)

\* Nothing is left to do, and all is well.
Quiet(r, m, by, fmt, A) == Right(r, m, by, fmt, A) /\ (r # None /\ r.trashed => A = {})

-----------------------------------------------------------------------------
(* The inductive invariant *)

Shared(d) == {s \in Shares : share[s].active /\ share[s].doc = d}
Other(p) == IF p = "web" THEN "mcp" ELSE "web"

TodoType == todo \in [Procs -> Seq(Writes)]

\* Two handlers are at the same document only in doubt.
Apart == \A d \in Docs : (\A p \in Procs : d \in TouchedBy(todo[p])) => d \in doubtful

\* A document that is not made yet is nowhere.
Unmade ==
  \A d \in Docs :
    format[d] = None =>
      /\ row[d] = None /\ disk[d] = None /\ d \notin editor
      /\ \A p \in Procs : d \notin TouchedBy(todo[p])
      /\ \A s \in Shares : share[s].doc # d

Ends ==
  \A d \in Docs \ doubtful : \A p \in Procs :
    d \notin TouchedBy(todo[Other(p)]) =>
      EndsWell(p, todo[p], d, row[d], disk[d], writer[d], format[d], Shared(d))

IInv == TypeOK /\ TodoType /\ Apart /\ Unmade /\ Ends

-----------------------------------------------------------------------------
(* One write less *)

\* What the tail of a sequence is.
LEMMA TailIs ==
  ASSUME NEW w \in Seq(Writes), w # <<>>
  PROVE  /\ Tail(w) \in Seq(Writes) /\ 1 \in DOMAIN w /\ Head(w) = w[1] /\ w[1] \in Writes
         /\ DOMAIN w \subseteq Nat \ {0}
         /\ \A i : i \in DOMAIN Tail(w) <=> i \in Nat \ {0} /\ i + 1 \in DOMAIN w
         /\ \A i \in DOMAIN Tail(w) : Tail(w)[i] = w[i + 1]
<1>1. PICK n \in Nat : n = Len(w) /\ n # 0 /\ DOMAIN w = 1..n OBVIOUS
<1>2. PICK v : v = Tail(w) OBVIOUS
<1>3. v \in Seq(Writes) /\ DOMAIN v = 1..(n - 1) /\ \A i \in 1..(n - 1) : v[i] = w[i + 1] BY <1>1, <1>2
<1>4. Head(w) = w[1] /\ w[1] \in Writes BY <1>1
<1>5. \A i : i \in 1..(n - 1) <=> i \in Nat \ {0} /\ i + 1 \in 1..n
  <2>1. \A i : i \in Nat \ {0} => (i \in 1..(n - 1) <=> i + 1 \in 1..n) BY <1>1
  <2>2. \A i : i \in 1..(n - 1) => i \in Nat \ {0} BY <1>1
  <2> QED BY <2>1, <2>2
<1> QED BY <1>1, <1>2, <1>3, <1>4, <1>5

\* Where it writes.
LEMMA TailAt ==
  ASSUME NEW w \in Seq(Writes), w # <<>>, NEW d
  PROVE  /\ \A i : i \in AtRow(Tail(w), d) <=> i \in Nat \ {0} /\ i + 1 \in AtRow(w, d)
         /\ \A i : i \in AtFile(Tail(w), d) <=> i \in Nat \ {0} /\ i + 1 \in AtFile(w, d)
         /\ \A i : i \in AtShare(Tail(w), d) <=> i \in Nat \ {0} /\ i + 1 \in AtShare(w, d)
<1>1. PICK v : v = Tail(w) OBVIOUS
<1>2. /\ \A i : i \in DOMAIN v <=> i \in Nat \ {0} /\ i + 1 \in DOMAIN w
      /\ \A i \in DOMAIN v : v[i] = w[i + 1]
  BY <1>1, TailIs
<1>3. \A i : i \in AtRow(v, d) <=> i \in Nat \ {0} /\ i + 1 \in AtRow(w, d) BY <1>2 DEF AtRow
<1>4. \A i : i \in AtFile(v, d) <=> i \in Nat \ {0} /\ i + 1 \in AtFile(w, d) BY <1>2 DEF AtFile
<1>5. \A i : i \in AtShare(v, d) <=> i \in Nat \ {0} /\ i + 1 \in AtShare(w, d) BY <1>2 DEF AtShare
<1> QED BY <1>1, <1>3, <1>4, <1>5

\* Positions are positive numbers.
LEMMA AtNat ==
  ASSUME NEW w \in Seq(Writes), NEW d
  PROVE  /\ AtRow(w, d) \subseteq Nat \ {0} /\ AtFile(w, d) \subseteq Nat \ {0} /\ AtShare(w, d) \subseteq Nat \ {0}
         /\ AtRow(w, d) \cap AtFile(w, d) = {} /\ AtRow(w, d) \cap AtShare(w, d) = {}
         /\ AtFile(w, d) \cap AtShare(w, d) = {}
<1>1. PICK n \in Nat : DOMAIN w = 1..n OBVIOUS
<1>2. DOMAIN w \subseteq Nat \ {0} BY <1>1
<1> QED BY <1>2 DEF AtRow, AtFile, AtShare

\* What the first write leaves alone ends as before.
LEMMA RowShift ==
  ASSUME NEW w \in Seq(Writes), w # <<>>, NEW d, NEW r, NEW e, 1 \notin AtRow(w, d), RowEnds(w, d, r, e)
  PROVE  RowEnds(Tail(w), d, r, e)
<1>1. PICK v : v = Tail(w) OBVIOUS
<1>2. /\ \A i : i \in AtRow(v, d) <=> i \in Nat \ {0} /\ i + 1 \in AtRow(w, d) BY <1>1, TailAt
<1>3. AtRow(w, d) \subseteq Nat \ {0} BY AtNat
<1>4. CASE AtRow(w, d) = {} /\ e = r BY <1>1, <1>2, <1>4 DEF RowEnds
<1>5. CASE \E i \in AtRow(w, d) : w[i].rows[d] = e /\ \A j \in AtRow(w, d) : j <= i
  <2>1. PICK i \in AtRow(w, d) : w[i].rows[d] = e /\ \A j \in AtRow(w, d) : j <= i BY <1>5
  <2>2. i - 1 \in Nat \ {0} /\ (i - 1) + 1 = i BY <1>3
  <2>3. PICK k : k = i - 1 OBVIOUS
  <2>4. k \in AtRow(v, d) /\ k \in DOMAIN v /\ v[k] = w[i]
    <3>1. k \in AtRow(v, d) BY <1>2, <2>2, <2>3
    <3>2. k \in DOMAIN v BY <3>1 DEF AtRow
    <3>3. v[k] = w[k + 1] BY <1>1, <3>2, TailIs
    <3> QED BY <2>2, <2>3, <3>1, <3>2, <3>3
  <2>5. \A j \in AtRow(v, d) : j <= k
    <3> TAKE j \in AtRow(v, d)
    <3>1. j \in Nat /\ j + 1 <= i BY <1>2, <2>1
    <3> QED BY <1>3, <2>3, <3>1
  <2> QED BY <1>1, <2>1, <2>4, <2>5 DEF RowEnds
<1> QED BY <1>4, <1>5 DEF RowEnds

\* A row that was written is the row.
LEMMA RowTaken ==
  ASSUME NEW w \in Seq(Writes), w # <<>>, NEW d, NEW r, NEW e, 1 \in AtRow(w, d), RowEnds(w, d, r, e)
  PROVE  RowEnds(Tail(w), d, w[1].rows[d], e)
<1>1. PICK v : v = Tail(w) OBVIOUS
<1>2. /\ \A i : i \in AtRow(v, d) <=> i \in Nat \ {0} /\ i + 1 \in AtRow(w, d) BY <1>1, TailAt
<1>3. AtRow(w, d) \subseteq Nat \ {0} BY AtNat
<1>4. PICK i \in AtRow(w, d) : w[i].rows[d] = e /\ \A j \in AtRow(w, d) : j <= i BY DEF RowEnds
<1>5. CASE i = 1
  <2>1. AtRow(v, d) = {}
    <3> SUFFICES ASSUME NEW j \in AtRow(v, d) PROVE FALSE OBVIOUS
    <3>1. j \in Nat \ {0} /\ j + 1 \in AtRow(w, d) BY <1>2
    <3>2. j + 1 <= 1 BY <1>4, <1>5, <3>1
    <3> QED BY <3>1, <3>2
  <2> QED BY <1>1, <1>4, <1>5, <2>1 DEF RowEnds
<1>6. CASE i # 1
  <2>2. i - 1 \in Nat \ {0} /\ (i - 1) + 1 = i BY <1>3, <1>6
  <2>3. PICK k : k = i - 1 OBVIOUS
  <2>4. k \in AtRow(v, d) /\ k \in DOMAIN v /\ v[k] = w[i]
    <3>1. k \in AtRow(v, d) BY <1>2, <2>2, <2>3
    <3>2. k \in DOMAIN v BY <3>1 DEF AtRow
    <3>3. v[k] = w[k + 1] BY <1>1, <3>2, TailIs
    <3> QED BY <2>2, <2>3, <3>1, <3>2, <3>3
  <2>5. \A j \in AtRow(v, d) : j <= k
    <3> TAKE j \in AtRow(v, d)
    <3>1. j \in Nat /\ j + 1 <= i BY <1>2, <1>4
    <3> QED BY <1>3, <2>3, <3>1
  <2> QED BY <1>1, <1>4, <2>4, <2>5 DEF RowEnds
<1> QED BY <1>5, <1>6

\* A single position of w is one of its tail, if it is not the first.
LEMMA OneLess ==
  ASSUME NEW w \in Seq(Writes), w # <<>>, NEW d, NEW i \in AtFile(w, d), i # 1, \A j \in AtRow(w, d) : j < i
  PROVE  /\ i - 1 \in AtFile(Tail(w), d) /\ Tail(w)[i - 1] = w[i]
         /\ \A j \in AtRow(Tail(w), d) : j < i - 1
<1>1. PICK v : v = Tail(w) OBVIOUS
<1>2. /\ \A j : j \in AtRow(v, d) <=> j \in Nat \ {0} /\ j + 1 \in AtRow(w, d)
      /\ \A j : j \in AtFile(v, d) <=> j \in Nat \ {0} /\ j + 1 \in AtFile(w, d)
  BY <1>1, TailAt
<1>3. i \in Nat \ {0} BY AtNat
<1>4. i - 1 \in Nat \ {0} /\ (i - 1) + 1 = i BY <1>3
<1>5. PICK k : k = i - 1 OBVIOUS
<1>6. k \in AtFile(v, d) BY <1>2, <1>4, <1>5
<1>7. v[k] = w[i]
  <2>1. k \in DOMAIN v BY <1>6 DEF AtFile
  <2>2. v[k] = w[k + 1] BY <1>1, <2>1, TailIs
  <2> QED BY <1>4, <1>5, <2>2
<1>8. \A j \in AtRow(v, d) : j < k
  <2> TAKE j \in AtRow(v, d)
  <2>1. j \in Nat /\ j + 1 < i BY <1>2
  <2> QED BY <1>3, <1>5, <2>1
<1> QED BY <1>1, <1>5, <1>6, <1>7, <1>8

\* The only position but the first.
LEMMA OnlyLess ==
  ASSUME NEW w \in Seq(Writes), w # <<>>, NEW d, NEW i \in AtFile(w, d), i # 1,
         \A j \in AtFile(w, d) : j = i \/ j = 1
  PROVE  AtFile(Tail(w), d) = {i - 1}
<1>1. PICK v : v = Tail(w) OBVIOUS
<1>2. \A j : j \in AtFile(v, d) <=> j \in Nat \ {0} /\ j + 1 \in AtFile(w, d) BY <1>1, TailAt
<1>3. i \in Nat \ {0} BY AtNat
<1>4. i - 1 \in Nat \ {0} /\ (i - 1) + 1 = i BY <1>3
<1>5. i - 1 \in AtFile(v, d) BY <1>2, <1>4
<1>6. \A j \in AtFile(v, d) : j = i - 1
  <2> TAKE j \in AtFile(v, d)
  <2>1. j \in Nat \ {0} /\ (j + 1 = i \/ j + 1 = 1) BY <1>2
  <2> QED BY <1>3, <2>1
<1> QED BY <1>1, <1>5, <1>6

\* No row is left to write where none was.
LEMMA NoneLess ==
  ASSUME NEW w \in Seq(Writes), w # <<>>, NEW d
  PROVE  /\ AtRow(w, d) = {} => AtRow(Tail(w), d) = {}
         /\ AtFile(w, d) = {} => AtFile(Tail(w), d) = {}
         /\ AtFile(w, d) = {1} => AtFile(Tail(w), d) = {}
<1>1. PICK v : v = Tail(w) OBVIOUS
<1>2. /\ \A j : j \in AtRow(v, d) => j \in Nat \ {0} /\ j + 1 \in AtRow(w, d)
      /\ \A j : j \in AtFile(v, d) => j \in Nat \ {0} /\ j + 1 \in AtFile(w, d)
  BY <1>1, TailAt
<1>3. \A j \in Nat \ {0} : j + 1 # 1 OBVIOUS
<1> QED BY <1>1, <1>2, <1>3

\* The files end as before.
LEMMA FileShift ==
  ASSUME NEW w \in Seq(Writes), w # <<>>, NEW d, NEW e, NEW m, NEW by, NEW fmt, NEW A,
         1 \notin AtFile(w, d), FileEnds(w, d, e, m, by, fmt, A)
  PROVE  FileEnds(Tail(w), d, e, m, by, fmt, A)
<1>1. PICK v : v = Tail(w) OBVIOUS
<1>2. AtFile(w, d) \subseteq Nat \ {0} BY AtNat
<1>3. AtRow(w, d) = {} => AtRow(v, d) = {} BY <1>1, NoneLess
<1>4. CASE NoFile(w, d, e, m, by, fmt, A) BY <1>1, <1>3, <1>4, NoneLess DEF NoFile, FileEnds
<1>5. CASE Removed(w, d, e)
  <2>1. PICK i \in AtFile(w, d) : /\ AtFile(w, d) = {i} /\ w[i].do = "unlink" /\ e = None
                                 /\ \A j \in AtRow(w, d) : j < i
    BY <1>5 DEF Removed
  <2>2. i - 1 \in AtFile(v, d) /\ v[i - 1] = w[i] /\ \A j \in AtRow(v, d) : j < i - 1
    BY <1>1, <2>1, OneLess
  <2>3. AtFile(v, d) = {i - 1} BY <1>1, <2>1, OnlyLess
  <2> QED BY <1>1, <2>1, <2>2, <2>3 DEF Removed, FileEnds
<1>6. CASE Injected(w, d, e, m)
  <2>1. PICK i \in AtFile(w, d) : /\ AtFile(w, d) = {i} /\ w[i].do = "inject" /\ e # None /\ m # None
                                 /\ \A j \in AtRow(w, d) : j < i
    BY <1>6 DEF Injected
  <2>2. i - 1 \in AtFile(v, d) /\ v[i - 1] = w[i] /\ \A j \in AtRow(v, d) : j < i - 1
    BY <1>1, <2>1, OneLess
  <2>3. AtFile(v, d) = {i - 1} BY <1>1, <2>1, OnlyLess
  <2> QED BY <1>1, <2>1, <2>2, <2>3 DEF Injected, FileEnds
<1>7. CASE ThenInjected(w, d, e)
  <2>1. PICK k \in AtFile(w, d), i \in AtFile(w, d) :
          /\ AtFile(w, d) = {k, i} /\ k < i /\ w[k].do = "content" /\ w[i].do = "inject" /\ e # None
          /\ \A j \in AtRow(w, d) : j < i
    BY <1>7 DEF ThenInjected
  <2>2. k # 1 /\ i # 1 /\ k \in Nat \ {0} /\ i \in Nat \ {0} BY <1>2
  <2>3. i - 1 \in AtFile(v, d) /\ v[i - 1] = w[i] /\ \A j \in AtRow(v, d) : j < i - 1
    BY <1>1, <2>1, <2>2, OneLess
  <2>4. \A j : j \in AtFile(v, d) <=> j \in Nat \ {0} /\ j + 1 \in AtFile(w, d) BY <1>1, TailAt
  <2>5. k - 1 \in Nat \ {0} /\ (k - 1) + 1 = k BY <2>2
  <2>6. PICK l : l = k - 1 OBVIOUS
  <2>7. l \in AtFile(v, d) /\ v[l] = w[k]
    <3>1. l \in AtFile(v, d) BY <2>1, <2>4, <2>5, <2>6
    <3>2. l \in DOMAIN v BY <3>1 DEF AtFile
    <3>3. v[l] = w[l + 1] BY <1>1, <3>2, TailIs
    <3> QED BY <2>5, <2>6, <3>1, <3>3
  <2>8. AtFile(v, d) = {l, i - 1}
    <3>1. \A j \in AtFile(v, d) : j = l \/ j = i - 1
      <4> TAKE j \in AtFile(v, d)
      <4>1. j \in Nat /\ (j + 1 = k \/ j + 1 = i) BY <2>1, <2>4
      <4> QED BY <2>2, <2>6, <4>1
    <3> QED BY <2>3, <2>7, <3>1
  <2>9. l < i - 1 BY <2>1, <2>2, <2>6
  <2> QED BY <1>1, <2>1, <2>3, <2>7, <2>8, <2>9 DEF ThenInjected, FileEnds
<1>8. CASE Contained(w, d, e, m, fmt, A)
  <2>1. PICK i \in AtFile(w, d) :
          /\ AtFile(w, d) = {i} /\ w[i].do = "content"
          /\ e = None => AtRow(w, d) = {}
          /\ \/ w[i].by = "blind" /\ (e # None /\ fmt = "other" => Right(e, m, "blind", fmt, A))
             \/ /\ w[i].by = "request" /\ fmt = "odf"
                /\ e = None => ~w[i].meta.trashed
                /\ e # None => w[i].meta = e
    BY <1>8 DEF Contained
  <2>2. AtFile(v, d) = {i - 1} BY <1>1, <2>1, OnlyLess
  <2>3. v[i - 1] = w[i]
    <3>1. i \in Nat \ {0} BY <1>2
    <3>2. i - 1 \in DOMAIN v BY <2>2 DEF AtFile
    <3>3. v[i - 1] = w[(i - 1) + 1] BY <1>1, <3>2, TailIs
    <3>4. (i - 1) + 1 = i BY <3>1
    <3> QED BY <3>3, <3>4
  <2> QED BY <1>1, <1>3, <2>1, <2>2, <2>3 DEF Contained, FileEnds
<1> QED BY <1>4, <1>5, <1>6, <1>7, <1>8 DEF FileEnds

\* The shares end as before.
LEMMA ShareShift ==
  ASSUME NEW w \in Seq(Writes), w # <<>>, NEW d, NEW e, NEW A, 1 \notin AtShare(w, d), ShareEnds(w, d, e, A)
  PROVE  ShareEnds(Tail(w), d, e, A)
<1>1. PICK v : v = Tail(w) OBVIOUS
<1>2. \A i : i \in AtShare(v, d) <=> i \in Nat \ {0} /\ i + 1 \in AtShare(w, d) BY <1>1, TailAt
<1>3. AtShare(w, d) # {} => AtShare(v, d) # {}
  <2> SUFFICES ASSUME NEW i \in AtShare(w, d) PROVE AtShare(v, d) # {} OBVIOUS
  <2>1. i \in Nat \ {0} BY AtNat
  <2>2. i - 1 \in Nat \ {0} /\ (i - 1) + 1 = i BY <2>1
  <2> QED BY <1>2, <2>2
<1> QED BY <1>1, <1>3 DEF ShareEnds

\* Fewer rows are left to write.
LEMMA KeptShift ==
  ASSUME NEW w \in Seq(Writes), w # <<>>, NEW d, NEW r, NEW e, NEW A, TrashKept(w, d, r, e, A)
  PROVE  TrashKept(Tail(w), d, r, e, A)
<1>1. PICK v : v = Tail(w) OBVIOUS
<1>2. \A i \in AtRow(v, d) : v[i].rows[d] = e
  <2> TAKE i \in AtRow(v, d)
  <2>1. i + 1 \in AtRow(w, d) BY <1>1, TailAt
  <2>2. i \in DOMAIN v BY DEF AtRow
  <2>3. v[i] = w[i + 1] BY <1>1, <2>2, TailIs
  <2> QED BY <2>1, <2>3 DEF TrashKept
<1> QED BY <1>1, <1>2 DEF TrashKept

\* What writes there are.
LEMMA WriteIs ==
  ASSUME NEW h \in Writes
  PROVE  /\ h.do \in {"rows", "content", "inject", "unlink", "revoke", "undo"}
         /\ h.do = "rows" => DOMAIN h.rows \subseteq Docs /\ \A d \in DOMAIN h.rows : h.rows[d] \in Values
         /\ h.do = "content" => h.doc \in Docs /\ h.meta \in Meta /\ h.by \in {"request", "blind"}
         /\ h.do \in {"inject", "unlink", "revoke"} => h.doc \in Docs
         /\ h.do = "undo" => h.undo \in UndoSet \union {None}
<1>1. CASE h \in RowWrites
  <2>1. h.do = "rows" /\ h.rows \in UNION {[S -> Values] : S \in SUBSET Docs} BY <1>1 DEF RowWrites
  <2>2. PICK S \in SUBSET Docs : h.rows \in [S -> Values] BY <2>1
  <2> QED BY <2>1, <2>2
<1>2. CASE h \in ContentWrites BY <1>2 DEF ContentWrites
<1>3. CASE h \in OtherWrites BY <1>3 DEF OtherWrites
<1>4. CASE h \in UndoWrites BY <1>4 DEF UndoWrites
<1> QED BY <1>1, <1>2, <1>3, <1>4 DEF Writes

\* A value that is not None says something.
LEMMA NoneIs == None \notin Meta /\ None \notin Docs /\ None \notin {"odf", "other"} /\ IsFiniteSet(Docs)
BY DocAssumption

-----------------------------------------------------------------------------
(* What one write does to the document it is about *)

\* Where the first write writes.
LEMMA FirstAt ==
  ASSUME NEW w \in Seq(Writes), w # <<>>, NEW d
  PROVE  /\ 1 \in AtRow(w, d) <=> w[1].do = "rows" /\ d \in DOMAIN w[1].rows
         /\ 1 \in AtFile(w, d) <=> w[1].do \in {"content", "inject", "unlink"} /\ w[1].doc = d
         /\ 1 \in AtShare(w, d) <=> w[1].do = "revoke" /\ w[1].doc = d
BY TailIs DEF AtRow, AtFile, AtShare

\* A write of something else.
LEMMA Elsewhere ==
  ASSUME NEW p, NEW w \in Seq(Writes), w # <<>>, NEW d, NEW r, NEW m, NEW by, NEW fmt, NEW A,
         d \notin Touched(w[1]), EndsWell(p, w, d, r, m, by, fmt, A)
  PROVE  EndsWell(p, Tail(w), d, r, m, by, fmt, A)
<1>1. 1 \notin AtRow(w, d) /\ 1 \notin AtFile(w, d) /\ 1 \notin AtShare(w, d) BY FirstAt DEF Touched
<1>2. PICK e \in Values : /\ RowEnds(w, d, r, e) /\ FileEnds(w, d, e, m, by, fmt, A)
                          /\ ShareEnds(w, d, e, A) /\ (p = "mcp" => TrashKept(w, d, r, e, A))
  BY DEF EndsWell
<1>3. RowEnds(Tail(w), d, r, e) BY <1>1, <1>2, RowShift
<1>4. FileEnds(Tail(w), d, e, m, by, fmt, A) BY <1>1, <1>2, FileShift
<1>5. ShareEnds(Tail(w), d, e, A) BY <1>1, <1>2, ShareShift
<1>6. p = "mcp" => TrashKept(Tail(w), d, r, e, A) BY <1>2, KeptShift
<1> QED BY <1>3, <1>4, <1>5, <1>6 DEF EndsWell

\* A write of its row.
LEMMA RowWritten ==
  ASSUME NEW p, NEW w \in Seq(Writes), w # <<>>, NEW d, NEW r, NEW m, NEW by, NEW fmt, NEW A,
         w[1].do = "rows", d \in DOMAIN w[1].rows, EndsWell(p, w, d, r, m, by, fmt, A)
  PROVE  EndsWell(p, Tail(w), d, w[1].rows[d], m, by, fmt, A)
<1>1. 1 \in AtRow(w, d) /\ 1 \notin AtFile(w, d) /\ 1 \notin AtShare(w, d) BY FirstAt
<1>2. PICK e \in Values : /\ RowEnds(w, d, r, e) /\ FileEnds(w, d, e, m, by, fmt, A)
                          /\ ShareEnds(w, d, e, A) /\ (p = "mcp" => TrashKept(w, d, r, e, A))
  BY DEF EndsWell
<1>3. RowEnds(Tail(w), d, w[1].rows[d], e) BY <1>1, <1>2, RowTaken
<1>4. FileEnds(Tail(w), d, e, m, by, fmt, A) BY <1>1, <1>2, FileShift
<1>5. ShareEnds(Tail(w), d, e, A) BY <1>1, <1>2, ShareShift
<1>6. p = "mcp" => TrashKept(Tail(w), d, w[1].rows[d], e, A)
  <2> SUFFICES ASSUME p = "mcp" PROVE TrashKept(Tail(w), d, w[1].rows[d], e, A) OBVIOUS
  <2>1. TrashKept(w, d, r, e, A) /\ TrashKept(Tail(w), d, r, e, A) BY <1>2, KeptShift
  <2>2. w[1].rows[d] = e BY <1>1, <2>1 DEF TrashKept
  <2> QED BY <2>1, <2>2 DEF TrashKept
<1> QED BY <1>3, <1>4, <1>5, <1>6 DEF EndsWell

\* What the first write of the files leaves for the rows and shares.
LEMMA FirstFile ==
  ASSUME NEW p, NEW w \in Seq(Writes), w # <<>>, NEW d, NEW r, NEW e, NEW A,
         1 \in AtFile(w, d), RowEnds(w, d, r, e), ShareEnds(w, d, e, A), p = "mcp" => TrashKept(w, d, r, e, A)
  PROVE  /\ RowEnds(Tail(w), d, r, e) /\ ShareEnds(Tail(w), d, e, A)
         /\ p = "mcp" => TrashKept(Tail(w), d, r, e, A)
<1>1. 1 \notin AtRow(w, d) /\ 1 \notin AtShare(w, d) BY AtNat
<1> QED BY <1>1, RowShift, ShareShift, KeptShift

\* If rows are written before the first write, none are.
LEMMA NoRowBefore ==
  ASSUME NEW w \in Seq(Writes), NEW d, NEW r, NEW e, RowEnds(w, d, r, e), \A j \in AtRow(w, d) : j < 1
  PROVE  AtRow(w, d) = {} /\ e = r
<1>1. AtRow(w, d) \subseteq Nat \ {0} BY AtNat
<1>2. \A j \in Nat \ {0} : ~(j < 1) OBVIOUS
<1>3. AtRow(w, d) = {} BY <1>1, <1>2
<1> QED BY <1>3 DEF RowEnds

\* A write of its content.
LEMMA ContentWritten ==
  ASSUME NEW p, NEW w \in Seq(Writes), w # <<>>, NEW d, NEW r, NEW m, NEW by, NEW fmt, NEW A,
         w[1].do = "content", w[1].doc = d, EndsWell(p, w, d, r, m, by, fmt, A),
         NEW n, n = IF fmt = "other" /\ m # None THEN m ELSE w[1].meta
  PROVE  EndsWell(p, Tail(w), d, r, n, w[1].by, fmt, A)
<1>1. 1 \in AtFile(w, d) BY FirstAt
<1>2. w[1].meta \in Meta /\ w[1].by \in {"request", "blind"} BY TailIs, WriteIs
<1>3. n # None BY <1>2, NoneIs
<1>4. PICK e \in Values : /\ RowEnds(w, d, r, e) /\ FileEnds(w, d, e, m, by, fmt, A)
                          /\ ShareEnds(w, d, e, A) /\ (p = "mcp" => TrashKept(w, d, r, e, A))
  BY DEF EndsWell
<1>5. PICK v : v = Tail(w) OBVIOUS
<1>6. FileEnds(v, d, e, n, w[1].by, fmt, A)
  <2>1. ~NoFile(w, d, e, m, by, fmt, A) BY <1>1 DEF NoFile
  <2>2. ~Removed(w, d, e)
    <3> SUFFICES ASSUME Removed(w, d, e) PROVE FALSE OBVIOUS
    <3>1. PICK i : AtFile(w, d) = {i} /\ w[i].do = "unlink" BY DEF Removed
    <3> QED BY <1>1, <3>1
  <2>3. ~Injected(w, d, e, m)
    <3> SUFFICES ASSUME Injected(w, d, e, m) PROVE FALSE OBVIOUS
    <3>1. PICK i : AtFile(w, d) = {i} /\ w[i].do = "inject" BY DEF Injected
    <3> QED BY <1>1, <3>1
  <2>4. CASE ThenInjected(w, d, e)
    <3>1. PICK k \in AtFile(w, d), i \in AtFile(w, d) :
            /\ AtFile(w, d) = {k, i} /\ k < i /\ w[k].do = "content" /\ w[i].do = "inject" /\ e # None
            /\ \A j \in AtRow(w, d) : j < i
      BY <2>4 DEF ThenInjected
    <3>2. i # 1 /\ \A j \in AtFile(w, d) : j = i \/ j = 1 BY <1>1, <3>1
    <3>3. i - 1 \in AtFile(v, d) /\ v[i - 1] = w[i] /\ \A j \in AtRow(v, d) : j < i - 1
      BY <1>5, <3>1, <3>2, OneLess
    <3>4. AtFile(v, d) = {i - 1} BY <1>5, <3>2, OnlyLess
    <3> QED BY <1>3, <3>1, <3>3, <3>4 DEF Injected, FileEnds
  <2>5. CASE Contained(w, d, e, m, fmt, A)
    <3>1. PICK i \in AtFile(w, d) :
            /\ AtFile(w, d) = {i} /\ w[i].do = "content"
            /\ e = None => AtRow(w, d) = {}
            /\ \/ w[i].by = "blind" /\ (e # None /\ fmt = "other" => Right(e, m, "blind", fmt, A))
               \/ /\ w[i].by = "request" /\ fmt = "odf"
                  /\ e = None => ~w[i].meta.trashed
                  /\ e # None => w[i].meta = e
      BY <2>5 DEF Contained
    <3>2. i = 1 BY <1>1, <3>1
    <3>3. AtFile(v, d) = {} /\ (AtRow(w, d) = {} => AtRow(v, d) = {}) BY <1>5, <3>1, <3>2, NoneLess
    <3>4. Right(e, n, w[1].by, fmt, A)
      <4>1. CASE /\ w[1].by = "blind"
                 /\ e # None /\ fmt = "other" => Right(e, m, "blind", fmt, A)
        BY <1>3, <4>1 DEF Right
      <4>2. CASE /\ w[1].by = "request" /\ fmt = "odf"
                 /\ e = None => ~w[1].meta.trashed
                 /\ e # None => w[1].meta = e
        <5>1. n = w[1].meta BY <4>2
        <5> QED BY <1>3, <4>2, <5>1 DEF Right
      <4> QED BY <3>1, <3>2, <4>1, <4>2
    <3> QED BY <3>1, <3>3, <3>4 DEF NoFile, FileEnds
  <2> QED BY <1>4, <2>1, <2>2, <2>3, <2>4, <2>5 DEF FileEnds
<1>7. /\ RowEnds(v, d, r, e) /\ ShareEnds(v, d, e, A)
      /\ p = "mcp" => TrashKept(v, d, r, e, A)
  BY <1>1, <1>4, <1>5, FirstFile
<1> QED BY <1>5, <1>6, <1>7 DEF EndsWell

\* A write of its metadata.
LEMMA MetaWritten ==
  ASSUME NEW p, NEW w \in Seq(Writes), w # <<>>, NEW d, NEW r, NEW m, NEW by, NEW fmt, NEW A,
         w[1].do = "inject", w[1].doc = d, EndsWell(p, w, d, r, m, by, fmt, A),
         NEW n, n = IF m = None THEN None ELSE r
  PROVE  EndsWell(p, Tail(w), d, r, n, "request", fmt, A)
<1>1. 1 \in AtFile(w, d) BY FirstAt
<1>2. PICK e \in Values : /\ RowEnds(w, d, r, e) /\ FileEnds(w, d, e, m, by, fmt, A)
                          /\ ShareEnds(w, d, e, A) /\ (p = "mcp" => TrashKept(w, d, r, e, A))
  BY DEF EndsWell
<1>3. PICK v : v = Tail(w) OBVIOUS
<1>4. AtFile(w, d) \subseteq Nat \ {0} BY AtNat
<1>5. FileEnds(v, d, e, n, "request", fmt, A)
  <2>1. ~NoFile(w, d, e, m, by, fmt, A) BY <1>1 DEF NoFile
  <2>2. ~Removed(w, d, e)
    <3> SUFFICES ASSUME Removed(w, d, e) PROVE FALSE OBVIOUS
    <3>1. PICK i : AtFile(w, d) = {i} /\ w[i].do = "unlink" BY DEF Removed
    <3> QED BY <1>1, <3>1
  <2>3. ~Contained(w, d, e, m, fmt, A)
    <3> SUFFICES ASSUME Contained(w, d, e, m, fmt, A) PROVE FALSE OBVIOUS
    <3>1. PICK i : AtFile(w, d) = {i} /\ w[i].do = "content" BY DEF Contained
    <3> QED BY <1>1, <3>1
  <2>4. ~ThenInjected(w, d, e)
    <3> SUFFICES ASSUME ThenInjected(w, d, e) PROVE FALSE OBVIOUS
    <3>1. PICK k \in AtFile(w, d), i \in AtFile(w, d) :
            AtFile(w, d) = {k, i} /\ k < i /\ w[k].do = "content"
      BY DEF ThenInjected
    <3>2. k # 1 BY <3>1
    <3>3. i = 1 BY <1>1, <3>1, <3>2
    <3>4. k \in Nat \ {0} BY <1>4
    <3> QED BY <3>1, <3>3, <3>4
  <2>5. CASE Injected(w, d, e, m)
    <3>1. PICK i \in AtFile(w, d) : /\ AtFile(w, d) = {i} /\ e # None /\ m # None
                                   /\ \A j \in AtRow(w, d) : j < i
      BY <2>5 DEF Injected
    <3>2. i = 1 BY <1>1, <3>1
    <3>3. e = r BY <1>2, <3>1, <3>2, NoRowBefore
    <3>4. AtFile(v, d) = {} BY <1>3, <3>1, <3>2, NoneLess
    <3>5. Right(e, n, "request", fmt, A) BY <3>1, <3>3 DEF Right
    <3> QED BY <3>1, <3>4, <3>5 DEF NoFile, FileEnds
  <2> QED BY <1>2, <2>1, <2>2, <2>3, <2>4, <2>5 DEF FileEnds
<1>6. /\ RowEnds(v, d, r, e) /\ ShareEnds(v, d, e, A)
      /\ p = "mcp" => TrashKept(v, d, r, e, A)
  BY <1>1, <1>2, <1>3, FirstFile
<1> QED BY <1>3, <1>5, <1>6 DEF EndsWell

\* Its files are deleted.
LEMMA FileDeleted ==
  ASSUME NEW p, NEW w \in Seq(Writes), w # <<>>, NEW d, NEW r, NEW m, NEW by, NEW fmt, NEW A,
         w[1].do = "unlink", w[1].doc = d, EndsWell(p, w, d, r, m, by, fmt, A)
  PROVE  EndsWell(p, Tail(w), d, r, None, by, fmt, A)
<1>1. 1 \in AtFile(w, d) BY FirstAt
<1>2. PICK e \in Values : /\ RowEnds(w, d, r, e) /\ FileEnds(w, d, e, m, by, fmt, A)
                          /\ ShareEnds(w, d, e, A) /\ (p = "mcp" => TrashKept(w, d, r, e, A))
  BY DEF EndsWell
<1>3. PICK v : v = Tail(w) OBVIOUS
<1>4. FileEnds(v, d, e, None, by, fmt, A)
  <2>1. ~NoFile(w, d, e, m, by, fmt, A) BY <1>1 DEF NoFile
  <2>2. CASE Removed(w, d, e)
    <3>1. PICK i \in AtFile(w, d) : /\ AtFile(w, d) = {i} /\ e = None
                                   /\ \A j \in AtRow(w, d) : j < i
      BY <2>2 DEF Removed
    <3>2. i = 1 BY <1>1, <3>1
    <3>3. AtRow(w, d) = {} BY <1>2, <3>1, <3>2, NoRowBefore
    <3>4. AtFile(v, d) = {} /\ AtRow(v, d) = {} BY <1>3, <3>1, <3>2, <3>3, NoneLess
    <3>5. Right(e, None, by, fmt, A) BY <3>1 DEF Right
    <3> QED BY <3>4, <3>5 DEF NoFile, FileEnds
  <2>3. ~Contained(w, d, e, m, fmt, A)
    <3> SUFFICES ASSUME Contained(w, d, e, m, fmt, A) PROVE FALSE OBVIOUS
    <3>1. PICK i : AtFile(w, d) = {i} /\ w[i].do = "content" BY DEF Contained
    <3> QED BY <1>1, <3>1
  <2>4. ~ThenInjected(w, d, e)
    <3> SUFFICES ASSUME ThenInjected(w, d, e) PROVE FALSE OBVIOUS
    <3>1. PICK k \in AtFile(w, d), i \in AtFile(w, d) :
            AtFile(w, d) = {k, i} /\ w[k].do = "content" /\ w[i].do = "inject"
      BY DEF ThenInjected
    <3> QED BY <1>1, <3>1
  <2>5. ~Injected(w, d, e, m)
    <3> SUFFICES ASSUME Injected(w, d, e, m) PROVE FALSE OBVIOUS
    <3>1. PICK i : AtFile(w, d) = {i} /\ w[i].do = "inject" BY DEF Injected
    <3> QED BY <1>1, <3>1
  <2> QED BY <1>2, <2>1, <2>2, <2>3, <2>4, <2>5 DEF FileEnds
<1>5. /\ RowEnds(v, d, r, e) /\ ShareEnds(v, d, e, A)
      /\ p = "mcp" => TrashKept(v, d, r, e, A)
  BY <1>1, <1>2, <1>3, FirstFile
<1> QED BY <1>3, <1>4, <1>5 DEF EndsWell

-----------------------------------------------------------------------------
(* What the others do to it meanwhile *)

\* Shares are revoked.
LEMMA FewerShares ==
  ASSUME NEW p, NEW w, NEW d, NEW r, NEW m, NEW by, NEW fmt, NEW A, NEW B, B \subseteq A,
         EndsWell(p, w, d, r, m, by, fmt, A)
  PROVE  EndsWell(p, w, d, r, m, by, fmt, B)
<1>1. A = {} => B = {} OBVIOUS
<1>2. PICK e \in Values : /\ RowEnds(w, d, r, e) /\ FileEnds(w, d, e, m, by, fmt, A)
                          /\ ShareEnds(w, d, e, A) /\ (p = "mcp" => TrashKept(w, d, r, e, A))
  BY DEF EndsWell
<1>3. \A x : Right(e, m, x, fmt, A) => Right(e, m, x, fmt, B) BY <1>1 DEF Right
<1>4. FileEnds(w, d, e, m, by, fmt, B)
  <2>1. NoFile(w, d, e, m, by, fmt, A) => NoFile(w, d, e, m, by, fmt, B) BY <1>3 DEF NoFile
  <2>2. Contained(w, d, e, m, fmt, A) => Contained(w, d, e, m, fmt, B) BY <1>3 DEF Contained
  <2> QED BY <1>2, <2>1, <2>2 DEF FileEnds
<1>5. ShareEnds(w, d, e, B) BY <1>1, <1>2 DEF ShareEnds
<1>6. p = "mcp" => TrashKept(w, d, r, e, B) BY <1>1, <1>2 DEF TrashKept
<1> QED BY <1>2, <1>4, <1>5, <1>6 DEF EndsWell

\* A revocation leaves none.
LEMMA SharesRevoked ==
  ASSUME NEW p, NEW w \in Seq(Writes), w # <<>>, NEW d, NEW r, NEW m, NEW by, NEW fmt, NEW A,
         w[1].do = "revoke", w[1].doc = d, EndsWell(p, w, d, r, m, by, fmt, A)
  PROVE  EndsWell(p, Tail(w), d, r, m, by, fmt, {})
<1>1. 1 \notin AtRow(w, d) /\ 1 \notin AtFile(w, d) BY FirstAt
<1>2. EndsWell(p, w, d, r, m, by, fmt, {}) BY FewerShares
<1>3. PICK e \in Values : /\ RowEnds(w, d, r, e) /\ FileEnds(w, d, e, m, by, fmt, {})
                          /\ (p = "mcp" => TrashKept(w, d, r, e, {}))
  BY <1>2 DEF EndsWell
<1>4. RowEnds(Tail(w), d, r, e) BY <1>1, <1>3, RowShift
<1>5. FileEnds(Tail(w), d, e, m, by, fmt, {}) BY <1>1, <1>3, FileShift
<1>6. ShareEnds(Tail(w), d, e, {}) BY DEF ShareEnds
<1>7. p = "mcp" => TrashKept(Tail(w), d, r, e, {}) BY <1>3, KeptShift
<1> QED BY <1>4, <1>5, <1>6, <1>7 DEF EndsWell

\* An active document is shared while the MCP server is at it.
LEMMA MoreShares ==
  ASSUME NEW w, NEW d, NEW r, NEW m, NEW by, NEW fmt, NEW A, NEW B,
         r # None, ~r.trashed, EndsWell("mcp", w, d, r, m, by, fmt, A)
  PROVE  EndsWell("mcp", w, d, r, m, by, fmt, B)
<1>1. PICK e \in Values : /\ RowEnds(w, d, r, e) /\ FileEnds(w, d, e, m, by, fmt, A)
                          /\ ShareEnds(w, d, e, A) /\ TrashKept(w, d, r, e, A)
  BY DEF EndsWell
<1>2. e # None => ~e.trashed BY <1>1 DEF TrashKept
<1>3. AtRow(w, d) = {} => e # None BY <1>1 DEF RowEnds
<1>4. \A x : e # None /\ Right(e, m, x, fmt, A) => Right(e, m, x, fmt, B) BY DEF Right
<1>5. FileEnds(w, d, e, m, by, fmt, B)
  <2>1. NoFile(w, d, e, m, by, fmt, A) => NoFile(w, d, e, m, by, fmt, B) BY <1>3, <1>4 DEF NoFile
  <2>2. Contained(w, d, e, m, fmt, A) => Contained(w, d, e, m, fmt, B) BY <1>4 DEF Contained
  <2> QED BY <1>1, <2>1, <2>2 DEF FileEnds
<1>6. ShareEnds(w, d, e, B) BY <1>2 DEF ShareEnds
<1>7. TrashKept(w, d, r, e, B) BY <1>1, <1>2 DEF TrashKept
<1> QED BY <1>1, <1>5, <1>6, <1>7 DEF EndsWell

\* An editor saves while the MCP server is at it: n is what it says.
LEMMA SavedMeanwhile ==
  ASSUME NEW w, NEW d, NEW r, NEW m, NEW by, NEW fmt, NEW A, NEW n \in Meta, NEW x,
         NEW k, k = IF fmt = "other" /\ m # None THEN m ELSE n,
         \/ x \in {"blind", "guest"}
         \/ x = "owner" /\ r # None /\ n.trashed = r.trashed,
         EndsWell("mcp", w, d, r, m, by, fmt, A)
  PROVE  EndsWell("mcp", w, d, r, k, x, fmt, A)
<1>1. PICK e \in Values : /\ RowEnds(w, d, r, e) /\ FileEnds(w, d, e, m, by, fmt, A)
                          /\ ShareEnds(w, d, e, A) /\ TrashKept(w, d, r, e, A)
  BY DEF EndsWell
<1>2. n # None /\ k # None /\ (m # None /\ fmt = "other" => k = m) BY NoneIs
<1>3. FileEnds(w, d, e, k, x, fmt, A)
  <2>1. ASSUME NoFile(w, d, e, m, by, fmt, A) PROVE NoFile(w, d, e, k, x, fmt, A)
    <3>1. CASE e = None
      <4>1. AtFile(w, d) = {} /\ AtRow(w, d) = {} BY <2>1, <3>1 DEF NoFile
      <4>2. r = None BY <1>1, <3>1, <4>1 DEF RowEnds
      <4> QED BY <3>1, <4>1, <4>2 DEF NoFile, Right
    <3>2. CASE e # None
      <4>1. AtFile(w, d) = {} /\ Right(e, m, by, fmt, A) BY <2>1 DEF NoFile
      <4>2. x = "owner" => n.trashed = e.trashed BY <1>1, <3>2 DEF TrashKept
      <4>3. Right(e, k, x, fmt, A)
        <5>1. CASE fmt = "other" BY <1>2, <3>2, <4>1, <5>1 DEF Right
        <5>2. CASE fmt # "other" BY <1>2, <3>2, <4>2, <5>2 DEF Right
        <5> QED BY <5>1, <5>2
      <4> QED BY <3>2, <4>1, <4>3 DEF NoFile
    <3> QED BY <3>1, <3>2
  <2>2. Injected(w, d, e, m) => Injected(w, d, e, k) BY <1>2 DEF Injected
  <2>3. Contained(w, d, e, m, fmt, A) => Contained(w, d, e, k, fmt, A)
    <3>1. e # None /\ fmt = "other" /\ Right(e, m, "blind", fmt, A) => Right(e, k, "blind", fmt, A)
      BY <1>2 DEF Right
    <3> QED BY <3>1 DEF Contained
  <2> QED BY <1>1, <2>1, <2>2, <2>3 DEF FileEnds
<1> QED BY <1>1, <1>3 DEF EndsWell

\* Writes about other documents.
LEMMA QuietIs ==
  ASSUME NEW p, NEW w \in Seq(Writes), NEW d, NEW r \in Values, NEW m, NEW by, NEW fmt, NEW A,
         d \notin TouchedBy(w)
  PROVE  EndsWell(p, w, d, r, m, by, fmt, A) <=> Quiet(r, m, by, fmt, A)
<1>1. AtRow(w, d) = {} /\ AtFile(w, d) = {} /\ AtShare(w, d) = {}
  <2>1. \A i \in DOMAIN w : d \notin Touched(w[i]) BY DEF TouchedBy
  <2> QED BY <2>1 DEF Touched, AtRow, AtFile, AtShare
<1>2. \A e : RowEnds(w, d, r, e) <=> e = r BY <1>1 DEF RowEnds
<1>3. \A e : FileEnds(w, d, e, m, by, fmt, A) <=> Right(e, m, by, fmt, A)
  BY <1>1 DEF FileEnds, NoFile, Removed, Injected, ThenInjected, Contained
<1>4. \A e : ShareEnds(w, d, e, A) <=> (e # None /\ e.trashed => A = {}) BY <1>1 DEF ShareEnds
<1>5. TrashKept(w, d, r, r, A) <=> (r # None /\ r.trashed => A = {}) BY <1>1 DEF TrashKept
<1> QED BY <1>2, <1>3, <1>4, <1>5 DEF EndsWell, Quiet

-----------------------------------------------------------------------------
(* One list of writes within another *)

\* Where w touches d.
TouchedAt(w, d) == {i \in DOMAIN w : d \in Touched(w[i])}

\* w does to d what u does, from position k on.
Within(u, w, d, k) ==
  /\ \A i \in Int : i \in TouchedAt(w, d) <=> i - k \in TouchedAt(u, d)
  /\ \A i \in TouchedAt(u, d) : w[i + k] = u[i]

\* Then it writes the row, files and shares where u does.
LEMMA WithinAt ==
  ASSUME NEW u \in Seq(Writes), NEW w \in Seq(Writes), NEW d, NEW k \in Nat, Within(u, w, d, k)
  PROVE  /\ \A i \in Int : i \in AtRow(w, d) <=> i - k \in AtRow(u, d)
         /\ \A i \in Int : i \in AtFile(w, d) <=> i - k \in AtFile(u, d)
         /\ \A i \in Int : i \in AtShare(w, d) <=> i - k \in AtShare(u, d)
         /\ \A i \in AtRow(u, d) \union AtFile(u, d) : w[i + k] = u[i]
<1>1. \A i : i \in AtRow(w, d) <=> i \in TouchedAt(w, d) /\ w[i].do = "rows" BY DEF AtRow, TouchedAt, Touched
<1>2. \A i : i \in AtRow(u, d) <=> i \in TouchedAt(u, d) /\ u[i].do = "rows" BY DEF AtRow, TouchedAt, Touched
<1>3. \A i : i \in AtFile(w, d) <=> i \in TouchedAt(w, d) /\ w[i].do \in {"content", "inject", "unlink"}
  BY DEF AtFile, TouchedAt, Touched
<1>4. \A i : i \in AtFile(u, d) <=> i \in TouchedAt(u, d) /\ u[i].do \in {"content", "inject", "unlink"}
  BY DEF AtFile, TouchedAt, Touched
<1>5. \A i : i \in AtShare(w, d) <=> i \in TouchedAt(w, d) /\ w[i].do = "revoke" BY DEF AtShare, TouchedAt, Touched
<1>6. \A i : i \in AtShare(u, d) <=> i \in TouchedAt(u, d) /\ u[i].do = "revoke" BY DEF AtShare, TouchedAt, Touched
<1>7. \A i \in Int : /\ i \in TouchedAt(w, d) <=> i - k \in TouchedAt(u, d)
                     /\ i - k \in TouchedAt(u, d) => w[i] = u[i - k]
  <2> TAKE i \in Int
  <2>1. i \in TouchedAt(w, d) <=> i - k \in TouchedAt(u, d) BY DEF Within
  <2>2. (i - k) + k = i OBVIOUS
  <2> QED BY <2>1, <2>2 DEF Within
<1>8. \A i \in AtRow(u, d) \union AtFile(u, d) : w[i + k] = u[i] BY <1>2, <1>4 DEF Within
<1>9. \A i \in Int : i \in AtRow(w, d) <=> i - k \in AtRow(u, d) BY <1>1, <1>2, <1>7
<1>10. \A i \in Int : i \in AtFile(w, d) <=> i - k \in AtFile(u, d) BY <1>3, <1>4, <1>7
<1>11. \A i \in Int : i \in AtShare(w, d) <=> i - k \in AtShare(u, d) BY <1>5, <1>6, <1>7
<1> QED BY <1>8, <1>9, <1>10, <1>11

\* And it ends as u does.
LEMMA WithinEnds ==
  ASSUME NEW p, NEW u \in Seq(Writes), NEW w \in Seq(Writes), NEW d, NEW k \in Nat, Within(u, w, d, k),
         NEW r, NEW m, NEW by, NEW fmt, NEW A, EndsWell(p, u, d, r, m, by, fmt, A)
  PROVE  EndsWell(p, w, d, r, m, by, fmt, A)
<1>1. /\ \A i \in Int : i \in AtRow(w, d) <=> i - k \in AtRow(u, d)
      /\ \A i \in Int : i \in AtFile(w, d) <=> i - k \in AtFile(u, d)
      /\ \A i \in Int : i \in AtShare(w, d) <=> i - k \in AtShare(u, d)
      /\ \A i \in AtRow(u, d) \union AtFile(u, d) : w[i + k] = u[i]
  <2>1. \A i \in Int : i \in AtRow(w, d) <=> i - k \in AtRow(u, d) BY WithinAt
  <2>2. \A i \in Int : i \in AtFile(w, d) <=> i - k \in AtFile(u, d) BY WithinAt
  <2>3. \A i \in Int : i \in AtShare(w, d) <=> i - k \in AtShare(u, d) BY WithinAt
  <2>4. \A i \in AtRow(u, d) \union AtFile(u, d) : w[i + k] = u[i] BY WithinAt
  <2> QED BY <2>1, <2>2, <2>3, <2>4
<1>2. /\ AtRow(u, d) \subseteq Int /\ AtFile(u, d) \subseteq Int /\ AtShare(u, d) \subseteq Int
      /\ AtRow(w, d) \subseteq Int /\ AtFile(w, d) \subseteq Int
  BY AtNat
<1>3. \A i \in Int : (i + k) - k = i /\ i + k \in Int OBVIOUS
<1>4. AtRow(u, d) = {} => AtRow(w, d) = {} BY <1>1, <1>2
<1>5. AtFile(u, d) = {} => AtFile(w, d) = {} BY <1>1, <1>2
<1>6. AtShare(u, d) # {} => AtShare(w, d) # {}
  <2> SUFFICES ASSUME NEW i \in AtShare(u, d) PROVE AtShare(w, d) # {} OBVIOUS
  <2>1. i + k \in AtShare(w, d) BY <1>1, <1>2, <1>3
  <2> QED BY <2>1
<1>7. \A i \in AtRow(u, d) : i + k \in AtRow(w, d) /\ w[i + k] = u[i] BY <1>1, <1>2, <1>3
<1>8. \A i \in AtFile(u, d) : i + k \in AtFile(w, d) /\ w[i + k] = u[i] BY <1>1, <1>2, <1>3
<1>9. \A i \in AtFile(u, d) : AtFile(u, d) = {i} => AtFile(w, d) = {i + k}
  <2> SUFFICES ASSUME NEW i \in AtFile(u, d), AtFile(u, d) = {i} PROVE AtFile(w, d) = {i + k} OBVIOUS
  <2>1. \A j \in AtFile(w, d) : j = i + k
    <3> TAKE j \in AtFile(w, d)
    <3>1. j - k = i BY <1>1, <1>2
    <3> QED BY <1>2, <3>1
  <2> QED BY <1>8, <2>1
<1>10. \A i \in AtFile(u, d) : (\A j \in AtRow(u, d) : j < i) => \A j \in AtRow(w, d) : j < i + k
  <2> SUFFICES ASSUME NEW i \in AtFile(u, d), \A j \in AtRow(u, d) : j < i, NEW j \in AtRow(w, d)
               PROVE  j < i + k
    OBVIOUS
  <2>1. j - k < i BY <1>1, <1>2
  <2> QED BY <1>2, <2>1
<1>11. PICK e \in Values : /\ RowEnds(u, d, r, e) /\ FileEnds(u, d, e, m, by, fmt, A)
                           /\ ShareEnds(u, d, e, A) /\ (p = "mcp" => TrashKept(u, d, r, e, A))
  BY DEF EndsWell
<1>12. RowEnds(w, d, r, e)
  <2>1. CASE AtRow(u, d) = {} /\ e = r BY <1>4, <2>1 DEF RowEnds
  <2>2. CASE \E i \in AtRow(u, d) : u[i].rows[d] = e /\ \A j \in AtRow(u, d) : j <= i
    <3>1. PICK i \in AtRow(u, d) : u[i].rows[d] = e /\ \A j \in AtRow(u, d) : j <= i BY <2>2
    <3>2. i + k \in AtRow(w, d) /\ w[i + k].rows[d] = e BY <1>7, <3>1
    <3>3. \A j \in AtRow(w, d) : j <= i + k
      <4> TAKE j \in AtRow(w, d)
      <4>1. j - k <= i BY <1>1, <1>2, <3>1
      <4> QED BY <1>2, <4>1
    <3> QED BY <3>2, <3>3 DEF RowEnds
  <2> QED BY <1>11, <2>1, <2>2 DEF RowEnds
<1>13. FileEnds(w, d, e, m, by, fmt, A)
  <2>1. CASE NoFile(u, d, e, m, by, fmt, A) BY <1>4, <1>5, <2>1 DEF NoFile, FileEnds
  <2>2. CASE Removed(u, d, e)
    <3>1. PICK i \in AtFile(u, d) : /\ AtFile(u, d) = {i} /\ u[i].do = "unlink" /\ e = None
                                   /\ \A j \in AtRow(u, d) : j < i
      BY <2>2 DEF Removed
    <3> QED BY <1>8, <1>9, <1>10, <3>1 DEF Removed, FileEnds
  <2>3. CASE Injected(u, d, e, m)
    <3>1. PICK i \in AtFile(u, d) : /\ AtFile(u, d) = {i} /\ u[i].do = "inject" /\ e # None /\ m # None
                                   /\ \A j \in AtRow(u, d) : j < i
      BY <2>3 DEF Injected
    <3> QED BY <1>8, <1>9, <1>10, <3>1 DEF Injected, FileEnds
  <2>4. CASE ThenInjected(u, d, e)
    <3>1. PICK l \in AtFile(u, d), i \in AtFile(u, d) :
            /\ AtFile(u, d) = {l, i} /\ l < i /\ u[l].do = "content" /\ u[i].do = "inject" /\ e # None
            /\ \A j \in AtRow(u, d) : j < i
      BY <2>4 DEF ThenInjected
    <3>2. AtFile(w, d) = {l + k, i + k}
      <4>1. \A j \in AtFile(w, d) : j = l + k \/ j = i + k
        <5> TAKE j \in AtFile(w, d)
        <5>1. j - k = l \/ j - k = i BY <1>1, <1>2, <3>1
        <5> QED BY <1>2, <5>1
      <4> QED BY <1>8, <4>1
    <3>3. l + k < i + k BY <1>2, <3>1
    <3> QED BY <1>8, <1>10, <3>1, <3>2, <3>3 DEF ThenInjected, FileEnds
  <2>5. CASE Contained(u, d, e, m, fmt, A)
    <3>1. PICK i \in AtFile(u, d) :
            /\ AtFile(u, d) = {i} /\ u[i].do = "content"
            /\ e = None => AtRow(u, d) = {}
            /\ \/ u[i].by = "blind" /\ (e # None /\ fmt = "other" => Right(e, m, "blind", fmt, A))
               \/ /\ u[i].by = "request" /\ fmt = "odf"
                  /\ e = None => ~u[i].meta.trashed
                  /\ e # None => u[i].meta = e
      BY <2>5 DEF Contained
    <3>2. i + k \in AtFile(w, d) /\ w[i + k] = u[i] /\ AtFile(w, d) = {i + k} BY <1>8, <1>9, <3>1
    <3> QED BY <1>4, <3>1, <3>2 DEF Contained, FileEnds
  <2> QED BY <1>11, <2>1, <2>2, <2>3, <2>4, <2>5 DEF FileEnds
<1>14. ShareEnds(w, d, e, A) BY <1>6, <1>11 DEF ShareEnds
<1>15. p = "mcp" => TrashKept(w, d, r, e, A)
  <2>1. (\A i \in AtRow(u, d) : u[i].rows[d] = e) => \A i \in AtRow(w, d) : w[i].rows[d] = e
    <3> SUFFICES ASSUME \A i \in AtRow(u, d) : u[i].rows[d] = e, NEW i \in AtRow(w, d)
                 PROVE  w[i].rows[d] = e
      OBVIOUS
    <3>0. i \in Int BY <1>2
    <3>1. i - k \in AtRow(u, d) /\ (i - k) + k = i BY <1>1, <3>0
    <3>2. w[i] = u[i - k] BY <1>1, <3>1
    <3> QED BY <3>1, <3>2
  <2> QED BY <1>11, <2>1 DEF TrashKept
<1> QED BY <1>11, <1>12, <1>13, <1>14, <1>15 DEF EndsWell

\* x is v and then w.
Joined(v, w, x, m) ==
  /\ m = Len(v)
  /\ \A i \in Int : i \in DOMAIN x <=> i \in DOMAIN v \/ i - m \in DOMAIN w
  /\ \A i \in DOMAIN v : i \in Int /\ x[i] = v[i] /\ i - m \notin DOMAIN w
  /\ \A i \in Int : i - m \in DOMAIN w => x[i] = w[i - m]
  /\ \A i \in DOMAIN x : i \in Int

\* The positions of two lists, one after the other.
LEMMA Together ==
  ASSUME NEW v \in Seq(Writes), NEW w \in Seq(Writes), NEW x, x = v \o w
  PROVE  \E m \in Nat : Joined(v, w, x, m)
<1>1. PICK m \in Nat, n \in Nat : m = Len(v) /\ n = Len(w) /\ DOMAIN v = 1..m /\ DOMAIN w = 1..n OBVIOUS
<1>3. x \in Seq(Writes) /\ DOMAIN x = 1..(m + n) /\ \A i \in 1..(m + n) : x[i] = IF i <= m THEN v[i] ELSE w[i - m]
  BY <1>1
<1>4. \A i \in Int : i \in 1..(m + n) <=> i \in 1..m \/ i - m \in 1..n OBVIOUS
<1>5. \A i \in 1..m : i \in Int /\ x[i] = v[i] /\ i - m \notin 1..n BY <1>3
<1>6. \A i \in Int : i - m \in 1..n => x[i] = w[i - m] BY <1>3
<1>7. \A i \in 1..(m + n) : i \in Int OBVIOUS
<1> QED BY <1>1, <1>3, <1>4, <1>5, <1>6, <1>7 DEF Joined

\* They touch what one of them touches.
LEMMA TouchedTogether ==
  ASSUME NEW v \in Seq(Writes), NEW w \in Seq(Writes)
  PROVE  TouchedBy(v \o w) = TouchedBy(v) \union TouchedBy(w)
<1>2. PICK x : x = v \o w OBVIOUS
<1>3. PICK m \in Nat : Joined(v, w, x, m) BY <1>2, Together
<1>4. \A d : d \in TouchedBy(x) => d \in TouchedBy(v) \/ d \in TouchedBy(w)
  <2> SUFFICES ASSUME NEW d, NEW i \in DOMAIN x, d \in Touched(x[i])
               PROVE  d \in TouchedBy(v) \/ d \in TouchedBy(w)
    BY DEF TouchedBy
  <2>1. CASE i \in DOMAIN v BY <1>3, <2>1 DEF Joined, TouchedBy
  <2>2. CASE i - m \in DOMAIN w BY <1>3, <2>2 DEF Joined, TouchedBy
  <2> QED BY <1>3, <2>1, <2>2 DEF Joined
<1>5. \A d : d \in TouchedBy(v) => d \in TouchedBy(x)
  <2> SUFFICES ASSUME NEW d, NEW i \in DOMAIN v, d \in Touched(v[i]) PROVE d \in TouchedBy(x) BY DEF TouchedBy
  <2>1. i \in DOMAIN x /\ x[i] = v[i] BY <1>3 DEF Joined
  <2> QED BY <2>1 DEF TouchedBy
<1>6. \A d : d \in TouchedBy(w) => d \in TouchedBy(x)
  <2> SUFFICES ASSUME NEW d, NEW i \in DOMAIN w, d \in Touched(w[i]) PROVE d \in TouchedBy(x) BY DEF TouchedBy
  <2>1. i \in Int /\ i + m \in Int /\ (i + m) - m = i
    <3>1. DOMAIN w \subseteq Int OBVIOUS
    <3> QED BY <3>1
  <2>2. i + m \in DOMAIN x /\ x[i + m] = w[i] BY <1>3, <2>1 DEF Joined
  <2> QED BY <2>2 DEF TouchedBy
<1> QED BY <1>2, <1>4, <1>5, <1>6

\* Writes of something else, before or after.
LEMMA WithinLater ==
  ASSUME NEW u \in Seq(Writes), NEW v \in Seq(Writes), NEW w \in Seq(Writes), NEW d, NEW k \in Nat,
         Within(u, w, d, k), d \notin TouchedBy(v)
  PROVE  Within(u, v \o w, d, k + Len(v)) /\ Within(u, w \o v, d, k)
<1>0. \A i : i \notin TouchedAt(v, d) BY DEF TouchedAt, TouchedBy
<1>7. \A s \in Seq(Writes) : DOMAIN s \subseteq Int OBVIOUS
<1>8. \A i \in TouchedAt(u, d) : i \in Int BY <1>7 DEF TouchedAt
<1>1. Within(u, v \o w, d, k + Len(v))
  <2>2. PICK x : x = v \o w OBVIOUS
  <2>3. PICK m \in Nat : Joined(v, w, x, m) BY <2>2, Together
  <2>4. \A i \in Int : i \in TouchedAt(x, d) <=> i - m \in TouchedAt(w, d) BY <1>0, <2>3 DEF Joined, TouchedAt
  <2>5. \A i \in Int : i \in TouchedAt(x, d) <=> i - (k + m) \in TouchedAt(u, d)
    <3> TAKE i \in Int
    <3>1. i - m \in TouchedAt(w, d) <=> (i - m) - k \in TouchedAt(u, d) BY DEF Within
    <3>2. (i - m) - k = i - (k + m) OBVIOUS
    <3> QED BY <2>4, <3>1, <3>2
  <2>6. \A i \in TouchedAt(u, d) : x[i + (k + m)] = u[i]
    <3> TAKE i \in TouchedAt(u, d)
    <3>1. i \in Int /\ (i + k) - k = i /\ i + k \in Int BY <1>8
    <3>2. i + k \in TouchedAt(w, d) /\ w[i + k] = u[i] BY <3>1 DEF Within
    <3>3. i + (k + m) \in Int /\ (i + (k + m)) - m = i + k BY <3>1
    <3>4. (i + (k + m)) - m \in DOMAIN w BY <3>2, <3>3 DEF TouchedAt
    <3>5. x[i + (k + m)] = w[(i + (k + m)) - m] BY <2>3, <3>3, <3>4 DEF Joined
    <3> QED BY <3>2, <3>3, <3>5
  <2> QED BY <2>2, <2>3, <2>5, <2>6 DEF Joined, Within
<1>2. Within(u, w \o v, d, k)
  <2>2. PICK x : x = w \o v OBVIOUS
  <2>3. PICK m \in Nat : Joined(w, v, x, m) BY <2>2, Together
  <2>4. \A i \in Int : i \in TouchedAt(x, d) <=> i \in TouchedAt(w, d) BY <1>0, <2>3 DEF Joined, TouchedAt
  <2>5. \A i \in TouchedAt(w, d) : x[i] = w[i] BY <2>3 DEF Joined, TouchedAt
  <2>6. \A i \in TouchedAt(u, d) : x[i + k] = u[i]
    <3> TAKE i \in TouchedAt(u, d)
    <3>1. i \in Int /\ (i + k) - k = i /\ i + k \in Int BY <1>8
    <3>2. i + k \in TouchedAt(w, d) /\ w[i + k] = u[i] BY <3>1 DEF Within
    <3> QED BY <2>5, <3>2
  <2> QED BY <2>2, <2>4, <2>6 DEF Within
<1> QED BY <1>1, <1>2

\* A list is within itself.
LEMMA WithinSelf ==
  ASSUME NEW u \in Seq(Writes), NEW d
  PROVE  Within(u, u, d, 0)
<1>1. DOMAIN u \subseteq Int OBVIOUS
<1>2. \A i \in Int : i - 0 = i /\ i + 0 = i OBVIOUS
<1> QED BY <1>1, <1>2 DEF Within, TouchedAt

-----------------------------------------------------------------------------
(* One write of many rows, then what each of them needs *)

\* The positions behind a first write.
LEMMA Behind ==
  ASSUME NEW h \in Writes, NEW w \in Seq(Writes), NEW x, x = <<h>> \o w
  PROVE  /\ x \in Seq(Writes) /\ 1 \in DOMAIN x /\ x[1] = h
         /\ \A i \in Int : i \in DOMAIN x <=> i = 1 \/ i - 1 \in DOMAIN w
         /\ \A i \in DOMAIN w : i \in Int /\ i > 0 /\ i + 1 \in DOMAIN x /\ x[i + 1] = w[i]
         /\ DOMAIN x \subseteq Int
<1>1. PICK n \in Nat : n = Len(w) /\ DOMAIN w = 1..n OBVIOUS
<1>2. /\ x \in Seq(Writes) /\ DOMAIN x = 1..(1 + n)
      /\ \A i \in 1..(1 + n) : x[i] = IF i <= 1 THEN h ELSE w[i - 1]
  BY <1>1
<1>3. \A i \in Int : i \in 1..(1 + n) <=> i = 1 \/ i - 1 \in 1..n OBVIOUS
<1>4. \A i \in 1..n : i \in Int /\ i > 0 /\ i + 1 \in 1..(1 + n) /\ ~(i + 1 <= 1) /\ (i + 1) - 1 = i OBVIOUS
<1>5. 1 \in 1..(1 + n) /\ 1 <= 1 OBVIOUS
<1> QED BY <1>1, <1>2, <1>3, <1>4, <1>5

\* A write of rows first, that w is ready for.
LEMMA RowFirst ==
  ASSUME NEW p, NEW h \in Writes, NEW w \in Seq(Writes), NEW d, NEW r, NEW m, NEW by, NEW fmt, NEW A,
         h.do = "rows", d \in DOMAIN h.rows, AtRow(w, d) = {}, h.rows[d] # None,
         p = "mcp" => (r # None => r.trashed = h.rows[d].trashed) /\ (r # None /\ r.trashed => A = {}),
         EndsWell(p, w, d, h.rows[d], m, by, fmt, A)
  PROVE  EndsWell(p, <<h>> \o w, d, r, m, by, fmt, A)
<1>1. PICK x : x = <<h>> \o w OBVIOUS
<1>2. /\ x \in Seq(Writes) /\ 1 \in DOMAIN x /\ x[1] = h
      /\ \A i \in Int : i \in DOMAIN x <=> i = 1 \/ i - 1 \in DOMAIN w
      /\ \A i \in DOMAIN w : i \in Int /\ i > 0 /\ i + 1 \in DOMAIN x /\ x[i + 1] = w[i]
      /\ DOMAIN x \subseteq Int
  <2>1. x \in Seq(Writes) /\ 1 \in DOMAIN x /\ x[1] = h BY <1>1, Behind
  <2>2. \A i \in Int : i \in DOMAIN x <=> i = 1 \/ i - 1 \in DOMAIN w BY <1>1, Behind
  <2>3. \A i \in DOMAIN w : i \in Int /\ i > 0 /\ i + 1 \in DOMAIN x /\ x[i + 1] = w[i] BY <1>1, Behind
  <2>4. DOMAIN x \subseteq Int BY <1>1, Behind
  <2> QED BY <2>1, <2>2, <2>3, <2>4
<1>3. \A i \in DOMAIN x : i = 1 \/ (i - 1 \in DOMAIN w /\ x[i] = w[i - 1])
  <2> SUFFICES ASSUME NEW i \in DOMAIN x, i # 1 PROVE i - 1 \in DOMAIN w /\ x[i] = w[i - 1] OBVIOUS
  <2>1. i \in Int /\ (i - 1) + 1 = i BY <1>2
  <2> QED BY <1>2, <2>1
<1>4. AtRow(x, d) = {1}
  <2>1. 1 \in AtRow(x, d) BY <1>2 DEF AtRow
  <2>2. \A i \in AtRow(x, d) : i = 1 BY <1>3 DEF AtRow
  <2> QED BY <2>1, <2>2
<1>5. 1 \notin AtFile(x, d) /\ 1 \notin AtShare(x, d) BY <1>2 DEF AtFile, AtShare
<1>6. \A i \in AtFile(w, d) : i \in Int /\ i + 1 \in AtFile(x, d) /\ x[i + 1] = w[i] /\ 1 < i + 1
  <2> SUFFICES ASSUME NEW i \in AtFile(w, d)
               PROVE  i \in Int /\ i + 1 \in AtFile(x, d) /\ x[i + 1] = w[i] /\ 1 < i + 1
    OBVIOUS
  <2>1. i \in DOMAIN w BY DEF AtFile
  <2>2. i \in Int /\ i > 0 /\ i + 1 \in DOMAIN x /\ x[i + 1] = w[i] BY <1>2, <2>1
  <2>3. i + 1 \in AtFile(x, d) BY <2>2 DEF AtFile
  <2> QED BY <2>2, <2>3
<1>7. \A j \in AtFile(x, d) : j \in Int /\ j - 1 \in AtFile(w, d) BY <1>2, <1>3, <1>5 DEF AtFile
<1>8. AtShare(w, d) # {} => AtShare(x, d) # {}
  <2>1. \A i \in AtShare(w, d) : i + 1 \in AtShare(x, d) BY <1>2 DEF AtShare
  <2> QED BY <2>1
<1>9. \A i \in AtFile(w, d) : AtFile(w, d) = {i} => AtFile(x, d) = {i + 1}
  <2> SUFFICES ASSUME NEW i \in AtFile(w, d), AtFile(w, d) = {i} PROVE AtFile(x, d) = {i + 1} OBVIOUS
  <2>1. \A j \in AtFile(x, d) : j = i + 1
    <3> TAKE j \in AtFile(x, d)
    <3>1. j \in Int /\ j - 1 = i BY <1>7
    <3> QED BY <3>1
  <2> QED BY <1>6, <2>1
<1>10. PICK e \in Values : /\ RowEnds(w, d, h.rows[d], e) /\ FileEnds(w, d, e, m, by, fmt, A)
                           /\ ShareEnds(w, d, e, A) /\ (p = "mcp" => TrashKept(w, d, h.rows[d], e, A))
  BY DEF EndsWell
<1>11. e = h.rows[d] BY <1>10 DEF RowEnds
<1>12. RowEnds(x, d, r, e)
  <2>1. \A j \in AtRow(x, d) : j <= 1 BY <1>4
  <2>2. 1 \in AtRow(x, d) /\ x[1].rows[d] = e BY <1>2, <1>4, <1>11
  <2> QED BY <2>1, <2>2 DEF RowEnds
<1>13. FileEnds(x, d, e, m, by, fmt, A)
  <2>1. CASE NoFile(w, d, e, m, by, fmt, A)
    <3>1. AtFile(x, d) = {} BY <1>7, <2>1 DEF NoFile
    <3> QED BY <1>11, <2>1, <3>1 DEF NoFile, FileEnds
  <2>2. CASE Removed(w, d, e) BY <1>11, <2>2 DEF Removed
  <2>3. CASE Injected(w, d, e, m)
    <3>1. PICK i \in AtFile(w, d) : AtFile(w, d) = {i} /\ w[i].do = "inject" /\ e # None /\ m # None
      BY <2>3 DEF Injected
    <3>2. \A j \in AtRow(x, d) : j < i + 1 BY <1>4, <1>6
    <3> QED BY <1>6, <1>9, <3>1, <3>2 DEF Injected, FileEnds
  <2>4. CASE ThenInjected(w, d, e)
    <3>1. PICK l \in AtFile(w, d), i \in AtFile(w, d) :
            AtFile(w, d) = {l, i} /\ l < i /\ w[l].do = "content" /\ w[i].do = "inject" /\ e # None
      BY <2>4 DEF ThenInjected
    <3>2. AtFile(x, d) = {l + 1, i + 1}
      <4>1. \A j \in AtFile(x, d) : j = l + 1 \/ j = i + 1
        <5> TAKE j \in AtFile(x, d)
        <5>1. j \in Int /\ (j - 1 = l \/ j - 1 = i) BY <1>7, <3>1
        <5> QED BY <5>1
      <4> QED BY <1>6, <4>1
    <3>3. l + 1 < i + 1 BY <1>6, <3>1
    <3>4. \A j \in AtRow(x, d) : j < i + 1 BY <1>4, <1>6
    <3> QED BY <1>6, <3>1, <3>2, <3>3, <3>4 DEF ThenInjected, FileEnds
  <2>5. CASE Contained(w, d, e, m, fmt, A)
    <3>1. PICK i \in AtFile(w, d) :
            /\ AtFile(w, d) = {i} /\ w[i].do = "content"
            /\ \/ w[i].by = "blind" /\ (e # None /\ fmt = "other" => Right(e, m, "blind", fmt, A))
               \/ /\ w[i].by = "request" /\ fmt = "odf"
                  /\ e = None => ~w[i].meta.trashed
                  /\ e # None => w[i].meta = e
      BY <2>5 DEF Contained
    <3>2. i + 1 \in AtFile(x, d) /\ x[i + 1] = w[i] /\ AtFile(x, d) = {i + 1} BY <1>6, <1>9, <3>1
    <3> QED BY <1>11, <3>1, <3>2 DEF Contained, FileEnds
  <2> QED BY <1>10, <2>1, <2>2, <2>3, <2>4, <2>5 DEF FileEnds
<1>14. ShareEnds(x, d, e, A) BY <1>8, <1>10 DEF ShareEnds
<1>15. p = "mcp" => TrashKept(x, d, r, e, A) BY <1>2, <1>4, <1>10, <1>11 DEF TrashKept
<1> QED BY <1>1, <1>10, <1>12, <1>13, <1>14, <1>15 DEF EndsWell

-----------------------------------------------------------------------------
(* Lists of writes, document by document *)

\* A set of numbers that is not empty has a least one.
LEMMA LeastNatural ==
  ASSUME NEW S \in SUBSET Nat, S # {}
  PROVE  \E m \in S : \A k \in S : m <= k
<1> DEFINE T == {1..k : k \in S}
<1>1. T \subseteq FiniteSubsetsOf(Nat) /\ T # {}
  <2>1. \A k \in S : 1..k \subseteq Nat /\ IsFiniteSet(1..k) BY FS_Interval
  <2> QED BY <2>1 DEF FiniteSubsetsOf
<1>2. PICK x \in T : \A y \in T : <<y, x>> \notin StrictSubsetOrdering(Nat)
  <2> HIDE DEF T
  <2> QED BY <1>1, WFMin, FS_StrictSubsetOrderingWellFounded
<1>3. PICK m \in S : x = 1..m OBVIOUS
<1>4. \A k \in S : m <= k
  <2> SUFFICES ASSUME NEW k \in S, k < m PROVE FALSE OBVIOUS
  <2>1. 1..k \subseteq 1..m /\ m \in 1..m /\ m \notin 1..k OBVIOUS
  <2>2. 1..k \in T /\ 1..k \subseteq Nat /\ 1..m \subseteq Nat OBVIOUS
  <2>3. <<1..k, x>> \in StrictSubsetOrdering(Nat)
    BY <1>3, <2>1, <2>2 DEF StrictSubsetOrdering
  <2> QED BY <1>2, <2>2, <2>3
<1> QED BY <1>4

\* q is the n elements of S, each once.
Orders(q, S, n) ==
  /\ q \in [1..n -> S]
  /\ \A i, j \in 1..n : q[i] = q[j] => i = j
  /\ \A c \in S : \E i \in 1..n : q[i] = c

\* The documents of a set, one after the other: each once.
LEMMA InOrder ==
  ASSUME NEW S, IsFiniteSet(S), NEW q, q = SetToSeq(S)
  PROVE  \E n \in Nat : Orders(q, S, n)
<1>1. PICK n \in Nat : n = Cardinality(S) BY FS_CardinalityType
<1>3. q \in [1..n -> S] /\ \A i, j \in 1..n : q[i] = q[j] => i = j
  <2>1. Bijection(1..n, S) # {} BY <1>1, FS_CardinalityType DEF ExistsBijection
  <2>2. \E f \in [1..n -> S] : IsInjective(f) BY <2>1 DEF Bijection, Injection
  <2>3. q \in [1..n -> S] /\ IsInjective(q) BY <1>1, <2>2 DEF SetToSeq
  <2> QED BY <2>3 DEF IsInjective
<1>4. \A c \in S : \E i \in 1..n : q[i] = c
  <2> SUFFICES ASSUME NEW c \in S, \A i \in 1..n : q[i] # c PROVE FALSE OBVIOUS
  <2>1. IsFiniteSet(S \ {c}) /\ Cardinality(S \ {c}) = n - 1 BY <1>1, FS_RemoveElement
  <2>2. q \in [1..n -> S \ {c}] BY <1>3
  <2>3. IsFiniteSet(1..n) /\ Cardinality(1..n) = n BY FS_Interval
  <2>4. Cardinality(S \ {c}) < Cardinality(1..n) BY <1>1, <2>1, <2>3
  <2>5. \E x, y \in 1..n : x # y /\ q[x] = q[y] BY <2>1, <2>2, <2>3, <2>4, FS_PigeonHole
  <2> QED BY <1>3, <2>5
<1> QED BY <1>1, <1>3, <1>4 DEF Orders

\* g joins the lists v up to each of them.
JoinedUpTo(g, v, n) == g = [i \in 1..n |-> IF i = 1 THEN v[i] ELSE g[i - 1] \o v[i]]

\* There is such a function: FlattenSeq is what its recursion says.
LEMMA JoinedExists ==
  ASSUME NEW v, NEW n \in Nat
  PROVE  \E g : JoinedUpTo(g, v, n)
<1> DEFINE S == {m \in Nat : ~\E g : JoinedUpTo(g, v, m)}
<1> SUFFICES ASSUME S # {} PROVE FALSE OBVIOUS
<1>1. S \in SUBSET Nat OBVIOUS
<1> HIDE DEF S
<1>2. PICK m \in S : \A k \in S : m <= k BY <1>1, LeastNatural
<1>3. m \in Nat /\ ~\E g : JoinedUpTo(g, v, m) BY DEF S
<1>4. CASE m = 0
  <2>1. JoinedUpTo([i \in 1..0 |-> 0], v, 0) BY DEF JoinedUpTo
  <2> QED BY <1>3, <1>4, <2>1
<1>5. CASE m # 0
  <2>1. m - 1 \in Nat /\ m - 1 \notin S BY <1>2, <1>3, <1>5
  <2>2. PICK g : JoinedUpTo(g, v, m - 1) BY <2>1 DEF S
  <2> DEFINE h == [i \in 1..m |-> IF i = m THEN IF i = 1 THEN v[i] ELSE g[m - 1] \o v[i] ELSE g[i]]
  <2>3. \A i \in 1..(m - 1) : g[i] = IF i = 1 THEN v[i] ELSE g[i - 1] \o v[i] BY <2>2 DEF JoinedUpTo
  <2>4. \A i \in 1..m : h[i] = IF i = 1 THEN v[i] ELSE h[i - 1] \o v[i]
    <3> TAKE i \in 1..m
    <3>1. CASE i = m
      <4>1. i # 1 => m - 1 \in 1..m /\ m - 1 # m /\ i - 1 = m - 1 BY <1>3, <3>1
      <4>2. i # 1 => h[m - 1] = g[m - 1] BY <4>1
      <4> QED BY <1>3, <3>1, <4>1, <4>2
    <3>2. CASE i # m
      <4>1. i \in 1..(m - 1) /\ h[i] = g[i] BY <1>3, <3>2
      <4>2. i # 1 => i - 1 \in 1..m /\ i - 1 # m /\ h[i - 1] = g[i - 1] BY <1>3, <3>2
      <4> QED BY <2>3, <4>1, <4>2
    <3> QED BY <3>1, <3>2
  <2>5. h = [i \in 1..m |-> IF i = 1 THEN v[i] ELSE h[i - 1] \o v[i]]
    <3>1. h = [i \in 1..m |-> h[i]] OBVIOUS
    <3> HIDE DEF h
    <3> QED BY <2>4, <3>1
  <2> HIDE DEF h
  <2> QED BY <1>3, <2>5 DEF JoinedUpTo
<1> QED BY <1>4, <1>5

\* The lists v up to n are joined in x: they touch the same documents, and
\* what only one touches is in x as it is there.
Merged(x, v, n) ==
  /\ x \in Seq(Writes)
  /\ \A d : d \in TouchedBy(x) <=> \E j \in 1..n : d \in TouchedBy(v[j])
  /\ \A j \in 1..n : \A d :
       (\A l \in 1..n \ {j} : d \notin TouchedBy(v[l])) => \E k \in Nat : Within(v[j], x, d, k)

\* One more list.
LEMMA OneMerged ==
  ASSUME NEW n \in Nat, n > 0, NEW v \in [1..n -> Seq(Writes)], NEW y, Merged(y, v, n - 1), NEW x, x = y \o v[n]
  PROVE  Merged(x, v, n)
<1>1. y \in Seq(Writes) /\ v[n] \in Seq(Writes) /\ x \in Seq(Writes) BY DEF Merged
<1>2. \A j \in 1..n : j = n \/ j \in 1..(n - 1) OBVIOUS
<1>3. \A j \in 1..(n - 1) : j \in 1..n /\ j # n OBVIOUS
<1>4. TouchedBy(x) = TouchedBy(y) \union TouchedBy(v[n]) BY <1>1, TouchedTogether
<1>5. \A d : d \in TouchedBy(x) <=> \E j \in 1..n : d \in TouchedBy(v[j]) BY <1>2, <1>3, <1>4 DEF Merged
<1>6. ASSUME NEW j \in 1..n, NEW d, \A l \in 1..n \ {j} : d \notin TouchedBy(v[l])
      PROVE  \E k \in Nat : Within(v[j], x, d, k)
  <2>1. CASE j = n
    <3>1. d \notin TouchedBy(y) BY <1>3, <1>6, <2>1 DEF Merged
    <3>2. Within(v[n], v[n], d, 0) BY <1>1, WithinSelf
    <3>3. Within(v[n], y \o v[n], d, 0 + Len(y)) BY <1>1, <3>1, <3>2, WithinLater
    <3>4. 0 + Len(y) \in Nat BY <1>1
    <3> QED BY <2>1, <3>3, <3>4
  <2>2. CASE j # n
    <3>1. j \in 1..(n - 1) /\ d \notin TouchedBy(v[n]) BY <1>2, <1>6, <2>2
    <3>2. PICK k \in Nat : Within(v[j], y, d, k) BY <1>3, <1>6, <3>1 DEF Merged
    <3>3. Within(v[j], y \o v[n], d, k) BY <1>1, <3>1, <3>2, WithinLater
    <3> QED BY <3>3
  <2> QED BY <2>1, <2>2
<1> QED BY <1>1, <1>5, <1>6 DEF Merged

\* FlattenSeq merges them all.
LEMMA Flattened ==
  ASSUME NEW n \in Nat, NEW v \in [1..n -> Seq(Writes)]
  PROVE  Merged(FlattenSeq(v), v, n)
<1>1. v \in Seq(Seq(Writes)) /\ Len(v) = n OBVIOUS
<1>2. CASE n = 0
  <2>1. FlattenSeq(v) = v BY <1>1, <1>2 DEF FlattenSeq
  <2>2. v = <<>> BY <1>1, <1>2
  <2>3. TouchedBy(<<>>) = {} BY DEF TouchedBy
  <2>4. FlattenSeq(v) \in Seq(Writes) BY <2>1, <2>2
  <2>5. TouchedBy(FlattenSeq(v)) = {} BY <2>1, <2>2, <2>3
  <2>6. 1..n = {} BY <1>2
  <2> QED BY <2>4, <2>5, <2>6 DEF Merged
<1>3. CASE n # 0
  <2> DEFINE f == CHOOSE g : g = [i \in 1..Len(v) |-> IF i = 1 THEN v[i] ELSE g[i - 1] \o v[i]]
  <2>1. FlattenSeq(v) = f[n] BY <1>1, <1>3 DEF FlattenSeq
  <2>2. f = [i \in 1..n |-> IF i = 1 THEN v[i] ELSE f[i - 1] \o v[i]]
    <3>1. \E g : g = [i \in 1..Len(v) |-> IF i = 1 THEN v[i] ELSE g[i - 1] \o v[i]]
      BY <1>1, JoinedExists DEF JoinedUpTo
    <3>2. f = [i \in 1..Len(v) |-> IF i = 1 THEN v[i] ELSE f[i - 1] \o v[i]] BY <3>1
    <3> QED BY <1>1, <3>2
  <2> HIDE DEF f
  <2>3. f[1] = v[1] /\ \A i \in 2..n : f[i] = f[i - 1] \o v[i]
    <3>1. \A i \in 1..n : f[i] = IF i = 1 THEN v[i] ELSE f[i - 1] \o v[i] BY <2>2
    <3>2. 1 \in 1..n /\ \A i \in 2..n : i \in 1..n /\ i # 1 BY <1>3
    <3>3. f[1] = v[1] BY <3>1, <3>2
    <3>4. \A i \in 2..n : f[i] = f[i - 1] \o v[i] BY <3>1, <3>2
    <3> QED BY <3>3, <3>4
  <2>4. Merged(f[1], v, 1)
    <3>1. f[1] \in Seq(Writes) /\ 1 \in 1..n BY <1>3, <2>3
    <3>2. \A d : Within(v[1], f[1], d, 0) BY <2>3, <3>1, WithinSelf
    <3>3. 1..1 = {1} OBVIOUS
    <3> QED BY <2>3, <3>1, <3>2, <3>3 DEF Merged
  <2>5. \A i \in 2..n : Merged(f[i - 1], v, i - 1) => Merged(f[i], v, i)
    <3> SUFFICES ASSUME NEW i \in 2..n, Merged(f[i - 1], v, i - 1) PROVE Merged(f[i], v, i) OBVIOUS
    <3> DEFINE u == [j \in 1..i |-> v[j]]
    <3>1. u \in [1..i -> Seq(Writes)] /\ i \in Nat /\ i > 0 /\ \A j \in 1..i : u[j] = v[j] OBVIOUS
    <3> HIDE DEF u
    <3>2. \A j \in 1..(i - 1) : u[j] = v[j] BY <3>1
    <3>3. Merged(f[i - 1], u, i - 1) BY <3>2 DEF Merged
    <3>6. i \in 1..i /\ u[i] = v[i] BY <3>1
    <3>4. f[i] = f[i - 1] \o u[i] BY <2>3, <3>6
    <3>5. Merged(f[i], u, i) BY <3>1, <3>3, <3>4, OneMerged
    <3> QED BY <3>1, <3>5 DEF Merged
  <2> DEFINE S == {i \in Nat : i \in 1..n /\ ~Merged(f[i], v, i)}
  <2>6. S = {}
    <3> SUFFICES ASSUME S # {} PROVE FALSE OBVIOUS
    <3>1. S \in SUBSET Nat OBVIOUS
    <3> HIDE DEF S
    <3>2. PICK i \in S : \A k \in S : i <= k BY <3>1, LeastNatural
    <3>3. i \in Nat /\ i \in 1..n /\ ~Merged(f[i], v, i) BY DEF S
    <3>4. i # 1 BY <2>4, <3>3
    <3>5. i \in 2..n /\ i - 1 \in Nat /\ i - 1 \in 1..n /\ ~(i <= i - 1) BY <3>3, <3>4
    <3>6. i - 1 \notin S BY <3>2, <3>5
    <3>7. Merged(f[i - 1], v, i - 1) BY <3>5, <3>6 DEF S
    <3> QED BY <2>5, <3>3, <3>5, <3>7
  <2>7. n \in 1..n BY <1>3
  <2> QED BY <2>1, <2>6, <2>7
<1> QED BY <1>2, <1>3

\* x does to each document of S what O says of it.
EachDone(x, S, O) ==
  /\ x \in Seq(Writes) /\ TouchedBy(x) = S
  /\ \A c \in S : \E k \in Nat : Within(O[c], x, c, k)

\* What is done for every document of S: to c, what O says of c, if each
\* list of O is about its document alone.
LEMMA ForEachDone ==
  ASSUME NEW S, IsFiniteSet(S), NEW O \in [S -> Seq(Writes)], \A c \in S : TouchedBy(O[c]) = {c},
         NEW q, q = SetToSeq(S), NEW x, x = FlattenSeq([i \in DOMAIN q |-> O[q[i]]])
  PROVE  EachDone(x, S, O)
<1>0. PICK n \in Nat : Orders(q, S, n) BY InOrder
<1>2. /\ q \in [1..n -> S] /\ DOMAIN q = 1..n
      /\ \A i, j \in 1..n : q[i] = q[j] => i = j
      /\ \A c \in S : \E i \in 1..n : q[i] = c
  BY <1>0 DEF Orders
<1>3. PICK v : v = [i \in 1..n |-> O[q[i]]] OBVIOUS
<1>4. v \in [1..n -> Seq(Writes)] /\ \A i \in 1..n : v[i] = O[q[i]] /\ TouchedBy(v[i]) = {q[i]} BY <1>2, <1>3
<1>5. x = FlattenSeq(v) BY <1>2, <1>3
<1>6. Merged(x, v, n) BY <1>4, <1>5, Flattened
<1>7. TouchedBy(x) = S
  <2>0. \A j \in 1..n : \A d : d \in TouchedBy(v[j]) <=> d = q[j] BY <1>4
  <2>4. \A d : d \in TouchedBy(x) <=> \E j \in 1..n : d \in TouchedBy(v[j]) BY <1>6 DEF Merged
  <2>1. \A d : d \in TouchedBy(x) <=> \E j \in 1..n : d = q[j] BY <2>0, <2>4
  <2>2. \A j \in 1..n : q[j] \in S BY <1>2
  <2>3. \A d : d \in TouchedBy(x) => d \in S BY <2>1, <2>2
  <2>5. \A d \in S : \E j \in 1..n : d = q[j] BY <1>2
  <2>6. \A d \in S : d \in TouchedBy(x) BY <2>1, <2>5
  <2> QED BY <2>3, <2>6
<1>8. \A c \in S : \E k \in Nat : Within(O[c], x, c, k)
  <2> TAKE c \in S
  <2>1. PICK i \in 1..n : q[i] = c BY <1>2
  <2>2. \A l \in 1..n \ {i} : c \notin TouchedBy(v[l]) BY <1>2, <1>4, <2>1
  <2>3. \E k \in Nat : Within(v[i], x, c, k) BY <1>6, <2>2 DEF Merged
  <2> QED BY <1>4, <2>1, <2>3
<1> QED BY <1>6, <1>7, <1>8 DEF Merged, EachDone

-----------------------------------------------------------------------------
(* The writes of the handlers *)

\* What the writes are.
LEMMA RowIs ==
  ASSUME NEW d \in Docs, NEW x \in Values
  PROVE  /\ Row(d, x) \in Writes /\ Row(d, x).do = "rows" /\ DOMAIN Row(d, x).rows = {d}
         /\ Row(d, x).rows[d] = x /\ Touched(Row(d, x)) = {d}
<1>1. PICK g : g = [y \in {d} |-> x] OBVIOUS
<1>2. g \in [{d} -> Values] /\ DOMAIN g = {d} /\ g[d] = x BY <1>1
<1>3. {d} \in SUBSET Docs OBVIOUS
<1>4. g \in UNION {[S -> Values] : S \in SUBSET Docs} BY <1>2, <1>3
<1>5. Row(d, x) = [do |-> "rows", rows |-> g] BY <1>1 DEF Row, Rows
<1>6. Row(d, x) \in RowWrites BY <1>4, <1>5 DEF RowWrites
<1> QED BY <1>2, <1>5, <1>6 DEF Writes, Touched

\* The same of what a file may say.
LEMMA RowOf ==
  ASSUME NEW d \in Docs, NEW x \in Meta
  PROVE  /\ Row(d, x) \in Writes /\ Row(d, x).do = "rows" /\ DOMAIN Row(d, x).rows = {d}
         /\ Row(d, x).rows[d] = x /\ Touched(Row(d, x)) = {d}
<1>1. x \in Values BY DEF Values
<1> QED BY <1>1, RowIs

\* A move of documents that have a row.
LEMMA MovedIs ==
  ASSUME NEW S \in SUBSET Docs, \A d \in S : row[d] \in Meta, NEW f \in Folders \union {Root}
  PROVE  /\ Moved(S, f) \in Writes /\ Moved(S, f).do = "rows" /\ DOMAIN Moved(S, f).rows = S
         /\ \A d \in S : Moved(S, f).rows[d] = [trashed |-> row[d].trashed, folder |-> f]
         /\ Touched(Moved(S, f)) = S
<1>1. PICK g : g = [d \in S |-> [row[d] EXCEPT !.folder = f]] OBVIOUS
<1>2. \A d \in S : [row[d] EXCEPT !.folder = f] = [trashed |-> row[d].trashed, folder |-> f] BY DEF Meta
<1>3. \A d \in S : [trashed |-> row[d].trashed, folder |-> f] \in Values BY DEF Meta, Values
<1>4. g \in [S -> Values] /\ DOMAIN g = S /\ \A d \in S : g[d] = [trashed |-> row[d].trashed, folder |-> f]
  BY <1>1, <1>2, <1>3
<1>5. g \in UNION {[T -> Values] : T \in SUBSET Docs} BY <1>4
<1>6. Moved(S, f) = [do |-> "rows", rows |-> g] BY <1>1 DEF Moved, Rows
<1>7. Moved(S, f) \in RowWrites BY <1>5, <1>6 DEF RowWrites
<1> QED BY <1>4, <1>6, <1>7 DEF Writes, Touched

\* The other writes.
LEMMA InjectIs ==
  ASSUME NEW d \in Docs
  PROVE  /\ Inject(d) \in Writes /\ Inject(d).do = "inject" /\ Inject(d).doc = d /\ Touched(Inject(d)) = {d}
         /\ Unlink(d) \in Writes /\ Unlink(d).do = "unlink" /\ Unlink(d).doc = d /\ Touched(Unlink(d)) = {d}
         /\ Revoke(d) \in Writes /\ Revoke(d).do = "revoke" /\ Revoke(d).doc = d /\ Touched(Revoke(d)) = {d}
BY DEF Inject, Unlink, Revoke, Writes, OtherWrites, Touched

\* A write of the content.
LEMMA ContentIs ==
  ASSUME NEW d \in Docs, NEW m \in Meta, NEW by \in {"request", "blind"}
  PROVE  /\ Content(d, m, by) \in Writes /\ Content(d, m, by).do = "content" /\ Content(d, m, by).doc = d
         /\ Content(d, m, by).meta = m /\ Content(d, m, by).by = by /\ Touched(Content(d, m, by)) = {d}
BY DEF Content, Writes, ContentWrites, Touched

\* A write of the cookie.
LEMMA UndoIs ==
  ASSUME NEW u \in UndoSet \union {None}
  PROVE  Undo(u) \in Writes /\ Touched(Undo(u)) = {} /\ Undo(u).do = "undo"
BY DEF Undo, Writes, UndoWrites, Touched

\* Where a list of one, two or three writes.
LEMMA OneAt ==
  ASSUME NEW a \in Writes, NEW d
  PROVE  /\ <<a>> \in Seq(Writes) /\ TouchedBy(<<a>>) = Touched(a)
         /\ a.do = "rows" => AtFile(<<a>>, d) = {} /\ AtShare(<<a>>, d) = {}
         /\ a.do = "rows" /\ d \in DOMAIN a.rows => AtRow(<<a>>, d) = {1}
         /\ a.do # "rows" => AtRow(<<a>>, d) = {}
         /\ a.do \in {"content", "inject", "unlink"} /\ a.doc = d => AtFile(<<a>>, d) = {1}
<1>1. PICK w : w = <<a>> OBVIOUS
<1>2. w \in Seq(Writes) /\ DOMAIN w = {1} /\ w[1] = a BY <1>1
<1> QED BY <1>1, <1>2 DEF TouchedBy, AtRow, AtFile, AtShare

\* The same, of two.
LEMMA TwoAt ==
  ASSUME NEW a \in Writes, NEW b \in Writes, NEW w, w = <<a, b>>
  PROVE  /\ w \in Seq(Writes) /\ DOMAIN w = {1, 2} /\ w[1] = a /\ w[2] = b
         /\ TouchedBy(w) = Touched(a) \union Touched(b)
<1>1. w \in Seq(Writes) /\ DOMAIN w = {1, 2} /\ w[1] = a /\ w[2] = b OBVIOUS
<1> QED BY <1>1 DEF TouchedBy

\* The same, of three.
LEMMA ThreeAt ==
  ASSUME NEW a \in Writes, NEW b \in Writes, NEW c \in Writes, NEW w, w = <<a, b, c>>
  PROVE  /\ w \in Seq(Writes) /\ DOMAIN w = {1, 2, 3} /\ w[1] = a /\ w[2] = b /\ w[3] = c
         /\ TouchedBy(w) = Touched(a) \union Touched(b) \union Touched(c)
<1>1. w \in Seq(Writes) /\ DOMAIN w = {1, 2, 3} /\ w[1] = a /\ w[2] = b /\ w[3] = c OBVIOUS
<1> QED BY <1>1 DEF TouchedBy

\* A file that there is gets the row.
LEMMA InjectEnds ==
  ASSUME NEW p, NEW d \in Docs, NEW r \in Meta, NEW m, m # None, NEW by, NEW fmt, NEW A, r.trashed => A = {}
  PROVE  EndsWell(p, <<Inject(d)>>, d, r, m, by, fmt, A)
<1>1. PICK w : w = <<Inject(d)>> OBVIOUS
<1>2. DOMAIN w = {1} /\ w[1].do = "inject" /\ w[1].doc = d BY <1>1, InjectIs
<1>3. AtRow(w, d) = {} /\ AtFile(w, d) = {1} BY <1>2 DEF AtRow, AtFile
<1>4. r # None /\ r \in Values BY NoneIs DEF Values
<1>5. RowEnds(w, d, r, r) BY <1>3 DEF RowEnds
<1>6. FileEnds(w, d, r, m, by, fmt, A) BY <1>2, <1>3, <1>4 DEF FileEnds, Injected
<1>7. ShareEnds(w, d, r, A) /\ TrashKept(w, d, r, r, A) BY <1>3 DEF ShareEnds, TrashKept
<1> QED BY <1>1, <1>4, <1>5, <1>6, <1>7 DEF EndsWell

\* And once the shares are revoked.
LEMMA RevokeInjectEnds ==
  ASSUME NEW d \in Docs, NEW r \in Meta, NEW m, m # None, NEW by, NEW fmt, NEW A
  PROVE  EndsWell("web", <<Revoke(d), Inject(d)>>, d, r, m, by, fmt, A)
<1>1. PICK w : w = <<Revoke(d), Inject(d)>> OBVIOUS
<1>2. DOMAIN w = {1, 2} /\ w[2].do = "inject" /\ w[2].doc = d /\ w[1].do = "revoke" /\ w[1].doc = d
  BY <1>1, InjectIs
<1>3. AtRow(w, d) = {} /\ AtFile(w, d) = {2} /\ AtShare(w, d) = {1} BY <1>2 DEF AtRow, AtFile, AtShare
<1>4. r # None /\ r \in Values BY NoneIs DEF Values
<1>5. RowEnds(w, d, r, r) BY <1>3 DEF RowEnds
<1>6. FileEnds(w, d, r, m, by, fmt, A) BY <1>2, <1>3, <1>4 DEF FileEnds, Injected
<1>7. ShareEnds(w, d, r, A) BY <1>3 DEF ShareEnds
<1> QED BY <1>1, <1>4, <1>5, <1>6, <1>7 DEF EndsWell

\* A document that is gone for good.
LEMMA PurgeEnds ==
  ASSUME NEW p, NEW d \in Docs, NEW r, NEW m, NEW by, NEW fmt, NEW A, r # None /\ r.trashed => A = {},
         NEW w, w = <<Row(d, None), Unlink(d)>> \/ w = <<Row(d, None), Unlink(d), Revoke(d)>>
  PROVE  EndsWell(p, w, d, r, m, by, fmt, A)
<1>0. None \in Values BY DEF Values
<1>1. PICK a, b, c : a = Row(d, None) /\ b = Unlink(d) /\ c = Revoke(d) OBVIOUS
<1>2. /\ a.do = "rows" /\ DOMAIN a.rows = {d} /\ a.rows[d] = None
      /\ b.do = "unlink" /\ b.doc = d /\ c.do = "revoke" /\ c.doc = d
  BY <1>0, <1>1, RowIs, InjectIs
<1>3. w = <<a, b>> \/ w = <<a, b, c>> BY <1>1
<1>4. DOMAIN w \in {{1, 2}, {1, 2, 3}} /\ w[1] = a /\ w[2] = b /\ (3 \in DOMAIN w => w[3] = c) BY <1>3
<1>5. AtRow(w, d) = {1} /\ AtFile(w, d) = {2} BY <1>2, <1>4 DEF AtRow, AtFile
<1>6. RowEnds(w, d, r, None) BY <1>2, <1>4, <1>5 DEF RowEnds
<1>7. FileEnds(w, d, None, m, by, fmt, A) BY <1>2, <1>4, <1>5 DEF FileEnds, Removed
<1>8. ShareEnds(w, d, None, A) /\ TrashKept(w, d, r, None, A) BY <1>2, <1>4, <1>5 DEF ShareEnds, TrashKept
<1> QED BY <1>0, <1>6, <1>7, <1>8 DEF EndsWell

\* What a new document's row says.
LEMMA FreshIs ==
  /\ Plain \in Meta /\ Plain \in Values /\ Plain # None /\ ~Plain.trashed
  /\ \A f \in Folders \union {Root} : At(f) \in Meta /\ At(f) \in Values /\ At(f) # None /\ ~At(f).trashed
<1>1. Plain \in Meta /\ ~Plain.trashed BY DEF Plain, Meta
<1>2. \A f \in Folders \union {Root} : At(f) \in Meta /\ ~At(f).trashed BY DEF At, Meta
<1> QED BY <1>1, <1>2, NoneIs DEF Values

\* A file written by somebody who did not see the row.
LEMMA BlindEnds ==
  ASSUME NEW p, NEW d \in Docs, NEW n \in Meta, NEW r \in Values, NEW m, NEW by, NEW fmt, NEW A,
         Quiet(r, m, by, fmt, A)
  PROVE  EndsWell(p, <<Content(d, n, "blind")>>, d, r, m, by, fmt, A)
<1>1. PICK w : w = <<Content(d, n, "blind")>> OBVIOUS
<1>2. DOMAIN w = {1} /\ w[1].do = "content" /\ w[1].doc = d /\ w[1].by = "blind" BY <1>1, ContentIs
<1>3. AtRow(w, d) = {} /\ AtFile(w, d) = {1} BY <1>2 DEF AtRow, AtFile
<1>4. r # None /\ fmt = "other" => Right(r, m, "blind", fmt, A) BY DEF Quiet, Right
<1>5. RowEnds(w, d, r, r) BY <1>3 DEF RowEnds
<1>6. FileEnds(w, d, r, m, by, fmt, A) BY <1>2, <1>3, <1>4 DEF FileEnds, Contained
<1>7. ShareEnds(w, d, r, A) /\ TrashKept(w, d, r, r, A) BY <1>3 DEF ShareEnds, TrashKept, Quiet
<1> QED BY <1>1, <1>5, <1>6, <1>7 DEF EndsWell

\* A new document, whose metadata goes into the file.
LEMMA WrittenEnds ==
  ASSUME NEW p, NEW d \in Docs, NEW f \in Folders \union {Root}, NEW by
  PROVE  /\ EndsWell(p, Written(d, f), d, None, None, by, "odf", {})
         /\ EndsWell(p, Tail(Written(d, f)), d, None, None, by, "odf", {})
         /\ Written(d, f) \in Seq(Writes) /\ TouchedBy(Written(d, f)) = {d}
         /\ Tail(Written(d, f)) \in Seq(Writes) /\ TouchedBy(Tail(Written(d, f))) = {d}
<1>0. At(f) \in Meta /\ At(f) \in Values /\ At(f) # None /\ ~At(f).trashed BY FreshIs
<1>1. PICK a, b, w, v : a = Row(d, At(f)) /\ b = Content(d, At(f), "request") /\ w = <<a, b>> /\ v = <<b>> OBVIOUS
<1>2. /\ a \in Writes /\ a.do = "rows" /\ DOMAIN a.rows = {d} /\ a.rows[d] = At(f) /\ Touched(a) = {d}
  BY <1>0, <1>1, RowIs
<1>3. /\ b \in Writes /\ b.do = "content" /\ b.doc = d /\ b.meta = At(f) /\ b.by = "request" /\ Touched(b) = {d}
  BY <1>0, <1>1, ContentIs
<1>4. /\ w \in Seq(Writes) /\ DOMAIN w = {1, 2} /\ w[1] = a /\ w[2] = b /\ TouchedBy(w) = {d}
  <2>1. w \in Seq(Writes) /\ DOMAIN w = {1, 2} /\ w[1] = a /\ w[2] = b BY <1>1, <1>2, <1>3
  <2>2. TouchedBy(w) = Touched(a) \union Touched(b) BY <1>1, <1>2, <1>3, TwoAt
  <2> QED BY <1>2, <1>3, <2>1, <2>2
<1>5. /\ v \in Seq(Writes) /\ DOMAIN v = {1} /\ v[1] = b
  BY <1>1, <1>3
<1>6. TouchedBy(v) = {d} BY <1>3, <1>5 DEF TouchedBy
<1>7. Written(d, f) = w /\ Tail(Written(d, f)) = v
  <2>1. Written(d, f) = w BY <1>1 DEF Written
  <2>2. Tail(w) = v BY <1>1
  <2> QED BY <2>1, <2>2
<1>8. EndsWell(p, w, d, None, None, by, "odf", {})
  <2>1. AtRow(w, d) = {1} /\ AtFile(w, d) = {2} BY <1>2, <1>3, <1>4 DEF AtRow, AtFile
  <2>2. RowEnds(w, d, None, At(f)) BY <1>2, <1>4, <2>1 DEF RowEnds
  <2>3. FileEnds(w, d, At(f), None, by, "odf", {}) BY <1>0, <1>3, <1>4, <2>1 DEF FileEnds, Contained
  <2>4. ShareEnds(w, d, At(f), {}) /\ TrashKept(w, d, None, At(f), {})
    BY <1>0, <1>2, <1>4, <2>1 DEF ShareEnds, TrashKept
  <2> QED BY <1>0, <2>2, <2>3, <2>4 DEF EndsWell
<1>9. EndsWell(p, v, d, None, None, by, "odf", {})
  <2>1. AtRow(v, d) = {} /\ AtFile(v, d) = {1} BY <1>3, <1>5 DEF AtRow, AtFile
  <2>2. RowEnds(v, d, None, None) BY <2>1 DEF RowEnds
  <2>3. FileEnds(v, d, None, None, by, "odf", {}) BY <1>0, <1>3, <1>5, <2>1 DEF FileEnds, Contained
  <2>4. ShareEnds(v, d, None, {}) /\ TrashKept(v, d, None, None, {}) BY <2>1 DEF ShareEnds, TrashKept
  <2>5. None \in Values BY DEF Values
  <2> QED BY <2>2, <2>3, <2>4, <2>5 DEF EndsWell
<1> QED BY <1>4, <1>5, <1>6, <1>7, <1>8, <1>9

\* A new document with a sidecar.
LEMMA BesideEnds ==
  ASSUME NEW p, NEW d \in Docs, NEW f \in Folders \union {Root}, NEW by
  PROVE  /\ EndsWell(p, Beside(d, f), d, None, None, by, "other", {})
         /\ Beside(d, f) \in Seq(Writes) /\ TouchedBy(Beside(d, f)) = {d}
<1>0. /\ At(f) \in Meta /\ At(f) \in Values /\ At(f) # None /\ ~At(f).trashed
      /\ Plain \in Meta
  BY FreshIs
<1>1. PICK a, b, c, w : /\ a = Row(d, At(f)) /\ b = Content(d, Plain, "request") /\ c = Inject(d)
                        /\ w = <<a, b, c>>
  OBVIOUS
<1>2. /\ a \in Writes /\ a.do = "rows" /\ DOMAIN a.rows = {d} /\ a.rows[d] = At(f) /\ Touched(a) = {d}
  BY <1>0, <1>1, RowIs
<1>3. b \in Writes /\ b.do = "content" /\ b.doc = d /\ Touched(b) = {d} BY <1>0, <1>1, ContentIs
<1>4. c \in Writes /\ c.do = "inject" /\ c.doc = d /\ Touched(c) = {d} BY <1>1, InjectIs
<1>5. w \in Seq(Writes) /\ DOMAIN w = {1, 2, 3} /\ w[1] = a /\ w[2] = b /\ w[3] = c BY <1>1, <1>2, <1>3, <1>4
<1>6. TouchedBy(w) = {d} BY <1>2, <1>3, <1>4, <1>5 DEF TouchedBy
<1>7. Beside(d, f) = w BY <1>1 DEF Beside
<1>8. AtRow(w, d) = {1} /\ AtFile(w, d) = {2, 3} BY <1>2, <1>3, <1>4, <1>5 DEF AtRow, AtFile
<1>9. RowEnds(w, d, None, At(f)) BY <1>2, <1>5, <1>8 DEF RowEnds
<1>10. FileEnds(w, d, At(f), None, by, "other", {})
  <2>1. ThenInjected(w, d, At(f)) BY <1>0, <1>3, <1>4, <1>5, <1>8 DEF ThenInjected
  <2> QED BY <2>1 DEF FileEnds
<1>11. ShareEnds(w, d, At(f), {}) /\ TrashKept(w, d, None, At(f), {})
  BY <1>0, <1>2, <1>5, <1>8 DEF ShareEnds, TrashKept
<1> QED BY <1>0, <1>5, <1>6, <1>7, <1>9, <1>10, <1>11 DEF EndsWell

\* A new document without metadata, its row first or last.
LEMMA BareEnds ==
  ASSUME NEW p, NEW d \in Docs, NEW m \in Meta, NEW by,
         NEW w, w = <<Row(d, Plain), Content(d, m, "blind")>> \/ w = <<Content(d, m, "blind"), Row(d, Plain)>>
  PROVE  /\ EndsWell(p, w, d, None, None, by, "odf", {})
         /\ w \in Seq(Writes) /\ TouchedBy(w) = {d}
<1>0. Plain \in Meta /\ Plain \in Values /\ Plain # None /\ ~Plain.trashed BY FreshIs
<1>1. PICK a, b : a = Row(d, Plain) /\ b = Content(d, m, "blind") OBVIOUS
<1>2. /\ a \in Writes /\ a.do = "rows" /\ DOMAIN a.rows = {d} /\ a.rows[d] = Plain /\ Touched(a) = {d}
  BY <1>0, <1>1, RowIs
<1>3. b \in Writes /\ b.do = "content" /\ b.doc = d /\ b.by = "blind" /\ Touched(b) = {d} BY <1>1, ContentIs
<1>4. w \in Seq(Writes) /\ DOMAIN w = {1, 2}
  <2>1. w = <<a, b>> \/ w = <<b, a>> BY <1>1
  <2>2. CASE w = <<a, b>> BY <1>2, <1>3, <2>2
  <2>3. CASE w = <<b, a>> BY <1>2, <1>3, <2>3
  <2> QED BY <2>1, <2>2, <2>3
<1>5. PICK i \in {1, 2}, j \in {1, 2} : i # j /\ w[i] = a /\ w[j] = b
  <2>1. w = <<a, b>> \/ w = <<b, a>> BY <1>1
  <2>2. (w[1] = a /\ w[2] = b) \/ (w[2] = a /\ w[1] = b) BY <2>1
  <2> QED BY <2>2
<1>6. TouchedBy(w) = {d}
  <2>1. \A l \in {1, 2} : w[l] = a \/ w[l] = b BY <1>5
  <2> QED BY <1>2, <1>3, <1>4, <2>1 DEF TouchedBy
<1>7. AtRow(w, d) = {i} /\ AtFile(w, d) = {j}
  <2>1. \A l \in {1, 2} : l = i \/ l = j BY <1>5
  <2>2. \A l : l \in AtRow(w, d) <=> l = i BY <1>2, <1>3, <1>4, <1>5, <2>1 DEF AtRow
  <2>3. \A l : l \in AtFile(w, d) <=> l = j BY <1>2, <1>3, <1>4, <1>5, <2>1 DEF AtFile
  <2> QED BY <2>2, <2>3
<1>8. RowEnds(w, d, None, Plain) BY <1>2, <1>5, <1>7 DEF RowEnds
<1>9. FileEnds(w, d, Plain, None, by, "odf", {})
  <2>1. Contained(w, d, Plain, None, "odf", {}) BY <1>0, <1>3, <1>5, <1>7 DEF Contained
  <2> QED BY <2>1 DEF FileEnds
<1>10. ShareEnds(w, d, Plain, {}) /\ TrashKept(w, d, None, Plain, {})
  BY <1>0, <1>2, <1>5, <1>7 DEF ShareEnds, TrashKept
<1> QED BY <1>0, <1>4, <1>6, <1>8, <1>9, <1>10 DEF EndsWell

\* A row for a file that had none.
FoundFor(d, m) ==
  <<Row(d, [m EXCEPT !.trashed = FALSE])>> \o (IF m.trashed THEN <<Row(d, m)>> ELSE <<>>)

\* It says what the file says.
LEMMA FoundEnds ==
  ASSUME NEW d \in Docs, NEW m \in Meta, NEW by \in {"request", "owner"}, NEW fmt, NEW A,
         Quiet(None, m, by, fmt, A)
  PROVE  EndsWell("web", FoundFor(d, m), d, None, m, by, fmt, A)
<1>0. m # None /\ (m.trashed => A = {}) BY NoneIs DEF Quiet, Right, Meta
<1>1. PICK a, b, w : a = Row(d, [m EXCEPT !.trashed = FALSE]) /\ b = Row(d, m) /\ w = FoundFor(d, m) OBVIOUS
<1>2. [m EXCEPT !.trashed = FALSE] \in Meta BY DEF Meta
<1>3. /\ a.do = "rows" /\ DOMAIN a.rows = {d} /\ a.rows[d] = [m EXCEPT !.trashed = FALSE] /\ a \in Writes
  <2>1. PICK v : v = [m EXCEPT !.trashed = FALSE] OBVIOUS
  <2>2. v \in Meta /\ a = Row(d, v) BY <1>1, <1>2, <2>1
  <2>3. a.do = "rows" /\ DOMAIN a.rows = {d} /\ a.rows[d] = v /\ a \in Writes BY <2>2, RowOf
  <2> QED BY <2>1, <2>3
<1>4. b.do = "rows" /\ DOMAIN b.rows = {d} /\ b.rows[d] = m /\ b \in Writes BY <1>1, RowOf
<1>5. Right(m, m, by, fmt, A) BY <1>0 DEF Right
<1>6. m \in Values BY DEF Values
<1>7. CASE m.trashed
  <2>1. DOMAIN w = {1, 2} /\ w[1] = a /\ w[2] = b BY <1>1, <1>3, <1>4, <1>7 DEF FoundFor
  <2>2. AtRow(w, d) = {1, 2} /\ AtFile(w, d) = {} BY <1>3, <1>4, <2>1 DEF AtRow, AtFile
  <2>3. RowEnds(w, d, None, m) BY <1>4, <2>1, <2>2 DEF RowEnds
  <2>4. FileEnds(w, d, m, m, by, fmt, A) BY <1>0, <1>5, <2>2 DEF FileEnds, NoFile
  <2>5. ShareEnds(w, d, m, A) BY <1>0 DEF ShareEnds
  <2> QED BY <1>1, <1>6, <2>3, <2>4, <2>5 DEF EndsWell
<1>8. CASE ~m.trashed
  <2>0. [m EXCEPT !.trashed = FALSE] = m
    <3>1. m.trashed = FALSE BY <1>8 DEF Meta
    <3> QED BY <3>1 DEF Meta
  <2>1. DOMAIN w = {1} /\ w[1] = a BY <1>1, <1>3, <1>8 DEF FoundFor
  <2>2. AtRow(w, d) = {1} /\ AtFile(w, d) = {} BY <1>3, <2>1 DEF AtRow, AtFile
  <2>6. w[1].rows[d] = m BY <1>3, <2>0, <2>1
  <2>3. RowEnds(w, d, None, m) BY <2>0, <2>1, <2>2, <2>6 DEF RowEnds
  <2>4. FileEnds(w, d, m, m, by, fmt, A) BY <1>0, <1>5, <2>2 DEF FileEnds, NoFile
  <2>5. ShareEnds(w, d, m, A) BY <1>0 DEF ShareEnds
  <2> QED BY <1>1, <1>6, <2>3, <2>4, <2>5 DEF EndsWell
<1> QED BY <1>7, <1>8

\* What it writes.
LEMMA FoundIs ==
  ASSUME NEW d \in Docs, NEW m \in Meta
  PROVE  FoundFor(d, m) \in Seq(Writes) /\ TouchedBy(FoundFor(d, m)) = {d}
<1>1. PICK a, b, w : a = Row(d, [m EXCEPT !.trashed = FALSE]) /\ b = Row(d, m) /\ w = FoundFor(d, m) OBVIOUS
<1>2. [m EXCEPT !.trashed = FALSE] \in Meta BY DEF Meta
<1>3. a \in Writes /\ Touched(a) = {d} BY <1>1, <1>2, RowOf
<1>4. b \in Writes /\ Touched(b) = {d} BY <1>1, RowOf
<1>5. w \in Seq(Writes) /\ 1 \in DOMAIN w /\ \A i \in DOMAIN w : w[i] \in {a, b}
  <2>1. w = <<a>> \o (IF m.trashed THEN <<b>> ELSE <<>>) BY <1>1 DEF FoundFor
  <2>2. CASE m.trashed BY <1>3, <1>4, <2>1, <2>2
  <2>3. CASE ~m.trashed BY <1>3, <2>1, <2>3
  <2> QED BY <2>2, <2>3
<1>6. \A i \in DOMAIN w : Touched(w[i]) = {d} BY <1>3, <1>4, <1>5
<1> QED BY <1>1, <1>5, <1>6 DEF TouchedBy

-----------------------------------------------------------------------------
(* A handler begins *)

\* What is written is about documents.
LEMMA TouchedDocs ==
  ASSUME NEW w \in Seq(Writes)
  PROVE  TouchedBy(w) \subseteq Docs
<1>1. \A i \in DOMAIN w : w[i] \in Writes OBVIOUS
<1>2. \A h \in Writes : Touched(h) \subseteq Docs
  <2> SUFFICES ASSUME NEW h \in Writes PROVE Touched(h) \subseteq Docs OBVIOUS
  <2> QED BY WriteIs DEF Touched
<1> QED BY <1>1, <1>2 DEF TouchedBy

\* The other process.
LEMMA OtherIs == \A p \in Procs : Other(p) \in Procs /\ Other(p) # p /\ \A q \in Procs : q = p \/ q = Other(p)
BY DEF Procs, Other

\* If nothing is left to do for a document, and it is in no doubt, it is quiet.
LEMMA QuietWhenIdle ==
  ASSUME IInv, NEW d \in Docs, d \notin doubtful, NEW p \in Procs, d \notin TouchedBy(todo[p]),
         d \notin TouchedBy(todo[Other(p)])
  PROVE  Quiet(row[d], disk[d], writer[d], format[d], Shared(d))
<1>1. EndsWell(p, todo[p], d, row[d], disk[d], writer[d], format[d], Shared(d)) BY DEF IInv, Ends
<1>2. row[d] \in Values /\ todo[p] \in Seq(Writes) BY DEF IInv, TypeOK, TodoType, Values
<1> QED BY <1>1, <1>2, QuietIs

\* A handler that begins to do w, for which the documents are ready that it
\* finds quiet.
LEMMA BeginKeeps ==
  ASSUME IInv, NEW p \in Procs, NEW w \in Seq(Writes), NEW doubt \in SUBSET Docs, Begins(p, w, doubt),
         format' \in [Docs -> {"odf", "other", None}],
         \A d \in Docs : IF d \in TouchedBy(w) THEN format'[d] # None ELSE format'[d] = format[d],
         \A d \in TouchedBy(w) \ (doubtful \union doubt) :
           Quiet(row[d], disk[d], writer[d], format[d], Shared(d)) =>
             EndsWell(p, w, d, row[d], disk[d], writer[d], format'[d], Shared(d))
  PROVE  IInv'
<1>0. /\ todo[p] = <<>> /\ todo' = [todo EXCEPT ![p] = w]
      /\ doubtful' = doubtful \union doubt \union (TouchedBy(w) \intersect Pending)
      /\ UNCHANGED <<row, disk, share, editor, guests, undo, enabled, writer>>
  BY DEF Begins, Idle, tokens
<1>1. TouchedBy(w) \subseteq Docs BY TouchedDocs
<1>2. TypeOK' BY <1>0, <1>1 DEF IInv, TypeOK
<1>3. TodoType' BY <1>0 DEF IInv, TodoType
<1>4. TouchedBy(todo[p]) = {} BY <1>0 DEF TouchedBy
<1>5. PICK q : q = Other(p) OBVIOUS
<1>6. q \in Procs /\ q # p /\ \A o \in Procs : o = p \/ o = q BY <1>5, OtherIs
<1>7. todo'[p] = w /\ todo'[q] = todo[q] BY <1>0, <1>6 DEF IInv, TodoType
<1>8. TouchedBy(todo[q]) \subseteq Pending BY <1>6 DEF Pending
<1>9. Apart'
  <2> SUFFICES ASSUME NEW d \in Docs, \A o \in Procs : d \in TouchedBy(todo'[o]) PROVE d \in doubtful'
    BY DEF Apart
  <2>1. d \in TouchedBy(w) /\ d \in TouchedBy(todo[q]) BY <1>6, <1>7
  <2> QED BY <1>0, <1>8, <2>1
<1>10. Unmade'
  <2> SUFFICES ASSUME NEW d \in Docs, format'[d] = None
               PROVE  /\ row'[d] = None /\ disk'[d] = None /\ d \notin editor'
                      /\ \A o \in Procs : d \notin TouchedBy(todo'[o])
                      /\ \A s \in Shares : share'[s].doc # d
    BY DEF Unmade
  <2>1. d \notin TouchedBy(w) /\ format[d] = None OBVIOUS
  <2>2. \A o \in Procs : d \notin TouchedBy(todo'[o]) BY <1>6, <1>7, <2>1 DEF IInv, Unmade
  <2> QED BY <1>0, <2>1, <2>2 DEF IInv, Unmade
<1>11. \A d : Shared(d)' = Shared(d) BY <1>0 DEF Shared
<1>12. Other(q) = p /\ Other(p) = q BY <1>5 DEF Procs, Other
<1>13. Ends'
  <2> SUFFICES ASSUME NEW d \in Docs \ doubtful', NEW o \in Procs, d \notin TouchedBy(todo'[Other(o)])
               PROVE  EndsWell(o, todo'[o], d, row'[d], disk'[d], writer'[d], format'[d], Shared(d)')
    BY DEF Ends
  <2>1. d \notin doubtful /\ d \notin doubt /\ ~(d \in TouchedBy(w) /\ d \in Pending) BY <1>0
  <2>2. CASE o = q
    <3>1. d \notin TouchedBy(w) BY <1>7, <1>12, <2>2
    <3>2. EndsWell(q, todo[q], d, row[d], disk[d], writer[d], format[d], Shared(d))
      BY <1>4, <1>6, <1>12, <2>1 DEF IInv, Ends
    <3> QED BY <1>0, <1>7, <1>11, <2>2, <3>1, <3>2
  <2>3. CASE o = p
    <3>1. d \notin TouchedBy(todo[q]) BY <1>7, <1>12, <2>3
    <3>2. Quiet(row[d], disk[d], writer[d], format[d], Shared(d))
      BY <1>4, <1>12, <2>1, <3>1, QuietWhenIdle
    <3>3. EndsWell(p, w, d, row[d], disk[d], writer[d], format'[d], Shared(d))
      <4>1. CASE d \in TouchedBy(w) BY <2>1, <3>2, <4>1
      <4>2. CASE d \notin TouchedBy(w)
        <5>1. row[d] \in Values BY DEF IInv, TypeOK, Values
        <5>2. format'[d] = format[d] BY <4>2
        <5>3. EndsWell(p, w, d, row[d], disk[d], writer[d], format[d], Shared(d)) BY <3>2, <4>2, <5>1, QuietIs
        <5> QED BY <5>2, <5>3
      <4> QED BY <4>1, <4>2
    <3> QED BY <1>0, <1>7, <1>11, <2>3, <3>3
  <2> QED BY <1>6, <2>2, <2>3
<1> QED BY <1>2, <1>3, <1>9, <1>10, <1>13 DEF IInv

\* One that makes no document.
LEMMA HandleKeeps ==
  ASSUME IInv, NEW p \in Procs, NEW w \in Seq(Writes), NEW doubt \in SUBSET Docs, Begins(p, w, doubt),
         UNCHANGED format, \A d \in TouchedBy(w) : format[d] # None,
         \A d \in TouchedBy(w) \ (doubtful \union doubt) :
           Quiet(row[d], disk[d], writer[d], format[d], Shared(d)) =>
             EndsWell(p, w, d, row[d], disk[d], writer[d], format[d], Shared(d))
  PROVE  IInv'
<1>1. format' \in [Docs -> {"odf", "other", None}] BY DEF IInv, TypeOK
<1>2. \A d \in Docs : IF d \in TouchedBy(w) THEN format'[d] # None ELSE format'[d] = format[d] OBVIOUS
<1>3. \A d \in TouchedBy(w) \ (doubtful \union doubt) :
        Quiet(row[d], disk[d], writer[d], format[d], Shared(d)) =>
          EndsWell(p, w, d, row[d], disk[d], writer[d], format'[d], Shared(d))
  OBVIOUS
<1> QED BY <1>1, <1>2, <1>3, BeginKeeps

\* What has a row or a file, or an editor, was made.
LEMMA MadeIs ==
  ASSUME IInv, NEW d \in Docs, row[d] # None \/ disk[d] # None
  PROVE  format[d] # None
BY DEF IInv, Unmade

\* One that makes a document.
LEMMA MakeKeeps ==
  ASSUME IInv, NEW p \in Procs, NEW d \in Docs, NEW fmt \in {"odf", "other"}, NEW w \in Seq(Writes),
         Makes(p, d, fmt, w), TouchedBy(w) = {d},
         EndsWell(p, w, d, None, None, writer[d], fmt, {})
  PROVE  IInv'
<1>1. format[d] = None /\ format' = [format EXCEPT ![d] = fmt] /\ Begins(p, w, {}) BY DEF Makes
<1>2. format' \in [Docs -> {"odf", "other", None}] /\ format'[d] = fmt /\ fmt # None
  BY <1>1, NoneIs DEF IInv, TypeOK
<1>3. \A c \in Docs : IF c \in TouchedBy(w) THEN format'[c] # None ELSE format'[c] = format[c]
  BY <1>1, <1>2 DEF IInv, TypeOK
<1>4. row[d] = None /\ disk[d] = None /\ Shared(d) = {} BY <1>1 DEF IInv, Unmade, Shared
<1>5. \A c \in TouchedBy(w) \ (doubtful \union {}) :
        Quiet(row[c], disk[c], writer[c], format[c], Shared(c)) =>
          EndsWell(p, w, c, row[c], disk[c], writer[c], format'[c], Shared(c))
  BY <1>2, <1>4
<1> QED BY <1>1, <1>2, <1>3, <1>5, BeginKeeps

-----------------------------------------------------------------------------
(* The handlers of one document *)

\* A row is written, then its file.
LEMMA RowInjectEnds ==
  ASSUME NEW p, NEW d \in Docs, NEW h \in Writes, h.do = "rows", d \in DOMAIN h.rows, NEW r, NEW m, m # None,
         h.rows[d] \in Meta, NEW by, NEW fmt, NEW A, h.rows[d].trashed => A = {},
         p = "mcp" => (r # None => r.trashed = h.rows[d].trashed) /\ (r # None /\ r.trashed => A = {}),
         NEW x \in Seq(Writes), NEW k \in Nat, Within(<<Inject(d)>>, x, d, k)
  PROVE  EndsWell(p, <<h>> \o x, d, r, m, by, fmt, A)
<1>1. PICK u : u = <<Inject(d)>> OBVIOUS
<1>2. u \in Seq(Writes) /\ DOMAIN u = {1} /\ u[1].do = "inject" BY <1>1, InjectIs
<1>3. EndsWell(p, u, d, h.rows[d], m, by, fmt, A) BY <1>1, InjectEnds
<1>4. Within(u, x, d, k) BY <1>1
<1>5. EndsWell(p, x, d, h.rows[d], m, by, fmt, A) BY <1>2, <1>3, <1>4, WithinEnds
<1>6. AtRow(x, d) = {}
  <2>1. AtRow(u, d) = {} BY <1>2 DEF AtRow
  <2>2. \A i \in Int : i \in AtRow(x, d) <=> i - k \in AtRow(u, d) BY <1>2, <1>4, WithinAt
  <2>3. AtRow(x, d) \subseteq Nat \ {0} BY AtNat
  <2> QED BY <2>1, <2>2, <2>3
<1>7. h.rows[d] # None BY NoneIs
<1> QED BY <1>5, <1>6, <1>7, RowFirst

\* The metadata are written again.
LEMMA InjectKeeps ==
  ASSUME IInv, NEW p \in Procs, NEW d \in Docs, row[d] # None, Handles(p, <<Inject(d)>>)
  PROVE  IInv'
<1>1. PICK w : w = <<Inject(d)>> OBVIOUS
<1>2. w \in Seq(Writes) /\ TouchedBy(w) = {d} BY <1>1, InjectIs, OneAt
<1>3. row[d] \in Meta /\ format[d] # None BY MadeIs DEF IInv, TypeOK
<1>4. Begins(p, w, {}) /\ UNCHANGED format BY <1>1 DEF Handles
<1>5. \A c \in TouchedBy(w) \ (doubtful \union {}) :
        Quiet(row[c], disk[c], writer[c], format[c], Shared(c)) =>
          EndsWell(p, w, c, row[c], disk[c], writer[c], format[c], Shared(c))
  <2> SUFFICES ASSUME Quiet(row[d], disk[d], writer[d], format[d], Shared(d))
               PROVE  EndsWell(p, w, d, row[d], disk[d], writer[d], format[d], Shared(d))
    BY <1>2
  <2>1. disk[d] # None /\ (row[d].trashed => Shared(d) = {}) BY DEF Quiet, Right
  <2> QED BY <1>1, <1>3, <2>1, InjectEnds
<1> QED BY <1>2, <1>3, <1>4, <1>5, HandleKeeps

\* A row and then its metadata are written.
LEMMA RowInjectKeeps ==
  ASSUME IInv, NEW p \in Procs, NEW d \in Docs, row[d] # None, NEW h \in Writes, h.do = "rows", DOMAIN h.rows = {d},
         h.rows[d] \in Meta, Touched(h) = {d}, Handles(p, <<h, Inject(d)>>),
         h.rows[d].trashed => row[d].trashed, p = "mcp" => row[d].trashed = h.rows[d].trashed
  PROVE  IInv'
<1>1. PICK w : w = <<h, Inject(d)>> OBVIOUS
<1>2. w \in Seq(Writes) /\ TouchedBy(w) = {d} BY <1>1, InjectIs, TwoAt
<1>3. row[d] \in Meta /\ format[d] # None BY MadeIs DEF IInv, TypeOK
<1>4. Begins(p, w, {}) /\ UNCHANGED format BY <1>1 DEF Handles
<1>6. PICK u : u = <<Inject(d)>> OBVIOUS
<1>7. u \in Seq(Writes) /\ w = <<h>> \o u BY <1>1, <1>6, InjectIs
<1>5. \A c \in TouchedBy(w) \ (doubtful \union {}) :
        Quiet(row[c], disk[c], writer[c], format[c], Shared(c)) =>
          EndsWell(p, w, c, row[c], disk[c], writer[c], format[c], Shared(c))
  <2> SUFFICES ASSUME Quiet(row[d], disk[d], writer[d], format[d], Shared(d))
               PROVE  EndsWell(p, w, d, row[d], disk[d], writer[d], format[d], Shared(d))
    BY <1>2
  <2>1. disk[d] # None /\ (row[d].trashed => Shared(d) = {}) BY DEF Quiet, Right
  <2>2. Within(<<Inject(d)>>, u, d, 0) BY <1>6, <1>7, WithinSelf
  <2>3. /\ h.rows[d].trashed => Shared(d) = {}
        /\ p = "mcp" => (row[d] # None => row[d].trashed = h.rows[d].trashed)
                        /\ (row[d] # None /\ row[d].trashed => Shared(d) = {})
    BY <2>1
  <2>4. EndsWell(p, <<h>> \o u, d, row[d], disk[d], writer[d], format[d], Shared(d))
    BY <1>7, <2>1, <2>2, <2>3, RowInjectEnds
  <2> QED BY <1>7, <2>4
<1> QED BY <1>2, <1>3, <1>4, <1>5, HandleKeeps

\* A move.
LEMMA MoveKeeps ==
  ASSUME IInv, NEW p \in Procs, NEW d \in Docs, NEW f \in Folders \union {Root}, Active(d),
         Handles(p, <<Moved({d}, f), Inject(d)>>)
  PROVE  IInv'
<1>1. PICK h : h = Moved({d}, f) OBVIOUS
<1>2. row[d] # None /\ row[d] \in Meta /\ ~row[d].trashed BY DEF Active, IInv, TypeOK
<1>3. /\ h \in Writes /\ h.do = "rows" /\ DOMAIN h.rows = {d} /\ Touched(h) = {d}
      /\ h.rows[d] = [trashed |-> row[d].trashed, folder |-> f]
  <2>1. {d} \in SUBSET Docs /\ \A c \in {d} : row[c] \in Meta BY <1>2
  <2> QED BY <1>1, <2>1, MovedIs
<1>4. h.rows[d] \in Meta /\ h.rows[d].trashed = row[d].trashed BY <1>2, <1>3 DEF Meta
<1>5. Handles(p, <<h, Inject(d)>>) BY <1>1
<1> QED BY <1>2, <1>3, <1>4, <1>5, RowInjectKeeps

\* A restore.
LEMMA RestoreKeeps ==
  ASSUME IInv, NEW d \in Docs, Restore(d)
  PROVE  IInv'
<1>1. PICK h : h = Row(d, [row[d] EXCEPT !.trashed = FALSE]) OBVIOUS
<1>2. row[d] # None /\ row[d] \in Meta BY DEF Restore, IInv, TypeOK
<1>3. [row[d] EXCEPT !.trashed = FALSE] \in Meta /\ ~[row[d] EXCEPT !.trashed = FALSE].trashed BY <1>2 DEF Meta
<1>4. /\ h \in Writes /\ h.do = "rows" /\ DOMAIN h.rows = {d} /\ Touched(h) = {d}
      /\ h.rows[d] = [row[d] EXCEPT !.trashed = FALSE]
  <2>1. PICK v : v = [row[d] EXCEPT !.trashed = FALSE] OBVIOUS
  <2>2. v \in Meta /\ h = Row(d, v) BY <1>1, <1>3, <2>1
  <2>3. h \in Writes /\ h.do = "rows" /\ DOMAIN h.rows = {d} /\ Touched(h) = {d} /\ h.rows[d] = v BY <2>2, RowOf
  <2> QED BY <2>1, <2>3
<1>5. Handles("web", <<h, Inject(d)>>) BY <1>1 DEF Restore, Does
<1>6. "web" \in Procs /\ "web" # "mcp" BY DEF Procs
<1>7. h.rows[d] \in Meta /\ ~h.rows[d].trashed BY <1>3, <1>4
<1> QED BY <1>2, <1>4, <1>5, <1>6, <1>7, RowInjectKeeps

\* A document is deleted.
LEMMA DeleteKeeps ==
  ASSUME IInv, NEW d \in Docs, Delete(d)
  PROVE  IInv'
<1>1. row[d] # None /\ row[d] \in Meta BY DEF Delete, IInv, TypeOK
<1>2. format[d] # None /\ "web" \in Procs BY <1>1, MadeIs DEF Procs
<1>3. None \in Values BY DEF Values
<1>4. CASE row[d].trashed
  <2>1. PICK w : w = <<Row(d, None), Unlink(d), Revoke(d)>> OBVIOUS
  <2>2. Begins("web", w, {}) /\ UNCHANGED format BY <1>4, <2>1 DEF Delete, Does, Handles, Purging
  <2>3. w \in Seq(Writes) /\ TouchedBy(w) = {d}
    <3>1. Row(d, None) \in Writes /\ Touched(Row(d, None)) = {d} BY <1>3, RowIs
    <3>2. /\ Unlink(d) \in Writes /\ Touched(Unlink(d)) = {d} /\ Revoke(d) \in Writes /\ Touched(Revoke(d)) = {d}
      BY InjectIs
    <3>3. w \in Seq(Writes) BY <2>1, <3>1, <3>2, ThreeAt
    <3>4. TouchedBy(w) = Touched(Row(d, None)) \union Touched(Unlink(d)) \union Touched(Revoke(d))
      BY <2>1, <3>1, <3>2, ThreeAt
    <3> QED BY <3>1, <3>2, <3>3, <3>4
  <2>4. \A c \in TouchedBy(w) \ (doubtful \union {}) :
          Quiet(row[c], disk[c], writer[c], format[c], Shared(c)) =>
            EndsWell("web", w, c, row[c], disk[c], writer[c], format[c], Shared(c))
    <3> SUFFICES ASSUME Quiet(row[d], disk[d], writer[d], format[d], Shared(d))
                 PROVE  EndsWell("web", w, d, row[d], disk[d], writer[d], format[d], Shared(d))
      BY <2>3
    <3>1. row[d] # None /\ row[d].trashed => Shared(d) = {} BY DEF Quiet
    <3> QED BY <2>1, <3>1, PurgeEnds
  <2> QED BY <1>2, <2>2, <2>3, <2>4, HandleKeeps
<1>5. CASE ~row[d].trashed
  <2>1. PICK h, u, w : /\ h = Row(d, [row[d] EXCEPT !.trashed = TRUE])
                       /\ u = <<Revoke(d), Inject(d)>> /\ w = <<h, Revoke(d), Inject(d)>>
    OBVIOUS
  <2>2. Begins("web", w, {}) /\ UNCHANGED format BY <1>5, <2>1 DEF Delete, Does, Handles, Trashing
  <2>3. [row[d] EXCEPT !.trashed = TRUE] \in Meta BY <1>1 DEF Meta
  <2>4. /\ h \in Writes /\ h.do = "rows" /\ DOMAIN h.rows = {d} /\ Touched(h) = {d}
        /\ h.rows[d] = [row[d] EXCEPT !.trashed = TRUE]
    <3>1. PICK v : v = [row[d] EXCEPT !.trashed = TRUE] OBVIOUS
    <3>2. v \in Meta /\ h = Row(d, v) BY <2>1, <2>3, <3>1
    <3>3. h \in Writes /\ h.do = "rows" /\ DOMAIN h.rows = {d} /\ Touched(h) = {d} /\ h.rows[d] = v BY <3>2, RowOf
    <3> QED BY <3>1, <3>3
  <2>5. /\ Inject(d) \in Writes /\ Touched(Inject(d)) = {d} /\ Revoke(d) \in Writes /\ Touched(Revoke(d)) = {d}
        /\ Inject(d).do = "inject" /\ Revoke(d).do = "revoke"
    BY InjectIs
  <2>6. w \in Seq(Writes) /\ TouchedBy(w) = {d}
    <3>1. w \in Seq(Writes) BY <2>1, <2>4, <2>5, ThreeAt
    <3>2. DOMAIN w = {1, 2, 3} /\ w[1] = h /\ w[2] = Revoke(d) /\ w[3] = Inject(d) BY <2>1
    <3>3. TouchedBy(w) = {d} BY <2>4, <2>5, <3>2 DEF TouchedBy
    <3> QED BY <3>1, <3>3
  <2>7. u \in Seq(Writes) /\ w = <<h>> \o u /\ DOMAIN u = {1, 2} /\ u[1] = Revoke(d) /\ u[2] = Inject(d)
    BY <2>1, <2>5
  <2>8. AtRow(u, d) = {} BY <2>5, <2>7 DEF AtRow
  <2>9. \A c \in TouchedBy(w) \ (doubtful \union {}) :
          Quiet(row[c], disk[c], writer[c], format[c], Shared(c)) =>
            EndsWell("web", w, c, row[c], disk[c], writer[c], format[c], Shared(c))
    <3> SUFFICES ASSUME Quiet(row[d], disk[d], writer[d], format[d], Shared(d))
                 PROVE  EndsWell("web", w, d, row[d], disk[d], writer[d], format[d], Shared(d))
      BY <2>6
    <3>1. disk[d] # None BY <1>1 DEF Quiet, Right
    <3>2. EndsWell("web", u, d, h.rows[d], disk[d], writer[d], format[d], Shared(d))
      BY <2>1, <2>3, <2>4, <3>1, RevokeInjectEnds
    <3>3. h.rows[d] # None /\ "web" # "mcp" BY <2>3, <2>4, NoneIs
    <3>4. EndsWell("web", <<h>> \o u, d, row[d], disk[d], writer[d], format[d], Shared(d))
      BY <2>4, <2>7, <2>8, <3>2, <3>3, RowFirst
    <3> QED BY <2>7, <3>4
  <2> QED BY <1>2, <2>2, <2>6, <2>9, HandleKeeps
<1> QED BY <1>4, <1>5

\* The API's deletion, of which neither the file nor the shares hear.
LEMMA TrashKeeps ==
  ASSUME IInv, NEW p \in Procs, NEW d \in Docs, Trashes(p, d)
  PROVE  IInv'
<1>1. row[d] # None /\ row[d] \in Meta BY DEF Trashes, Active, IInv, TypeOK
<1>2. [row[d] EXCEPT !.trashed = TRUE] \in Meta BY <1>1 DEF Meta
<1>3. PICK h, w : h = Row(d, [row[d] EXCEPT !.trashed = TRUE]) /\ w = <<h>> OBVIOUS
<1>4. h \in Writes /\ Touched(h) = {d} BY <1>2, <1>3, RowOf
<1>5. w \in Seq(Writes) /\ TouchedBy(w) = {d} BY <1>3, <1>4, OneAt
<1>6. Begins(p, w, {d}) /\ UNCHANGED format BY <1>3 DEF Trashes
<1>7. format[d] # None BY <1>1, MadeIs
<1>8. TouchedBy(w) \ (doubtful \union {d}) = {} BY <1>5
<1>9. {d} \in SUBSET Docs OBVIOUS
<1> QED BY <1>5, <1>6, <1>7, <1>8, <1>9, HandleKeeps

\* A file is written by somebody who does not see the row.
LEMMA BlindKeeps ==
  ASSUME IInv, NEW p \in Procs, NEW d \in Docs, NEW m \in Meta, format[d] # None, Handles(p, <<Content(d, m, "blind")>>)
  PROVE  IInv'
<1>1. PICK w : w = <<Content(d, m, "blind")>> OBVIOUS
<1>2. w \in Seq(Writes) /\ TouchedBy(w) = {d} BY <1>1, ContentIs, OneAt
<1>3. Begins(p, w, {}) /\ UNCHANGED format BY <1>1 DEF Handles
<1>4. row[d] \in Values BY DEF IInv, TypeOK, Values
<1>5. \A c \in TouchedBy(w) \ (doubtful \union {}) :
        Quiet(row[c], disk[c], writer[c], format[c], Shared(c)) =>
          EndsWell(p, w, c, row[c], disk[c], writer[c], format[c], Shared(c))
  BY <1>1, <1>2, <1>4, BlindEnds
<1> QED BY <1>2, <1>3, <1>5, HandleKeeps

\* A document is taken away, shares or no shares.
LEMMA DiscardKeeps ==
  ASSUME IInv, NEW p \in Procs, NEW d \in Docs, format[d] # None, Handles(p, <<Row(d, None), Unlink(d)>>)
  PROVE  IInv'
<1>1. PICK w : w = <<Row(d, None), Unlink(d)>> OBVIOUS
<1>2. w \in Seq(Writes) /\ TouchedBy(w) = {d}
  <2>1. None \in Values BY DEF Values
  <2>2. Row(d, None) \in Writes /\ Touched(Row(d, None)) = {d} BY <2>1, RowIs
  <2>3. Unlink(d) \in Writes /\ Touched(Unlink(d)) = {d} BY InjectIs
  <2> QED BY <1>1, <2>2, <2>3, TwoAt
<1>3. Begins(p, w, {}) /\ UNCHANGED format BY <1>1 DEF Handles
<1>4. \A c \in TouchedBy(w) \ (doubtful \union {}) :
        Quiet(row[c], disk[c], writer[c], format[c], Shared(c)) =>
          EndsWell(p, w, c, row[c], disk[c], writer[c], format[c], Shared(c))
  <2> SUFFICES ASSUME Quiet(row[d], disk[d], writer[d], format[d], Shared(d))
               PROVE  EndsWell(p, w, d, row[d], disk[d], writer[d], format[d], Shared(d))
    BY <1>2
  <2>1. row[d] # None /\ row[d].trashed => Shared(d) = {} BY DEF Quiet
  <2> QED BY <1>1, <2>1, PurgeEnds
<1> QED BY <1>2, <1>3, <1>4, HandleKeeps

-----------------------------------------------------------------------------
(* The handlers of many documents *)

\* What is done for each of some documents, a function of the documents.
LEMMA EachInjected ==
  ASSUME NEW S \in SUBSET Docs, NEW x, x = ForEach(S, Injecting)
  PROVE  EachDone(x, S, [c \in S |-> <<Inject(c)>>])
<1>1. PICK q : q = SetToSeq(S) OBVIOUS
<1>2. PICK O : O = [c \in S |-> <<Inject(c)>>] OBVIOUS
<1>3. IsFiniteSet(S) BY NoneIs, FS_Subset
<1>4. PICK n \in Nat : Orders(q, S, n) BY <1>1, <1>3, InOrder
<1>5. \A i \in DOMAIN q : q[i] \in S BY <1>4 DEF Orders
<1>6. O \in [S -> Seq(Writes)] /\ \A c \in S : O[c] = <<Inject(c)>> /\ TouchedBy(O[c]) = {c}
  <2>1. \A c \in S : <<Inject(c)>> \in Seq(Writes) /\ TouchedBy(<<Inject(c)>>) = {c}
    <3> TAKE c \in S
    <3>1. Inject(c) \in Writes /\ Touched(Inject(c)) = {c} BY InjectIs
    <3> QED BY <3>1, OneAt
  <2> QED BY <1>2, <2>1
<1>7. x = FlattenSeq([i \in DOMAIN q |-> O[q[i]]])
  <2>1. [i \in DOMAIN q |-> O[q[i]]] = [i \in DOMAIN q |-> <<Inject(q[i])>>] BY <1>5, <1>6
  <2>2. x = FlattenSeq([i \in DOMAIN q |-> <<Inject(q[i])>>]) BY <1>1 DEF ForEach, Injecting
  <2> QED BY <2>1, <2>2
<1>8. \A c \in S : TouchedBy(O[c]) = {c} BY <1>6
<1>9. O \in [S -> Seq(Writes)] BY <1>6
<1>10. EachDone(x, S, O) BY <1>1, <1>3, <1>7, <1>8, <1>9, ForEachDone
<1> QED BY <1>2, <1>10

\* The purge of documents.
LEMMA EachPurged ==
  ASSUME NEW S \in SUBSET Docs, NEW x, x = ForEach(S, Purging)
  PROVE  EachDone(x, S, [c \in S |-> Purging(c)])
<1>1. PICK q : q = SetToSeq(S) OBVIOUS
<1>2. PICK O : O = [c \in S |-> Purging(c)] OBVIOUS
<1>3. IsFiniteSet(S) BY NoneIs, FS_Subset
<1>4. PICK n \in Nat : Orders(q, S, n) BY <1>1, <1>3, InOrder
<1>5. \A i \in DOMAIN q : q[i] \in S BY <1>4 DEF Orders
<1>6. O \in [S -> Seq(Writes)] /\ \A c \in S : O[c] = Purging(c) /\ TouchedBy(O[c]) = {c}
  <2>1. \A c \in S : Purging(c) \in Seq(Writes) /\ TouchedBy(Purging(c)) = {c}
    <3> TAKE c \in S
    <3>1. PICK a, b, e, w : a = Row(c, None) /\ b = Unlink(c) /\ e = Revoke(c) /\ w = <<a, b, e>> OBVIOUS
    <3>2. None \in Values BY DEF Values
    <3>3. a \in Writes /\ Touched(a) = {c} BY <3>1, <3>2, RowIs
    <3>4. b \in Writes /\ Touched(b) = {c} /\ e \in Writes /\ Touched(e) = {c} BY <3>1, InjectIs
    <3>5. w \in Seq(Writes) BY <3>1, <3>3, <3>4, ThreeAt
    <3>6. TouchedBy(w) = Touched(a) \union Touched(b) \union Touched(e) BY <3>1, <3>3, <3>4, ThreeAt
    <3>7. Purging(c) = w BY <3>1 DEF Purging
    <3> QED BY <3>3, <3>4, <3>5, <3>6, <3>7
  <2> QED BY <1>2, <2>1
<1>7. x = FlattenSeq([i \in DOMAIN q |-> O[q[i]]])
  <2>1. [i \in DOMAIN q |-> O[q[i]]] = [i \in DOMAIN q |-> Purging(q[i])] BY <1>5, <1>6
  <2>2. x = FlattenSeq([i \in DOMAIN q |-> Purging(q[i])]) BY <1>1 DEF ForEach
  <2> QED BY <2>1, <2>2
<1>8. \A c \in S : TouchedBy(O[c]) = {c} BY <1>6
<1>9. O \in [S -> Seq(Writes)] BY <1>6
<1>10. EachDone(x, S, O) BY <1>1, <1>3, <1>7, <1>8, <1>9, ForEachDone
<1> QED BY <1>2, <1>10

\* What a resync does for a document.
FoundHere(d) == FoundFor(d, disk[d])

\* The rows found for files.
LEMMA EachFound ==
  ASSUME NEW S \in SUBSET Docs, \A d \in S : disk[d] \in Meta, NEW x, x = ForEach(S, FoundHere)
  PROVE  EachDone(x, S, [c \in S |-> FoundFor(c, disk[c])])
<1>1. PICK q : q = SetToSeq(S) OBVIOUS
<1>2. PICK O : O = [c \in S |-> FoundFor(c, disk[c])] OBVIOUS
<1>3. IsFiniteSet(S) BY NoneIs, FS_Subset
<1>4. PICK n \in Nat : Orders(q, S, n) BY <1>1, <1>3, InOrder
<1>5. \A i \in DOMAIN q : q[i] \in S BY <1>4 DEF Orders
<1>6. O \in [S -> Seq(Writes)] /\ \A c \in S : O[c] = FoundFor(c, disk[c]) /\ TouchedBy(O[c]) = {c}
  <2>1. \A c \in S : FoundFor(c, disk[c]) \in Seq(Writes) /\ TouchedBy(FoundFor(c, disk[c])) = {c}
    <3> TAKE c \in S
    <3>1. disk[c] \in Meta OBVIOUS
    <3> QED BY <3>1, FoundIs
  <2> QED BY <1>2, <2>1
<1>7. x = FlattenSeq([i \in DOMAIN q |-> O[q[i]]])
  <2>1. [i \in DOMAIN q |-> O[q[i]]] = [i \in DOMAIN q |-> FoundFor(q[i], disk[q[i]])] BY <1>5, <1>6
  <2>2. x = FlattenSeq([i \in DOMAIN q |-> FoundFor(q[i], disk[q[i]])]) BY <1>1 DEF ForEach, FoundHere
  <2> QED BY <2>1, <2>2
<1>8. \A c \in S : TouchedBy(O[c]) = {c} BY <1>6
<1>9. O \in [S -> Seq(Writes)] BY <1>6
<1>10. EachDone(x, S, O) BY <1>1, <1>3, <1>7, <1>8, <1>9, ForEachDone
<1> QED BY <1>2, <1>10

\* What an undo of a folder's deletion does for a document.
Returned(d) == <<Moved({d}, undo.folder), Inject(d)>>

\* The documents that move back.
LEMMA EachReturned ==
  ASSUME NEW S \in SUBSET Docs, \A d \in S : row[d] \in Meta, undo.folder \in Folders, NEW x, x = ForEach(S, Returned)
  PROVE  EachDone(x, S, [c \in S |-> Returned(c)])
<1>1. PICK q : q = SetToSeq(S) OBVIOUS
<1>2. PICK O : O = [c \in S |-> Returned(c)] OBVIOUS
<1>3. IsFiniteSet(S) BY NoneIs, FS_Subset
<1>4. PICK n \in Nat : Orders(q, S, n) BY <1>1, <1>3, InOrder
<1>5. \A i \in DOMAIN q : q[i] \in S BY <1>4 DEF Orders
<1>6. O \in [S -> Seq(Writes)] /\ \A c \in S : O[c] = Returned(c) /\ TouchedBy(O[c]) = {c}
  <2>1. \A c \in S : Returned(c) \in Seq(Writes) /\ TouchedBy(Returned(c)) = {c}
    <3> TAKE c \in S
    <3>1. PICK a, b, w : a = Moved({c}, undo.folder) /\ b = Inject(c) /\ w = <<a, b>> OBVIOUS
    <3>2. {c} \in SUBSET Docs /\ (\A d \in {c} : row[d] \in Meta) /\ undo.folder \in Folders \union {Root} OBVIOUS
    <3>3. a \in Writes /\ Touched(a) = {c} BY <3>1, <3>2, MovedIs
    <3>4. b \in Writes /\ Touched(b) = {c} BY <3>1, InjectIs
    <3>5. w \in Seq(Writes) BY <3>1, <3>3, <3>4, TwoAt
    <3>6. TouchedBy(w) = Touched(a) \union Touched(b) BY <3>1, <3>3, <3>4, TwoAt
    <3>7. Returned(c) = w BY <3>1 DEF Returned
    <3> QED BY <3>3, <3>4, <3>5, <3>6, <3>7
  <2> QED BY <1>2, <2>1
<1>7. x = FlattenSeq([i \in DOMAIN q |-> O[q[i]]])
  <2>1. [i \in DOMAIN q |-> O[q[i]]] = [i \in DOMAIN q |-> Returned(q[i])] BY <1>5, <1>6
  <2>2. x = FlattenSeq([i \in DOMAIN q |-> Returned(q[i])]) BY <1>1 DEF ForEach
  <2> QED BY <2>1, <2>2
<1>8. \A c \in S : TouchedBy(O[c]) = {c} BY <1>6
<1>9. O \in [S -> Seq(Writes)] BY <1>6
<1>10. EachDone(x, S, O) BY <1>1, <1>3, <1>7, <1>8, <1>9, ForEachDone
<1> QED BY <1>2, <1>10

\* d is ready for what p begins to do.
Ready(p, w, d) ==
  Quiet(row[d], disk[d], writer[d], format[d], Shared(d)) =>
    EndsWell(p, w, d, row[d], disk[d], writer[d], format[d], Shared(d))

\* So are all that w is about.
AllReady(p, w, S) == w \in Seq(Writes) /\ TouchedBy(w) = S /\ \A d \in S : Ready(p, w, d)

\* A folder's documents S move, of which the active ones are among the T that
\* are injected.
LEMMA FolderEnds ==
  ASSUME IInv, NEW p, NEW S \in SUBSET Docs, NEW T \in SUBSET Docs, NEW f \in Folders \union {Root},
         \A d \in S \union T : row[d] # None, \A d \in S : ~row[d].trashed => d \in T,
         \A d \in T : ~row[d].trashed,
         NEW x, x = <<Moved(S, f)>> \o ForEach(T, Injecting)
  PROVE  AllReady(p, x, S \union T)
<1>1. PICK h, y : h = Moved(S, f) /\ y = ForEach(T, Injecting) OBVIOUS
<1>2. EachDone(y, T, [c \in T |-> <<Inject(c)>>]) BY <1>1, EachInjected
<1>3. y \in Seq(Writes) /\ TouchedBy(y) = T BY <1>2 DEF EachDone
<1>4. \A c \in T : \E k \in Nat : Within(<<Inject(c)>>, y, c, k) BY <1>2 DEF EachDone
<1>5. \A d \in S \union T : row[d] \in Meta BY DEF IInv, TypeOK
<1>6. /\ h \in Writes /\ h.do = "rows" /\ DOMAIN h.rows = S /\ Touched(h) = S
      /\ \A d \in S : h.rows[d] = [trashed |-> row[d].trashed, folder |-> f]
  BY <1>1, <1>5, MovedIs
<1>7. PICK v : v = <<h>> OBVIOUS
<1>8. v \in Seq(Writes) /\ TouchedBy(v) = S BY <1>6, <1>7, OneAt
<1>9. x = v \o y BY <1>1, <1>7
<1>10. x \in Seq(Writes)
  <2>1. v \o y \in Seq(Writes) BY <1>3, <1>8
  <2> QED BY <1>9, <2>1
<1>11. TouchedBy(x) = S \union T BY <1>3, <1>8, <1>9, TouchedTogether
<1>12. ASSUME NEW d \in S \union T, Quiet(row[d], disk[d], writer[d], format[d], Shared(d))
       PROVE  EndsWell(p, x, d, row[d], disk[d], writer[d], format[d], Shared(d))
  <2>1. disk[d] # None /\ row[d] \in Meta /\ row[d] # None /\ (row[d].trashed => Shared(d) = {})
    BY <1>5, <1>12 DEF Quiet, Right
  <2>2. d \in S => h.rows[d] \in Meta /\ h.rows[d].trashed = row[d].trashed
    <3> SUFFICES ASSUME d \in S PROVE h.rows[d] \in Meta /\ h.rows[d].trashed = row[d].trashed OBVIOUS
    <3>1. h.rows[d] = [trashed |-> row[d].trashed, folder |-> f] BY <1>6
    <3>2. row[d].trashed \in BOOLEAN BY <2>1 DEF Meta
    <3> QED BY <3>1, <3>2 DEF Meta
  <2>3. CASE d \in S /\ d \in T
    <3>1. PICK k \in Nat : Within(<<Inject(d)>>, y, d, k) BY <1>4, <2>3
    <3>2. EndsWell(p, <<h>> \o y, d, row[d], disk[d], writer[d], format[d], Shared(d))
      BY <1>3, <1>6, <2>1, <2>2, <2>3, <3>1, RowInjectEnds
    <3> QED BY <1>7, <1>9, <3>2
  <2>4. CASE d \in S /\ d \notin T
    <3>1. row[d].trashed BY <2>4
    <3>2. PICK r : r = h.rows[d] OBVIOUS
    <3>3. r \in Meta /\ r.trashed = row[d].trashed /\ r # None BY <2>2, <2>4, <3>2, NoneIs
    <3>4. Quiet(r, disk[d], writer[d], format[d], Shared(d))
      <4>1. Right(row[d], disk[d], writer[d], format[d], Shared(d)) BY <1>12 DEF Quiet
      <4>2. Right(r, disk[d], writer[d], format[d], Shared(d)) BY <2>1, <3>1, <3>3, <4>1 DEF Right
      <4> QED BY <2>1, <3>1, <4>2 DEF Quiet
    <3>5. d \notin TouchedBy(y) BY <1>3, <2>4
    <3>6. EndsWell(p, y, d, r, disk[d], writer[d], format[d], Shared(d)) BY <1>3, <3>3, <3>4, <3>5, QuietIs DEF Values
    <3>7. AtRow(y, d) = {} BY <3>5 DEF AtRow, TouchedBy, Touched
    <3>8. EndsWell(p, <<h>> \o y, d, row[d], disk[d], writer[d], format[d], Shared(d))
      BY <1>3, <1>6, <2>1, <2>4, <3>2, <3>3, <3>6, <3>7, RowFirst
    <3> QED BY <1>7, <1>9, <3>8
  <2>5. CASE d \notin S
    <3>1. d \in T BY <2>5
    <3>2. PICK k \in Nat : Within(<<Inject(d)>>, y, d, k) BY <1>4, <3>1
    <3>3. PICK u : u = <<Inject(d)>> OBVIOUS
    <3>4. u \in Seq(Writes) BY <3>3, InjectIs
    <3>5. Within(u, v \o y, d, k + Len(v)) BY <1>3, <1>8, <2>5, <3>2, <3>3, <3>4, WithinLater
    <3>6. k + Len(v) \in Nat BY <1>8
    <3>7. EndsWell(p, u, d, row[d], disk[d], writer[d], format[d], Shared(d)) BY <2>1, <3>3, InjectEnds
    <3>8. EndsWell(p, v \o y, d, row[d], disk[d], writer[d], format[d], Shared(d))
      BY <1>9, <1>10, <3>4, <3>5, <3>6, <3>7, WithinEnds
    <3> QED BY <1>9, <3>8
  <2> QED BY <2>3, <2>4, <2>5
<1> QED BY <1>10, <1>11, <1>12 DEF Ready, AllReady

\* A cookie at the end.
LEMMA UndoTail ==
  ASSUME NEW x \in Seq(Writes), NEW v \in UndoSet \union {None}, NEW y, y = x \o <<Undo(v)>>
  PROVE  /\ y \in Seq(Writes) /\ TouchedBy(y) = TouchedBy(x)
         /\ \A u \in Seq(Writes) : \A d : \A k \in Nat : Within(u, x, d, k) => Within(u, y, d, k)
<1>1. PICK a, w : a = Undo(v) /\ w = <<a>> OBVIOUS
<1>2. a \in Writes /\ Touched(a) = {} BY <1>1, UndoIs
<1>3. w \in Seq(Writes) /\ TouchedBy(w) = {} BY <1>1, <1>2, OneAt
<1>4. y = x \o w BY <1>1
<1>5. y \in Seq(Writes) BY <1>3, <1>4
<1>6. TouchedBy(y) = TouchedBy(x)
  <2>1. TouchedBy(x \o w) = TouchedBy(x) \union TouchedBy(w) BY <1>3, TouchedTogether
  <2> QED BY <1>3, <1>4, <2>1
<1>7. \A u \in Seq(Writes) : \A d : \A k \in Nat : Within(u, x, d, k) => Within(u, y, d, k)
  <2> SUFFICES ASSUME NEW u \in Seq(Writes), NEW d, NEW k \in Nat, Within(u, x, d, k) PROVE Within(u, y, d, k)
    OBVIOUS
  <2>1. d \notin TouchedBy(w) BY <1>3
  <2>2. Within(u, x \o w, d, k) BY <1>3, <2>1, WithinLater
  <2> QED BY <1>4, <2>2
<1> QED BY <1>5, <1>6, <1>7

\* A folder is renamed or deleted, with or without an undo.
LEMMA FolderKeeps ==
  ASSUME IInv, NEW p \in Procs, NEW S \in SUBSET Docs, NEW T \in SUBSET Docs, NEW f \in Folders \union {Root},
         \A d \in S \union T : row[d] # None, \A d \in S : ~row[d].trashed => d \in T,
         \A d \in T : ~row[d].trashed, NEW v \in UndoSet \union {None}, NEW w,
         \/ w = <<Moved(S, f)>> \o ForEach(T, Injecting)
         \/ w = <<Moved(S, f)>> \o ForEach(T, Injecting) \o <<Undo(v)>>,
         Handles(p, w)
  PROVE  IInv'
<1>1. PICK x : x = <<Moved(S, f)>> \o ForEach(T, Injecting) OBVIOUS
<1>9. AllReady(p, x, S \union T) BY <1>1, FolderEnds
<1>2. x \in Seq(Writes) /\ TouchedBy(x) = S \union T BY <1>9 DEF AllReady
<1>3. \A d \in S \union T : Ready(p, x, d) BY <1>9 DEF AllReady
<1>4. w = x \/ w = x \o <<Undo(v)>> BY <1>1
<1>5. w \in Seq(Writes) /\ TouchedBy(w) = S \union T /\ \A d : Within(x, w, d, 0)
  <2>1. \A d : Within(x, x, d, 0) BY <1>2, WithinSelf
  <2>2. CASE w = x BY <1>2, <2>1, <2>2
  <2>3. CASE w = x \o <<Undo(v)>>
    <3>1. w \in Seq(Writes) /\ TouchedBy(w) = TouchedBy(x) BY <1>2, <2>3, UndoTail
    <3>2. \A u \in Seq(Writes) : \A d : \A k \in Nat : Within(u, x, d, k) => Within(u, w, d, k)
      BY <1>2, <2>3, UndoTail
    <3> QED BY <1>2, <2>1, <3>1, <3>2
  <2> QED BY <1>4, <2>2, <2>3
<1>6. \A d \in TouchedBy(w) : format[d] # None BY <1>5, MadeIs
<1>7. \A d \in TouchedBy(w) \ (doubtful \union {}) :
        Quiet(row[d], disk[d], writer[d], format[d], Shared(d)) =>
          EndsWell(p, w, d, row[d], disk[d], writer[d], format[d], Shared(d))
  <2> SUFFICES ASSUME NEW d \in S \union T, Quiet(row[d], disk[d], writer[d], format[d], Shared(d))
               PROVE  EndsWell(p, w, d, row[d], disk[d], writer[d], format[d], Shared(d))
    BY <1>5
  <2>1. EndsWell(p, x, d, row[d], disk[d], writer[d], format[d], Shared(d)) BY <1>3 DEF Ready
  <2> QED BY <1>2, <1>5, <2>1, WithinEnds
<1>8. Begins(p, w, {}) /\ UNCHANGED format BY DEF Handles
<1> QED BY <1>5, <1>6, <1>7, <1>8, HandleKeeps

\* The renaming of a folder.
LEMMA RenameFolderKeeps ==
  ASSUME IInv, NEW p \in Procs, NEW f \in Folders, NEW g \in Folders, RenamesFolder(p, f, g)
  PROVE  IInv'
<1>1. PICK S, T : S = In(f) /\ T = {d \in In(f) \union In(g) : Active(d)} OBVIOUS
<1>2. S \in SUBSET Docs /\ T \in SUBSET Docs BY <1>1 DEF In
<1>3. \A d \in S \union T : row[d] # None BY <1>1 DEF In
<1>4. (\A d \in S : ~row[d].trashed => d \in T) /\ \A d \in T : ~row[d].trashed BY <1>1 DEF In, Active
<1>5. PICK w : w = <<Moved(S, g)>> \o ForEach(T, Injecting) OBVIOUS
<1>6. Handles(p, w) BY <1>1, <1>5 DEF RenamesFolder
<1>7. None \in UndoSet \union {None} /\ g \in Folders \union {Root} OBVIOUS
<1> QED BY <1>2, <1>3, <1>4, <1>5, <1>6, <1>7, FolderKeeps

\* The deletion of a folder.
LEMMA DeleteFolderKeeps ==
  ASSUME IInv, NEW p \in Procs, NEW f \in Folders, DropsFolder(p, f) \/ (p = "web" /\ DeleteFolder(f))
  PROVE  IInv'
<1>1. PICK S, T : S = In(f) /\ T = {d \in In(f) : Active(d)} OBVIOUS
<1>2. S \in SUBSET Docs /\ T \in SUBSET Docs BY <1>1 DEF In
<1>3. \A d \in S \union T : row[d] # None BY <1>1 DEF In
<1>4. (\A d \in S : ~row[d].trashed => d \in T) /\ \A d \in T : ~row[d].trashed BY <1>1 DEF In, Active
<1>5. PICK v : v = [docs |-> T, folder |-> f] OBVIOUS
<1>6. v \in UndoSet \union {None} /\ Root \in Folders \union {Root} BY <1>2, <1>5 DEF UndoSet
<1>7. CASE DropsFolder(p, f)
  <2>1. PICK w : w = <<Moved(S, Root)>> \o ForEach(T, Injecting) OBVIOUS
  <2>2. Handles(p, w) BY <1>1, <1>7, <2>1 DEF DropsFolder
  <2> QED BY <1>2, <1>3, <1>4, <1>6, <2>1, <2>2, FolderKeeps
<1>8. CASE p = "web" /\ DeleteFolder(f)
  <2>1. PICK w : w = <<Moved(S, Root)>> \o ForEach(T, Injecting) \o <<Undo(v)>> OBVIOUS
  <2>2. Handles(p, w) BY <1>1, <1>5, <1>8, <2>1 DEF DeleteFolder, Does
  <2> QED BY <1>2, <1>3, <1>4, <1>6, <2>1, <2>2, FolderKeeps
<1> QED BY <1>7, <1>8

\* The trash is emptied.
LEMMA EmptyKeeps ==
  ASSUME IInv, EmptyTrash
  PROVE  IInv'
<1>1. PICK S, w : S = {d \in Docs : InTrash(d)} /\ w = ForEach(S, Purging) OBVIOUS
<1>2. S \in SUBSET Docs /\ \A d \in S : row[d] # None BY <1>1 DEF InTrash
<1>3. EachDone(w, S, [c \in S |-> Purging(c)]) BY <1>1, <1>2, EachPurged
<1>4. w \in Seq(Writes) /\ TouchedBy(w) = S BY <1>3 DEF EachDone
<1>5. \A c \in S : \E k \in Nat : Within(Purging(c), w, c, k) BY <1>3 DEF EachDone
<1>6. Begins("web", w, {}) /\ UNCHANGED format BY <1>1 DEF EmptyTrash, Does, Handles
<1>7. "web" \in Procs BY DEF Procs
<1>8. \A d \in TouchedBy(w) : format[d] # None BY <1>2, <1>4, MadeIs
<1>9. \A d \in TouchedBy(w) \ (doubtful \union {}) :
        Quiet(row[d], disk[d], writer[d], format[d], Shared(d)) =>
          EndsWell("web", w, d, row[d], disk[d], writer[d], format[d], Shared(d))
  <2> SUFFICES ASSUME NEW d \in S, Quiet(row[d], disk[d], writer[d], format[d], Shared(d))
               PROVE  EndsWell("web", w, d, row[d], disk[d], writer[d], format[d], Shared(d))
    BY <1>4
  <2>1. PICK u : u = <<Row(d, None), Unlink(d), Revoke(d)>> OBVIOUS
  <2>2. PICK k \in Nat : Within(u, w, d, k) BY <1>5, <2>1 DEF Purging
  <2>3. u \in Seq(Writes)
    <3>1. None \in Values BY DEF Values
    <3>2. Row(d, None) \in Writes /\ Unlink(d) \in Writes /\ Revoke(d) \in Writes BY <1>2, <3>1, RowIs, InjectIs
    <3> QED BY <2>1, <3>2
  <2>4. row[d] # None /\ row[d].trashed => Shared(d) = {} BY DEF Quiet
  <2>5. EndsWell("web", u, d, row[d], disk[d], writer[d], format[d], Shared(d)) BY <1>2, <2>1, <2>4, PurgeEnds
  <2> QED BY <1>4, <2>2, <2>3, <2>5, WithinEnds
<1> QED BY <1>4, <1>6, <1>7, <1>8, <1>9, HandleKeeps

\* The deletion of a folder is undone.
LEMMA UndoKeeps ==
  ASSUME IInv, UndoDeleteFolder
  PROVE  IInv'
<1>1. PICK S, x, w : /\ S = {d \in undo.docs : Active(d)} /\ x = ForEach(S, Returned)
                     /\ w = x \o <<Undo(None)>>
  OBVIOUS
<1>2. undo \in UndoSet BY DEF UndoDeleteFolder, IInv, TypeOK, UndoSet
<1>3. undo.folder \in Folders /\ undo.docs \in SUBSET Docs BY <1>2 DEF UndoSet
<1>4. S \in SUBSET Docs /\ \A d \in S : row[d] # None /\ row[d] \in Meta /\ ~row[d].trashed
  BY <1>1, <1>3 DEF Active, IInv, TypeOK
<1>5. EachDone(x, S, [c \in S |-> Returned(c)]) BY <1>1, <1>3, <1>4, EachReturned
<1>6. x \in Seq(Writes) /\ TouchedBy(x) = S BY <1>5 DEF EachDone
<1>7. \A c \in S : \E k \in Nat : Within(Returned(c), x, c, k) BY <1>5 DEF EachDone
<1>8. w \in Seq(Writes) /\ TouchedBy(w) = TouchedBy(x) BY <1>1, <1>6, UndoTail
<1>9. \A u \in Seq(Writes) : \A d : \A k \in Nat : Within(u, x, d, k) => Within(u, w, d, k) BY <1>1, <1>6, UndoTail
<1>10. Does(ForEach(S, Returned) \o <<Undo(None)>>) BY <1>1 DEF UndoDeleteFolder, Returned, ForEach
<1>11. Begins("web", w, {}) /\ UNCHANGED format BY <1>1, <1>10 DEF Does, Handles
<1>12. "web" \in Procs BY DEF Procs
<1>13. \A d \in TouchedBy(w) : format[d] # None BY <1>4, <1>6, <1>8, MadeIs
<1>14. \A d \in TouchedBy(w) \ (doubtful \union {}) :
         Quiet(row[d], disk[d], writer[d], format[d], Shared(d)) =>
           EndsWell("web", w, d, row[d], disk[d], writer[d], format[d], Shared(d))
  <2> SUFFICES ASSUME NEW d \in S, Quiet(row[d], disk[d], writer[d], format[d], Shared(d))
               PROVE  EndsWell("web", w, d, row[d], disk[d], writer[d], format[d], Shared(d))
    BY <1>6, <1>8
  <2>1. PICK h, u, v : h = Moved({d}, undo.folder) /\ u = <<h, Inject(d)>> /\ v = <<Inject(d)>> OBVIOUS
  <2>2. PICK k \in Nat : Within(u, x, d, k) BY <1>7, <2>1 DEF Returned
  <2>3. /\ h \in Writes /\ h.do = "rows" /\ DOMAIN h.rows = {d}
        /\ h.rows[d] = [trashed |-> row[d].trashed, folder |-> undo.folder]
    <3>1. /\ {d} \in SUBSET Docs /\ (\A c \in {d} : row[c] \in Meta) /\ undo.folder \in Folders \union {Root}
      BY <1>3, <1>4
    <3> QED BY <2>1, <3>1, MovedIs
  <2>4. h.rows[d] \in Meta /\ ~h.rows[d].trashed /\ row[d] # None /\ ~row[d].trashed
    BY <1>3, <1>4, <2>3 DEF Meta
  <2>5. v \in Seq(Writes) /\ u \in Seq(Writes) /\ u = <<h>> \o v BY <1>4, <2>1, <2>3, InjectIs
  <2>6. Within(<<Inject(d)>>, v, d, 0) BY <2>1, <2>5, WithinSelf
  <2>7. disk[d] # None BY <2>4 DEF Quiet, Right
  <2>8. d \in Docs /\ d \in DOMAIN h.rows BY <1>4, <2>3
  <2>9. EndsWell("web", <<h>> \o v, d, row[d], disk[d], writer[d], format[d], Shared(d))
    BY <2>3, <2>4, <2>5, <2>6, <2>7, <2>8, RowInjectEnds
  <2>10. Within(u, w, d, k) BY <1>9, <2>2, <2>5
  <2> QED BY <1>8, <2>5, <2>9, <2>10, WithinEnds
<1> QED BY <1>8, <1>11, <1>12, <1>13, <1>14, HandleKeeps

\* Files are found that have no row.
LEMMA ResyncKeeps ==
  ASSUME IInv, Resync
  PROVE  IInv'
<1>1. PICK S, D, w : /\ S = {d \in Docs : disk[d] # None /\ row[d] = None} /\ w = ForEach(S, FoundHere)
                     /\ D = {d \in S : writer[d] \in {"guest", "blind"}}
  OBVIOUS
<1>2. S \in SUBSET Docs /\ D \in SUBSET Docs /\ \A d \in S : disk[d] \in Meta /\ row[d] = None /\ disk[d] # None
  BY <1>1 DEF IInv, TypeOK
<1>3. EachDone(w, S, [c \in S |-> FoundFor(c, disk[c])]) BY <1>1, <1>2, EachFound
<1>4. w \in Seq(Writes) /\ TouchedBy(w) = S BY <1>3 DEF EachDone
<1>5. \A c \in S : \E k \in Nat : Within(FoundFor(c, disk[c]), w, c, k) BY <1>3 DEF EachDone
<1>6. Begins("web", ForEach(S, FoundHere), D) /\ UNCHANGED format BY <1>1 DEF Resync, FoundHere, FoundFor, ForEach
<1>7. Begins("web", w, D) /\ UNCHANGED format BY <1>1, <1>6
<1>8. "web" \in Procs BY DEF Procs
<1>9. \A d \in TouchedBy(w) : format[d] # None BY <1>2, <1>4, MadeIs
<1>10. \A d \in TouchedBy(w) \ (doubtful \union D) :
         Quiet(row[d], disk[d], writer[d], format[d], Shared(d)) =>
           EndsWell("web", w, d, row[d], disk[d], writer[d], format[d], Shared(d))
  <2> SUFFICES ASSUME NEW d \in S \ D, Quiet(row[d], disk[d], writer[d], format[d], Shared(d))
               PROVE  EndsWell("web", w, d, row[d], disk[d], writer[d], format[d], Shared(d))
    BY <1>4
  <2>1. writer[d] \in {"request", "owner"} BY <1>1, <1>2 DEF IInv, TypeOK
  <2>7. PICK u : u = FoundFor(d, disk[d]) OBVIOUS
  <2>2. PICK k \in Nat : Within(u, w, d, k) BY <1>5, <2>7
  <2>3. u \in Seq(Writes) BY <1>2, <2>7, FoundIs
  <2>4. Quiet(None, disk[d], writer[d], format[d], Shared(d)) BY <1>2
  <2>5. EndsWell("web", FoundFor(d, disk[d]), d, None, disk[d], writer[d], format[d], Shared(d))
    BY <1>2, <2>1, <2>4, FoundEnds
  <2>6. EndsWell("web", u, d, row[d], disk[d], writer[d], format[d], Shared(d)) BY <1>2, <2>5, <2>7
  <2> QED BY <1>4, <2>2, <2>3, <2>6, WithinEnds
<1> QED BY <1>4, <1>7, <1>8, <1>9, <1>10, <1>2, HandleKeeps

-----------------------------------------------------------------------------
(* The writes *)

\* A process does its next write.
LEMMA StepKeeps ==
  ASSUME IInv, NEW p \in Procs, NEW w, w = todo[p], w # <<>>, todo' = [todo EXCEPT ![p] = Tail(w)], TypeOK',
         UNCHANGED <<format, doubtful, editor>>, \A s \in Shares : share'[s].doc = share[s].doc,
         \A d \in Docs : d \notin Touched(w[1]) =>
           row'[d] = row[d] /\ disk'[d] = disk[d] /\ writer'[d] = writer[d] /\ Shared(d)' = Shared(d),
         \A d \in Docs : d \in Touched(w[1]) /\ EndsWell(p, w, d, row[d], disk[d], writer[d], format[d], Shared(d)) =>
           EndsWell(p, Tail(w), d, row'[d], disk'[d], writer'[d], format[d], Shared(d)')
  PROVE  IInv'
<1>1. w \in Seq(Writes) BY DEF IInv, TodoType
<1>2. PICK q : q = Other(p) OBVIOUS
<1>3. q \in Procs /\ q # p /\ \A o \in Procs : o = p \/ o = q BY <1>2, OtherIs
<1>4. Other(q) = p /\ Other(p) = q BY <1>2 DEF Procs, Other
<1>5. todo'[p] = Tail(w) /\ todo'[q] = todo[q] BY <1>3 DEF IInv, TodoType
<1>6. Tail(w) \in Seq(Writes) /\ 1 \in DOMAIN w BY <1>1, TailIs
<1>7. TodoType'
  <2>1. todo' \in [Procs -> Seq(Writes)] BY <1>6 DEF IInv, TodoType
  <2> QED BY <2>1 DEF TodoType
<1>8. TouchedBy(w) = Touched(w[1]) \union TouchedBy(Tail(w))
  <2>1. /\ \A i : i \in DOMAIN Tail(w) <=> i \in Nat \ {0} /\ i + 1 \in DOMAIN w
        /\ \A i \in DOMAIN Tail(w) : Tail(w)[i] = w[i + 1]
    BY <1>1, TailIs
  <2>2. \A i \in DOMAIN w : i = 1 \/ (i - 1 \in DOMAIN Tail(w) /\ w[i] = Tail(w)[i - 1])
    <3> SUFFICES ASSUME NEW i \in DOMAIN w, i # 1 PROVE i - 1 \in DOMAIN Tail(w) /\ w[i] = Tail(w)[i - 1] OBVIOUS
    <3>1. DOMAIN w \subseteq Nat \ {0} BY <1>1
    <3>2. i - 1 \in Nat \ {0} /\ (i - 1) + 1 = i BY <3>1
    <3>3. i - 1 \in DOMAIN Tail(w) BY <2>1, <3>2
    <3>4. Tail(w)[i - 1] = w[(i - 1) + 1] BY <2>1, <3>3
    <3> QED BY <3>2, <3>3, <3>4
  <2>3. \A d \in TouchedBy(w) : d \in Touched(w[1]) \/ d \in TouchedBy(Tail(w))
    <3>0. \A d \in TouchedBy(w) : \E i \in DOMAIN w : d \in Touched(w[i]) BY DEF TouchedBy
    <3> SUFFICES ASSUME NEW i \in DOMAIN w, NEW d \in Touched(w[i])
                 PROVE  d \in Touched(w[1]) \/ d \in TouchedBy(Tail(w))
      BY <3>0
    <3>1. CASE i = 1 BY <3>1
    <3>2. CASE i # 1
      <4>1. i - 1 \in DOMAIN Tail(w) /\ d \in Touched(Tail(w)[i - 1]) BY <2>2, <3>2
      <4> QED BY <4>1 DEF TouchedBy
    <3> QED BY <3>1, <3>2
  <2>4. Touched(w[1]) \subseteq TouchedBy(w) BY <1>6 DEF TouchedBy
  <2>5. TouchedBy(Tail(w)) \subseteq TouchedBy(w)
    <3>0. \A d \in TouchedBy(Tail(w)) : \E i \in DOMAIN Tail(w) : d \in Touched(Tail(w)[i]) BY DEF TouchedBy
    <3> SUFFICES ASSUME NEW i \in DOMAIN Tail(w), NEW d \in Touched(Tail(w)[i]) PROVE d \in TouchedBy(w)
      BY <3>0
    <3>1. i + 1 \in DOMAIN w /\ d \in Touched(w[i + 1]) BY <2>1
    <3> QED BY <3>1 DEF TouchedBy
  <2> QED BY <2>3, <2>4, <2>5
<1>9. Apart'
  <2> SUFFICES ASSUME NEW d \in Docs, \A o \in Procs : d \in TouchedBy(todo'[o]) PROVE d \in doubtful'
    BY DEF Apart
  <2>1. d \in TouchedBy(w) /\ d \in TouchedBy(todo[q]) BY <1>3, <1>5, <1>8
  <2>2. \A o \in Procs : d \in TouchedBy(todo[o]) BY <1>3, <2>1
  <2> QED BY <2>2 DEF IInv, Apart
<1>10. Unmade'
  <2> SUFFICES ASSUME NEW d \in Docs, format'[d] = None
               PROVE  /\ row'[d] = None /\ disk'[d] = None /\ d \notin editor'
                      /\ \A o \in Procs : d \notin TouchedBy(todo'[o])
                      /\ \A s \in Shares : share'[s].doc # d
    BY DEF Unmade
  <2>1. /\ row[d] = None /\ disk[d] = None /\ d \notin editor /\ \A o \in Procs : d \notin TouchedBy(todo[o])
        /\ \A s \in Shares : share[s].doc # d
    BY DEF IInv, Unmade
  <2>2. d \notin TouchedBy(w) /\ d \notin TouchedBy(todo[q]) BY <1>3, <2>1
  <2>3. \A o \in Procs : d \notin TouchedBy(todo'[o]) BY <1>3, <1>5, <1>8, <2>2
  <2>4. d \notin Touched(w[1]) BY <1>8, <2>2
  <2> QED BY <2>1, <2>3, <2>4
<1>11. Ends'
  <2> SUFFICES ASSUME NEW d \in Docs \ doubtful', NEW o \in Procs, d \notin TouchedBy(todo'[Other(o)])
               PROVE  EndsWell(o, todo'[o], d, row'[d], disk'[d], writer'[d], format'[d], Shared(d)')
    BY DEF Ends
  <2>1. d \notin doubtful /\ format'[d] = format[d] OBVIOUS
  <2>2. ASSUME d \notin TouchedBy(todo[q])
        PROVE  EndsWell(p, Tail(w), d, row'[d], disk'[d], writer'[d], format[d], Shared(d)')
    <3>1. EndsWell(p, w, d, row[d], disk[d], writer[d], format[d], Shared(d)) BY <1>4, <2>1, <2>2 DEF IInv, Ends
    <3>2. CASE d \in Touched(w[1]) BY <3>1, <3>2
    <3>3. CASE d \notin Touched(w[1])
      <4>1. EndsWell(p, Tail(w), d, row[d], disk[d], writer[d], format[d], Shared(d))
        BY <1>1, <3>1, <3>3, Elsewhere
      <4> QED BY <3>3, <4>1
    <3> QED BY <3>2, <3>3
  <2>3. CASE o = p BY <1>4, <1>5, <2>1, <2>2, <2>3
  <2>4. CASE o = q
    <3>1. d \notin TouchedBy(Tail(w)) BY <1>4, <1>5, <2>4
    <3>2. CASE d \in Touched(w[1])
      <4>1. d \in TouchedBy(w) BY <1>8, <3>2
      <4>2. d \notin TouchedBy(todo[q]) BY <1>3, <2>1, <4>1 DEF IInv, Apart
      <4>3. EndsWell(p, Tail(w), d, row'[d], disk'[d], writer'[d], format[d], Shared(d)') BY <2>2, <4>2
      <4>4. row'[d] \in Values BY DEF TypeOK, Values
      <4>5. Quiet(row'[d], disk'[d], writer'[d], format[d], Shared(d)') BY <1>6, <3>1, <4>3, <4>4, QuietIs
      <4>6. todo[q] \in Seq(Writes) BY <1>3 DEF IInv, TodoType
      <4>7. EndsWell(q, todo[q], d, row'[d], disk'[d], writer'[d], format[d], Shared(d)')
        BY <4>2, <4>4, <4>5, <4>6, QuietIs
      <4> QED BY <1>5, <2>1, <2>4, <4>7
    <3>3. CASE d \notin Touched(w[1])
      <4>1. d \notin TouchedBy(todo[p]) BY <1>8, <3>1, <3>3
      <4>2. EndsWell(q, todo[q], d, row[d], disk[d], writer[d], format[d], Shared(d))
        BY <1>3, <1>4, <2>1, <4>1 DEF IInv, Ends
      <4> QED BY <1>5, <2>1, <2>4, <3>3, <4>2
    <3> QED BY <3>2, <3>3
  <2> QED BY <1>3, <2>3, <2>4
<1> QED BY <1>7, <1>9, <1>10, <1>11 DEF IInv

\* What the next write is.
LEMMA NextIs ==
  ASSUME IInv, NEW p \in Procs, NEW do, Next1(p, do)
  PROVE  /\ todo[p] # <<>> /\ todo[p] \in Seq(Writes) /\ Head(todo[p]) = todo[p][1] /\ todo[p][1] \in Writes
         /\ todo[p][1].do = do /\ todo' = [todo EXCEPT ![p] = Tail(todo[p])]
<1>1. todo[p] # <<>> /\ todo[p] \in Seq(Writes) BY DEF Next1, IInv, TodoType
<1>2. Head(todo[p]) = todo[p][1] /\ todo[p][1] \in Writes BY <1>1, TailIs
<1> QED BY <1>1, <1>2 DEF Next1

\* Rows.
LEMMA RowsKeep ==
  ASSUME IInv, NEW p \in Procs, WriteRows(p)
  PROVE  IInv'
<1>1. PICK w : w = todo[p] OBVIOUS
<1>2. /\ w # <<>> /\ w \in Seq(Writes) /\ Head(w) = w[1] /\ w[1] \in Writes
      /\ w[1].do = "rows" /\ todo' = [todo EXCEPT ![p] = Tail(w)]
  BY <1>1, NextIs DEF WriteRows
<1>3. DOMAIN w[1].rows \subseteq Docs /\ \A d \in DOMAIN w[1].rows : w[1].rows[d] \in Values BY <1>2, WriteIs
<1>4. row' = [d \in Docs |-> IF d \in DOMAIN w[1].rows THEN w[1].rows[d] ELSE row[d]]
  BY <1>1, <1>2 DEF WriteRows
<1>5. UNCHANGED <<disk, share, editor, guests, undo, enabled, format, writer, doubtful>>
  BY DEF WriteRows, tokens, ghosts
<1>6. TypeOK' BY <1>3, <1>4, <1>5 DEF IInv, TypeOK, Values
<1>7. Touched(w[1]) = DOMAIN w[1].rows BY <1>2 DEF Touched
<1>8. \A d : Shared(d)' = Shared(d) BY <1>5 DEF Shared
<1>9. \A d \in Docs : d \notin Touched(w[1]) =>
        row'[d] = row[d] /\ disk'[d] = disk[d] /\ writer'[d] = writer[d] /\ Shared(d)' = Shared(d)
  BY <1>4, <1>5, <1>7, <1>8
<1>10. \A d \in Docs : d \in Touched(w[1]) /\ EndsWell(p, w, d, row[d], disk[d], writer[d], format[d], Shared(d)) =>
         EndsWell(p, Tail(w), d, row'[d], disk'[d], writer'[d], format[d], Shared(d)')
  <2> SUFFICES ASSUME NEW d \in Docs, d \in Touched(w[1]),
                      EndsWell(p, w, d, row[d], disk[d], writer[d], format[d], Shared(d))
               PROVE  EndsWell(p, Tail(w), d, row'[d], disk'[d], writer'[d], format[d], Shared(d)')
    OBVIOUS
  <2>1. EndsWell(p, Tail(w), d, w[1].rows[d], disk[d], writer[d], format[d], Shared(d)) BY <1>2, <1>7, RowWritten
  <2>2. row'[d] = w[1].rows[d] BY <1>4, <1>7
  <2> QED BY <1>5, <1>8, <2>1, <2>2
<1>11. \A s \in Shares : share'[s].doc = share[s].doc BY <1>5
<1> QED BY <1>1, <1>2, <1>5, <1>6, <1>9, <1>10, <1>11, StepKeeps

\* A file's content.
LEMMA ContentKeeps ==
  ASSUME IInv, NEW p \in Procs, WriteContent(p)
  PROVE  IInv'
<1>1. PICK w : w = todo[p] OBVIOUS
<1>2. /\ w # <<>> /\ w \in Seq(Writes) /\ Head(w) = w[1] /\ w[1] \in Writes
      /\ w[1].do = "content" /\ todo' = [todo EXCEPT ![p] = Tail(w)]
  BY <1>1, NextIs DEF WriteContent
<1>12. PICK c : c = w[1].doc OBVIOUS
<1>3. c \in Docs /\ w[1].meta \in Meta /\ w[1].by \in {"request", "blind"} BY <1>2, <1>12, WriteIs
<1>4. /\ disk' = [disk EXCEPT ![c] = IF format[c] = "other" /\ disk[c] # None THEN disk[c] ELSE w[1].meta]
      /\ writer' = [writer EXCEPT ![c] = w[1].by]
  BY <1>1, <1>2, <1>12 DEF WriteContent, Saved
<1>5. UNCHANGED <<row, share, editor, guests, undo, enabled, format, doubtful>>
  BY DEF WriteContent, tokens
<1>6. TypeOK' BY <1>3, <1>4, <1>5 DEF IInv, TypeOK
<1>7. Touched(w[1]) = {c} BY <1>2, <1>12 DEF Touched
<1>8. \A d : Shared(d)' = Shared(d) BY <1>5 DEF Shared
<1>9. \A d \in Docs : d \notin Touched(w[1]) =>
        row'[d] = row[d] /\ disk'[d] = disk[d] /\ writer'[d] = writer[d] /\ Shared(d)' = Shared(d)
  BY <1>4, <1>5, <1>7, <1>8 DEF IInv, TypeOK
<1>10. \A d \in Docs : d \in Touched(w[1]) /\ EndsWell(p, w, d, row[d], disk[d], writer[d], format[d], Shared(d)) =>
         EndsWell(p, Tail(w), d, row'[d], disk'[d], writer'[d], format[d], Shared(d)')
  <2> SUFFICES ASSUME EndsWell(p, w, c, row[c], disk[c], writer[c], format[c], Shared(c))
               PROVE  EndsWell(p, Tail(w), c, row'[c], disk'[c], writer'[c], format[c], Shared(c)')
    BY <1>7
  <2>1. PICK n : n = IF format[c] = "other" /\ disk[c] # None THEN disk[c] ELSE w[1].meta OBVIOUS
  <2>2. EndsWell(p, Tail(w), c, row[c], n, w[1].by, format[c], Shared(c)) BY <1>2, <1>12, <2>1, ContentWritten
  <2>3. disk'[c] = n /\ writer'[c] = w[1].by BY <1>3, <1>4, <2>1 DEF IInv, TypeOK
  <2> QED BY <1>5, <1>8, <2>2, <2>3
<1>11. \A s \in Shares : share'[s].doc = share[s].doc BY <1>5
<1> QED BY <1>1, <1>2, <1>5, <1>6, <1>9, <1>10, <1>11, StepKeeps

\* A file's metadata.
LEMMA MetaKeeps ==
  ASSUME IInv, NEW p \in Procs, WriteMeta(p)
  PROVE  IInv'
<1>1. PICK w : w = todo[p] OBVIOUS
<1>2. /\ w # <<>> /\ w \in Seq(Writes) /\ Head(w) = w[1] /\ w[1] \in Writes
      /\ w[1].do = "inject" /\ todo' = [todo EXCEPT ![p] = Tail(w)]
  BY <1>1, NextIs DEF WriteMeta
<1>12. PICK c : c = w[1].doc OBVIOUS
<1>3. c \in Docs BY <1>2, <1>12, WriteIs
<1>4. /\ disk' = [disk EXCEPT ![c] = IF disk[c] = None THEN None ELSE row[c]]
      /\ writer' = [writer EXCEPT ![c] = "request"]
  BY <1>1, <1>2, <1>12 DEF WriteMeta
<1>5. UNCHANGED <<row, share, editor, guests, undo, enabled, format, doubtful>> BY DEF WriteMeta, tokens
<1>6. TypeOK' BY <1>3, <1>4, <1>5 DEF IInv, TypeOK
<1>7. Touched(w[1]) = {c} BY <1>2, <1>12 DEF Touched
<1>8. \A d : Shared(d)' = Shared(d) BY <1>5 DEF Shared
<1>9. \A d \in Docs : d \notin Touched(w[1]) =>
        row'[d] = row[d] /\ disk'[d] = disk[d] /\ writer'[d] = writer[d] /\ Shared(d)' = Shared(d)
  BY <1>4, <1>5, <1>7, <1>8 DEF IInv, TypeOK
<1>10. \A d \in Docs : d \in Touched(w[1]) /\ EndsWell(p, w, d, row[d], disk[d], writer[d], format[d], Shared(d)) =>
         EndsWell(p, Tail(w), d, row'[d], disk'[d], writer'[d], format[d], Shared(d)')
  <2> SUFFICES ASSUME EndsWell(p, w, c, row[c], disk[c], writer[c], format[c], Shared(c))
               PROVE  EndsWell(p, Tail(w), c, row'[c], disk'[c], writer'[c], format[c], Shared(c)')
    BY <1>7
  <2>1. PICK n : n = IF disk[c] = None THEN None ELSE row[c] OBVIOUS
  <2>2. EndsWell(p, Tail(w), c, row[c], n, "request", format[c], Shared(c)) BY <1>2, <1>12, <2>1, MetaWritten
  <2>3. disk'[c] = n /\ writer'[c] = "request" BY <1>3, <1>4, <2>1 DEF IInv, TypeOK
  <2> QED BY <1>5, <1>8, <2>2, <2>3
<1>11. \A s \in Shares : share'[s].doc = share[s].doc BY <1>5
<1> QED BY <1>1, <1>2, <1>5, <1>6, <1>9, <1>10, <1>11, StepKeeps

\* A file goes.
LEMMA FileKeeps ==
  ASSUME IInv, NEW p \in Procs, DeleteFile(p)
  PROVE  IInv'
<1>1. PICK w : w = todo[p] OBVIOUS
<1>2. /\ w # <<>> /\ w \in Seq(Writes) /\ Head(w) = w[1] /\ w[1] \in Writes
      /\ w[1].do = "unlink" /\ todo' = [todo EXCEPT ![p] = Tail(w)]
  BY <1>1, NextIs DEF DeleteFile
<1>12. PICK c : c = w[1].doc OBVIOUS
<1>3. c \in Docs BY <1>2, <1>12, WriteIs
<1>4. disk' = [disk EXCEPT ![c] = None] BY <1>1, <1>2, <1>12 DEF DeleteFile
<1>5. UNCHANGED <<row, share, editor, guests, undo, enabled, format, writer, doubtful>>
  BY DEF DeleteFile, tokens, ghosts
<1>6. TypeOK' BY <1>3, <1>4, <1>5 DEF IInv, TypeOK
<1>7. Touched(w[1]) = {c} BY <1>2, <1>12 DEF Touched
<1>8. \A d : Shared(d)' = Shared(d) BY <1>5 DEF Shared
<1>9. \A d \in Docs : d \notin Touched(w[1]) =>
        row'[d] = row[d] /\ disk'[d] = disk[d] /\ writer'[d] = writer[d] /\ Shared(d)' = Shared(d)
  BY <1>4, <1>5, <1>7, <1>8 DEF IInv, TypeOK
<1>10. \A d \in Docs : d \in Touched(w[1]) /\ EndsWell(p, w, d, row[d], disk[d], writer[d], format[d], Shared(d)) =>
         EndsWell(p, Tail(w), d, row'[d], disk'[d], writer'[d], format[d], Shared(d)')
  <2> SUFFICES ASSUME EndsWell(p, w, c, row[c], disk[c], writer[c], format[c], Shared(c))
               PROVE  EndsWell(p, Tail(w), c, row'[c], disk'[c], writer'[c], format[c], Shared(c)')
    BY <1>7
  <2>1. EndsWell(p, Tail(w), c, row[c], None, writer[c], format[c], Shared(c)) BY <1>2, <1>12, FileDeleted
  <2>2. disk'[c] = None BY <1>3, <1>4 DEF IInv, TypeOK
  <2> QED BY <1>5, <1>8, <2>1, <2>2
<1>11. \A s \in Shares : share'[s].doc = share[s].doc BY <1>5
<1> QED BY <1>1, <1>2, <1>5, <1>6, <1>9, <1>10, <1>11, StepKeeps

\* The shares go.
LEMMA RevokeKeeps ==
  ASSUME IInv, NEW p \in Procs, RevokeAll(p)
  PROVE  IInv'
<1>1. PICK w : w = todo[p] OBVIOUS
<1>2. /\ w # <<>> /\ w \in Seq(Writes) /\ Head(w) = w[1] /\ w[1] \in Writes
      /\ w[1].do = "revoke" /\ todo' = [todo EXCEPT ![p] = Tail(w)]
  BY <1>1, NextIs DEF RevokeAll
<1>12. PICK c : c = w[1].doc OBVIOUS
<1>3. c \in Docs BY <1>2, <1>12, WriteIs
<1>13. share \in [Shares -> [doc : Docs \union {None}, active : BOOLEAN]] BY DEF IInv, TypeOK
<1>4. share' = [s \in Shares |-> IF share[s].doc = c THEN [share[s] EXCEPT !.active = FALSE] ELSE share[s]]
  BY <1>1, <1>2, <1>12 DEF RevokeAll
<1>14. \A s \in Shares : /\ share'[s].doc = share[s].doc
                         /\ share'[s].active <=> share[s].active /\ share[s].doc # c
                         /\ share'[s] \in [doc : Docs \union {None}, active : BOOLEAN]
  BY <1>4, <1>13
<1>5. UNCHANGED <<row, disk, editor, guests, undo, enabled, format, writer, doubtful>>
  BY DEF RevokeAll, tokens, ghosts
<1>6. TypeOK'
  <2>1. share' \in [Shares -> [doc : Docs \union {None}, active : BOOLEAN]] BY <1>4, <1>14
  <2> QED BY <1>5, <2>1 DEF IInv, TypeOK
<1>7. Touched(w[1]) = {c} BY <1>2, <1>12 DEF Touched
<1>8. \A d : d # c => Shared(d)' = Shared(d) BY <1>14 DEF Shared
<1>15. Shared(c)' = {} BY <1>14 DEF Shared
<1>9. \A d \in Docs : d \notin Touched(w[1]) =>
        row'[d] = row[d] /\ disk'[d] = disk[d] /\ writer'[d] = writer[d] /\ Shared(d)' = Shared(d)
  BY <1>5, <1>7, <1>8
<1>10. \A d \in Docs : d \in Touched(w[1]) /\ EndsWell(p, w, d, row[d], disk[d], writer[d], format[d], Shared(d)) =>
         EndsWell(p, Tail(w), d, row'[d], disk'[d], writer'[d], format[d], Shared(d)')
  <2> SUFFICES ASSUME EndsWell(p, w, c, row[c], disk[c], writer[c], format[c], Shared(c))
               PROVE  EndsWell(p, Tail(w), c, row'[c], disk'[c], writer'[c], format[c], Shared(c)')
    BY <1>7
  <2>1. EndsWell(p, Tail(w), c, row[c], disk[c], writer[c], format[c], {}) BY <1>2, <1>12, SharesRevoked
  <2> QED BY <1>5, <1>15, <2>1
<1> QED BY <1>1, <1>2, <1>5, <1>6, <1>9, <1>10, <1>14, StepKeeps

\* The cookie.
LEMMA CookieKeeps ==
  ASSUME IInv, NEW p \in Procs, WriteUndo(p)
  PROVE  IInv'
<1>1. PICK w : w = todo[p] OBVIOUS
<1>2. /\ w # <<>> /\ w \in Seq(Writes) /\ Head(w) = w[1] /\ w[1] \in Writes
      /\ w[1].do = "undo" /\ todo' = [todo EXCEPT ![p] = Tail(w)]
  BY <1>1, NextIs DEF WriteUndo
<1>3. w[1].undo \in UndoSet \union {None} BY <1>2, WriteIs
<1>4. undo' = w[1].undo BY <1>1, <1>2 DEF WriteUndo
<1>5. UNCHANGED <<row, disk, share, editor, guests, enabled, format, writer, doubtful>>
  BY DEF WriteUndo, tokens, ghosts
<1>6. TypeOK' BY <1>3, <1>4, <1>5 DEF IInv, TypeOK, UndoSet
<1>7. Touched(w[1]) = {} BY <1>2 DEF Touched
<1>8. \A d : Shared(d)' = Shared(d) BY <1>5 DEF Shared
<1>9. \A d \in Docs : d \notin Touched(w[1]) =>
        row'[d] = row[d] /\ disk'[d] = disk[d] /\ writer'[d] = writer[d] /\ Shared(d)' = Shared(d)
  BY <1>5, <1>8
<1>10. \A d \in Docs : d \in Touched(w[1]) /\ EndsWell(p, w, d, row[d], disk[d], writer[d], format[d], Shared(d)) =>
         EndsWell(p, Tail(w), d, row'[d], disk'[d], writer'[d], format[d], Shared(d)')
  BY <1>7
<1>11. \A s \in Shares : share'[s].doc = share[s].doc BY <1>5
<1> QED BY <1>1, <1>2, <1>5, <1>6, <1>9, <1>10, <1>11, StepKeeps

-----------------------------------------------------------------------------
(* What happens beside the writes *)

\* A process ends within a handler.
LEMMA CrashKeeps ==
  ASSUME IInv, NEW p \in Procs, Crash(p)
  PROVE  IInv'
<1>1. /\ todo' = [todo EXCEPT ![p] = <<>>] /\ doubtful' = doubtful \union TouchedBy(todo[p])
      /\ UNCHANGED <<row, disk, share, editor, guests, undo, enabled, format, writer>>
  BY DEF Crash, tokens
<1>2. PICK q : q = Other(p) OBVIOUS
<1>3. q \in Procs /\ q # p /\ \A o \in Procs : o = p \/ o = q BY <1>2, OtherIs
<1>4. Other(q) = p /\ Other(p) = q BY <1>2 DEF Procs, Other
<1>5. todo[p] \in Seq(Writes) /\ <<>> \in Seq(Writes) BY DEF IInv, TodoType
<1>6. TouchedBy(<<>>) = {} BY DEF TouchedBy
<1>7. todo'[p] = <<>> /\ todo'[q] = todo[q] BY <1>1, <1>3 DEF IInv, TodoType
<1>8. TypeOK' /\ TodoType'
  <2>1. TouchedBy(todo[p]) \subseteq Docs BY <1>5, TouchedDocs
  <2>2. TodoType' BY <1>1, <1>5 DEF IInv, TodoType
  <2> QED BY <1>1, <2>1, <2>2 DEF IInv, TypeOK
<1>9. Apart' BY <1>3, <1>6, <1>7 DEF Apart
<1>10. Unmade' BY <1>1, <1>3, <1>6, <1>7 DEF IInv, Unmade
<1>11. \A d : Shared(d)' = Shared(d) BY <1>1 DEF Shared
<1>12. Ends'
  <2> SUFFICES ASSUME NEW d \in Docs \ doubtful', NEW o \in Procs, d \notin TouchedBy(todo'[Other(o)])
               PROVE  EndsWell(o, todo'[o], d, row'[d], disk'[d], writer'[d], format'[d], Shared(d)')
    BY DEF Ends
  <2>1. d \notin doubtful /\ d \notin TouchedBy(todo[p]) BY <1>1
  <2>2. CASE o = q
    <3>1. EndsWell(q, todo[q], d, row[d], disk[d], writer[d], format[d], Shared(d))
      BY <1>3, <1>4, <2>1 DEF IInv, Ends
    <3> QED BY <1>1, <1>7, <1>11, <2>2, <3>1
  <2>3. CASE o = p
    <3>1. d \notin TouchedBy(todo[Other(p)]) BY <1>4, <1>7, <2>3
    <3>2. Quiet(row[d], disk[d], writer[d], format[d], Shared(d)) BY <2>1, <3>1, QuietWhenIdle
    <3>3. row[d] \in Values BY DEF IInv, TypeOK, Values
    <3>4. EndsWell(p, <<>>, d, row[d], disk[d], writer[d], format[d], Shared(d))
      BY <1>5, <1>6, <3>2, <3>3, QuietIs
    <3> QED BY <1>1, <1>7, <1>11, <2>3, <3>4
  <2> QED BY <1>3, <2>2, <2>3
<1> QED BY <1>8, <1>9, <1>10, <1>12 DEF IInv

\* The cache is lost: what is quiet stays so.
LEMMA ResetKeeps ==
  ASSUME IInv, Reset
  PROVE  IInv'
<1>1. /\ row' = [d \in Docs |-> None] /\ doubtful' = doubtful \union Pending
      /\ UNCHANGED <<disk, share, editor, guests, undo, enabled, format, todo, writer>>
  BY DEF Reset, tokens
<1>2. Pending \subseteq Docs
  <2>1. \A p \in Procs : TouchedBy(todo[p]) \subseteq Docs BY TouchedDocs DEF IInv, TodoType
  <2> QED BY <2>1 DEF Pending
<1>3. TypeOK' /\ TodoType' BY <1>1, <1>2 DEF IInv, TypeOK, TodoType
<1>4. Apart' /\ Unmade' BY <1>1 DEF IInv, Apart, Unmade
<1>5. \A d : Shared(d)' = Shared(d) BY <1>1 DEF Shared
<1>6. Ends'
  <2> SUFFICES ASSUME NEW d \in Docs \ doubtful', NEW p \in Procs, d \notin TouchedBy(todo'[Other(p)])
               PROVE  EndsWell(p, todo'[p], d, row'[d], disk'[d], writer'[d], format'[d], Shared(d)')
    BY DEF Ends
  <2>1. d \notin doubtful /\ \A o \in Procs : d \notin TouchedBy(todo[o]) BY <1>1 DEF Pending
  <2>2. Quiet(row[d], disk[d], writer[d], format[d], Shared(d)) BY <2>1, OtherIs, QuietWhenIdle
  <2>3. Quiet(None, disk[d], writer[d], format[d], Shared(d))
    <3>1. Right(row[d], disk[d], writer[d], format[d], Shared(d)) BY <2>2 DEF Quiet
    <3>2. row[d] # None /\ row[d].trashed => Shared(d) = {} BY <2>2 DEF Quiet
    <3> QED BY <3>1, <3>2 DEF Quiet, Right
  <2>4. None \in Values /\ todo[p] \in Seq(Writes) BY DEF Values, IInv, TodoType
  <2>5. EndsWell(p, todo[p], d, None, disk[d], writer[d], format[d], Shared(d)) BY <2>1, <2>3, <2>4, QuietIs
  <2> QED BY <1>1, <1>5, <2>5
<1> QED BY <1>3, <1>4, <1>6 DEF IInv

\* Something changes while the web process is idle, for which the writes of
\* the other process are ready.
LEMMA MeanwhileKeeps ==
  ASSUME IInv, Idle("web"), UNCHANGED <<format, todo, doubtful>>, TypeOK',
         \A d \in Docs : format[d] = None =>
           /\ row'[d] = row[d] /\ disk'[d] = disk[d] /\ d \notin editor' /\ \A s \in Shares : share'[s].doc # d,
         \A d \in Docs \ doubtful :
           EndsWell("mcp", todo["mcp"], d, row[d], disk[d], writer[d], format[d], Shared(d)) =>
             EndsWell("mcp", todo["mcp"], d, row'[d], disk'[d], writer'[d], format[d], Shared(d)')
  PROVE  IInv'
<1>1. "web" \in Procs /\ "mcp" \in Procs /\ Other("mcp") = "web" /\ Other("web") = "mcp"
  BY DEF Procs, Other
<1>2. todo["web"] = <<>> /\ TouchedBy(todo["web"]) = {} BY DEF Idle, TouchedBy
<1>3. TodoType' /\ Apart' BY DEF IInv, TodoType, Apart
<1>4. Unmade' BY DEF IInv, Unmade
<1>5. ASSUME NEW d \in Docs, d \notin doubtful
      PROVE  EndsWell("mcp", todo["mcp"], d, row'[d], disk'[d], writer'[d], format[d], Shared(d)')
  <2>1. EndsWell("mcp", todo["mcp"], d, row[d], disk[d], writer[d], format[d], Shared(d))
    BY <1>1, <1>2, <1>5 DEF IInv, Ends
  <2> QED BY <1>5, <2>1
<1>6. ASSUME NEW d \in Docs, d \notin doubtful, d \notin TouchedBy(todo["mcp"])
      PROVE  EndsWell("web", todo["web"], d, row'[d], disk'[d], writer'[d], format[d], Shared(d)')
  <2>1. row'[d] \in Values BY DEF TypeOK, Values
  <2>2. todo["mcp"] \in Seq(Writes) /\ todo["web"] \in Seq(Writes) BY <1>1 DEF IInv, TodoType
  <2>3. Quiet(row'[d], disk'[d], writer'[d], format[d], Shared(d)') BY <1>5, <1>6, <2>1, <2>2, QuietIs
  <2> QED BY <1>2, <2>1, <2>2, <2>3, QuietIs
<1>7. Ends'
  <2> SUFFICES ASSUME NEW d \in Docs \ doubtful', NEW p \in Procs, d \notin TouchedBy(todo'[Other(p)])
               PROVE  EndsWell(p, todo'[p], d, row'[d], disk'[d], writer'[d], format'[d], Shared(d)')
    BY DEF Ends
  <2>1. CASE p = "mcp" BY <1>5, <2>1
  <2>2. CASE p = "web" BY <1>1, <1>6, <2>2
  <2> QED BY <2>1, <2>2 DEF Procs
<1> QED BY <1>3, <1>4, <1>7 DEF IInv

\* A new share.
LEMMA AddShareKeeps ==
  ASSUME IInv, NEW s \in Shares, NEW d \in Docs, AddShare(s, d)
  PROVE  IInv'
<1>1. /\ Idle("web") /\ row[d] # None /\ ~row[d].trashed /\ share[s].doc = None
      /\ share' = [share EXCEPT ![s] = [doc |-> d, active |-> TRUE]]
      /\ UNCHANGED <<row, disk, editor, guests, undo, enabled, format, todo, writer, doubtful>>
  BY DEF AddShare, Serves, Active, NewShare, tokens, ghosts
<1>2. share \in [Shares -> [doc : Docs \union {None}, active : BOOLEAN]] BY DEF IInv, TypeOK
<1>3. TypeOK' BY <1>1, <1>2 DEF IInv, TypeOK
<1>4. \A c \in Docs : format[c] = None =>
        /\ row'[c] = row[c] /\ disk'[c] = disk[c] /\ c \notin editor' /\ \A t \in Shares : share'[t].doc # c
  <2>1. format[d] # None BY <1>1, MadeIs
  <2> QED BY <1>1, <1>2, <2>1 DEF IInv, Unmade
<1>5. \A c \in Docs : c # d => Shared(c)' = Shared(c) BY <1>1, <1>2, NoneIs DEF Shared
<1>6. \A c \in Docs \ doubtful :
        EndsWell("mcp", todo["mcp"], c, row[c], disk[c], writer[c], format[c], Shared(c)) =>
          EndsWell("mcp", todo["mcp"], c, row'[c], disk'[c], writer'[c], format[c], Shared(c)')
  <2> SUFFICES ASSUME NEW c \in Docs \ doubtful,
                      EndsWell("mcp", todo["mcp"], c, row[c], disk[c], writer[c], format[c], Shared(c))
               PROVE  EndsWell("mcp", todo["mcp"], c, row[c], disk[c], writer[c], format[c], Shared(c)')
    BY <1>1
  <2>1. CASE c # d BY <1>5, <2>1
  <2>2. CASE c = d
    <3>1. row[c] # None /\ ~row[c].trashed BY <1>1, <2>2
    <3> QED BY <3>1, MoreShares
  <2> QED BY <2>1, <2>2
<1> QED BY <1>1, <1>3, <1>4, <1>6, MeanwhileKeeps

\* A share less.
LEMMA RevokeShareKeeps ==
  ASSUME IInv, NEW s \in Shares, RevokeShare(s)
  PROVE  IInv'
<1>1. /\ Idle("web") /\ share' = [share EXCEPT ![s].active = FALSE]
      /\ UNCHANGED <<row, disk, editor, guests, undo, enabled, format, todo, writer, doubtful>>
  BY DEF RevokeShare, tokens, ghosts
<1>2. share \in [Shares -> [doc : Docs \union {None}, active : BOOLEAN]] BY DEF IInv, TypeOK
<1>3. share' \in [Shares -> [doc : Docs \union {None}, active : BOOLEAN]] BY <1>1, <1>2
<1>4. \A t \in Shares : share'[t].doc = share[t].doc /\ (share'[t].active => share[t].active) BY <1>1, <1>2
<1>5. TypeOK' BY <1>1, <1>3 DEF IInv, TypeOK
<1>6. \A c \in Docs : format[c] = None =>
        /\ row'[c] = row[c] /\ disk'[c] = disk[c] /\ c \notin editor' /\ \A t \in Shares : share'[t].doc # c
  BY <1>1, <1>4 DEF IInv, Unmade
<1>7. \A c \in Docs : Shared(c)' \subseteq Shared(c) BY <1>4 DEF Shared
<1>8. \A c \in Docs \ doubtful :
        EndsWell("mcp", todo["mcp"], c, row[c], disk[c], writer[c], format[c], Shared(c)) =>
          EndsWell("mcp", todo["mcp"], c, row'[c], disk'[c], writer'[c], format[c], Shared(c)')
  <2> SUFFICES ASSUME NEW c \in Docs \ doubtful,
                      EndsWell("mcp", todo["mcp"], c, row[c], disk[c], writer[c], format[c], Shared(c))
               PROVE  EndsWell("mcp", todo["mcp"], c, row[c], disk[c], writer[c], format[c], Shared(c)')
    BY <1>1
  <2> QED BY <1>7, FewerShares
<1> QED BY <1>1, <1>5, <1>6, <1>8, MeanwhileKeeps

\* Tokens come and go, and accounts are switched on and off.
LEMMA TokensKeep ==
  ASSUME IInv, Idle("web"), UNCHANGED <<row, disk, share, undo, format, todo, writer, doubtful>>,
         editor' \subseteq editor \union {d \in Docs : Active(d)}, guests' \subseteq Shares, enabled' \in BOOLEAN
  PROVE  IInv'
<1>1. TypeOK' BY DEF IInv, TypeOK
<1>2. \A c \in Docs : format[c] = None =>
        /\ row'[c] = row[c] /\ disk'[c] = disk[c] /\ c \notin editor' /\ \A t \in Shares : share'[t].doc # c
  BY DEF IInv, Unmade, Active
<1>3. \A c : Shared(c)' = Shared(c) BY DEF Shared
<1>4. \A c \in Docs \ doubtful :
        EndsWell("mcp", todo["mcp"], c, row[c], disk[c], writer[c], format[c], Shared(c)) =>
          EndsWell("mcp", todo["mcp"], c, row'[c], disk'[c], writer'[c], format[c], Shared(c)')
  BY <1>3
<1> QED BY <1>1, <1>2, <1>4, MeanwhileKeeps

\* An editor saves a file: n is what it says, x who wrote it.
LEMMA SavedKeeps ==
  ASSUME IInv, Idle("web"), NEW c, NEW n \in Meta, NEW x, disk' = Saved(c, n), writer' = [writer EXCEPT ![c] = x],
         UNCHANGED <<row, share, editor, guests, undo, enabled, format, todo, doubtful>>,
         c \in Docs => format[c] # None,
         \/ x \in {"blind", "guest"}
         \/ x = "owner" /\ row[c] # None /\ n.trashed = row[c].trashed
  PROVE  IInv'
<1>1. disk' = [disk EXCEPT ![c] = IF format[c] = "other" /\ disk[c] # None THEN disk[c] ELSE n] BY DEF Saved
<1>2. TypeOK'
  <2>1. x \in {"request", "owner", "guest", "blind"} OBVIOUS
  <2>2. disk' \in [Docs -> Meta \union {None}]
    <3> DEFINE e == IF format[c] = "other" /\ disk[c] # None THEN disk[c] ELSE n
    <3>1. disk \in [Docs -> Meta \union {None}] BY DEF IInv, TypeOK
    <3>2. c \in Docs => e \in Meta \union {None} BY <3>1
    <3> HIDE DEF e
    <3>3. disk' = [disk EXCEPT ![c] = e] BY <1>1 DEF e
    <3> QED BY <3>1, <3>2, <3>3
  <2>3. writer' \in [Docs -> {"request", "owner", "guest", "blind"}] BY <2>1 DEF IInv, TypeOK
  <2> QED BY <2>2, <2>3 DEF IInv, TypeOK
<1>3. \A d \in Docs : d # c => disk'[d] = disk[d] /\ writer'[d] = writer[d] BY <1>1 DEF IInv, TypeOK
<1>4. \A d \in Docs : format[d] = None =>
        /\ row'[d] = row[d] /\ disk'[d] = disk[d] /\ d \notin editor' /\ \A t \in Shares : share'[t].doc # d
  BY <1>3 DEF IInv, Unmade
<1>5. \A d : Shared(d)' = Shared(d) BY DEF Shared
<1>6. \A d \in Docs \ doubtful :
        EndsWell("mcp", todo["mcp"], d, row[d], disk[d], writer[d], format[d], Shared(d)) =>
          EndsWell("mcp", todo["mcp"], d, row'[d], disk'[d], writer'[d], format[d], Shared(d)')
  <2> SUFFICES ASSUME NEW d \in Docs \ doubtful,
                      EndsWell("mcp", todo["mcp"], d, row[d], disk[d], writer[d], format[d], Shared(d))
               PROVE  EndsWell("mcp", todo["mcp"], d, row[d], disk'[d], writer'[d], format[d], Shared(d))
    BY <1>5
  <2>1. CASE d # c BY <1>3, <2>1
  <2>2. CASE d = c
    <3>1. PICK k : k = IF format[d] = "other" /\ disk[d] # None THEN disk[d] ELSE n OBVIOUS
    <3>2. disk'[d] = k /\ writer'[d] = x BY <1>1, <2>2, <3>1 DEF IInv, TypeOK
    <3>3. \/ x \in {"blind", "guest"}
          \/ x = "owner" /\ row[d] # None /\ n.trashed = row[d].trashed
      BY <2>2
    <3>4. EndsWell("mcp", todo["mcp"], d, row[d], k, x, format[d], Shared(d)) BY <3>1, <3>3, SavedMeanwhile
    <3> QED BY <3>2, <3>4
  <2> QED BY <2>1, <2>2
<1> QED BY <1>2, <1>4, <1>6, MeanwhileKeeps

\* The owner's editor saves.
LEMMA SaveKeeps ==
  ASSUME IInv, NEW d \in Docs, Save(d)
  PROVE  IInv'
<1>1. d \in editor /\ Idle("web") /\ UNCHANGED <<row, share, editor, guests, undo, enabled, format, todo, doubtful>>
  BY DEF Save, tokens
<1>2. format[d] # None BY <1>1 DEF IInv, Unmade
<1>3. CASE enabled /\ row[d] # None
  <2>1. PICK n : n = [trashed |-> row[d].trashed, folder |-> Root] OBVIOUS
  <2>2. disk' = Saved(d, n) /\ writer' = [writer EXCEPT ![d] = "owner"] BY <1>3, <2>1 DEF Save
  <2>3. row[d] \in Meta BY <1>3 DEF IInv, TypeOK
  <2>4. n \in Meta /\ n.trashed = row[d].trashed BY <2>1, <2>3 DEF Meta
  <2> QED BY <1>1, <1>2, <1>3, <2>2, <2>4, SavedKeeps
<1>4. CASE ~(enabled /\ row[d] # None)
  <2>1. PICK n \in Meta : disk' = Saved(d, n) /\ writer' = [writer EXCEPT ![d] = "blind"] BY <1>4 DEF Save
  <2> QED BY <1>1, <1>2, <2>1, SavedKeeps
<1> QED BY <1>3, <1>4

\* A guest's editor saves.
LEMMA SaveShareKeeps ==
  ASSUME IInv, NEW s \in Shares, SaveShare(s)
  PROVE  IInv'
<1>1. Idle("web") /\ UNCHANGED <<row, share, editor, guests, undo, enabled, format, todo, doubtful>>
  BY DEF SaveShare, tokens
<1>2. PICK c : c = share[s].doc OBVIOUS
<1>3. c \in Docs => format[c] # None BY <1>2 DEF IInv, Unmade
<1>4. PICK n \in Meta : disk' = Saved(c, n) BY <1>2 DEF SaveShare
<1>5. writer' = [writer EXCEPT ![c] = "guest"] BY <1>2 DEF SaveShare
<1> QED BY <1>1, <1>3, <1>4, <1>5, SavedKeeps

\* A document is made.
LEMMA MadeKeeps ==
  ASSUME IInv, NEW p \in Procs, NEW d \in Docs, NEW f \in Folders \union {Root},
         \/ Makes(p, d, "odf", Written(d, f)) \/ Makes(p, d, "odf", Tail(Written(d, f)))
         \/ Makes(p, d, "other", Beside(d, f)) \/ Makes(p, d, "odf", Bare(d))
         \/ \E m \in Meta : Makes(p, d, "odf", <<Row(d, Plain), Content(d, m, "blind")>>)
  PROVE  IInv'
<1>1. CASE Makes(p, d, "odf", Written(d, f))
  <2>1. PICK w : w = Written(d, f) OBVIOUS
  <2>2. EndsWell(p, Written(d, f), d, None, None, writer[d], "odf", {}) BY WrittenEnds
  <2>3. Written(d, f) \in Seq(Writes) /\ TouchedBy(Written(d, f)) = {d} BY WrittenEnds
  <2> QED BY <1>1, <2>1, <2>2, <2>3, MakeKeeps
<1>2. CASE Makes(p, d, "odf", Tail(Written(d, f)))
  <2>1. PICK w : w = Tail(Written(d, f)) OBVIOUS
  <2>2. EndsWell(p, Tail(Written(d, f)), d, None, None, writer[d], "odf", {}) BY WrittenEnds
  <2>3. Tail(Written(d, f)) \in Seq(Writes) /\ TouchedBy(Tail(Written(d, f))) = {d} BY WrittenEnds
  <2> QED BY <1>2, <2>1, <2>2, <2>3, MakeKeeps
<1>3. CASE Makes(p, d, "other", Beside(d, f))
  <2>1. PICK w : w = Beside(d, f) OBVIOUS
  <2>2. EndsWell(p, Beside(d, f), d, None, None, writer[d], "other", {}) BY BesideEnds
  <2>3. Beside(d, f) \in Seq(Writes) /\ TouchedBy(Beside(d, f)) = {d} BY BesideEnds
  <2> QED BY <1>3, <2>1, <2>2, <2>3, MakeKeeps
<1>4. CASE Makes(p, d, "odf", Bare(d))
  <2>1. PICK w : w = <<Content(d, Plain, "blind"), Row(d, Plain)>> OBVIOUS
  <2>2. Plain \in Meta BY FreshIs
  <2>3. EndsWell(p, w, d, None, None, writer[d], "odf", {}) BY <2>1, <2>2, BareEnds
  <2>4. w \in Seq(Writes) /\ TouchedBy(w) = {d} BY <2>1, <2>2, BareEnds
  <2>5. Makes(p, d, "odf", w) BY <1>4, <2>1 DEF Bare
  <2> QED BY <2>3, <2>4, <2>5, MakeKeeps
<1>5. CASE \E m \in Meta : Makes(p, d, "odf", <<Row(d, Plain), Content(d, m, "blind")>>)
  <2>1. PICK m \in Meta : Makes(p, d, "odf", <<Row(d, Plain), Content(d, m, "blind")>>) BY <1>5
  <2>2. PICK w : w = <<Row(d, Plain), Content(d, m, "blind")>> OBVIOUS
  <2>3. EndsWell(p, w, d, None, None, writer[d], "odf", {}) BY <2>2, BareEnds
  <2>4. w \in Seq(Writes) /\ TouchedBy(w) = {d} BY <2>2, BareEnds
  <2>5. Makes(p, d, "odf", w) BY <2>1, <2>2
  <2> QED BY <2>3, <2>4, <2>5, MakeKeeps
<1> QED BY <1>1, <1>2, <1>3, <1>4, <1>5

\* A draft is applied, and taken away.
LEMMA DraftKeeps ==
  ASSUME IInv, NEW p \in Procs, NEW d \in Docs, AppliesDraft(p, d) \/ DiscardsDraft(p, d)
  PROVE  IInv'
<1>1. CASE format[d] # None /\ \E m \in Meta : Handles(p, <<Content(d, m, "blind")>>) BY <1>1, BlindKeeps
<1>2. CASE (format[d] # None \/ disk[d] # None) /\ Handles(p, <<Row(d, None), Unlink(d)>>)
  <2>1. format[d] # None BY <1>2, MadeIs
  <2> QED BY <1>2, <2>1, DiscardKeeps
<1> QED BY <1>1, <1>2 DEF AppliesDraft, DiscardsDraft

-----------------------------------------------------------------------------
(* The invariant *)

\* It holds at first.
LEMMA InitInv == Init => IInv
<1> SUFFICES ASSUME Init PROVE IInv OBVIOUS
<1>1. <<>> \in Seq(Writes) /\ TouchedBy(<<>>) = {} BY DEF TouchedBy
<1>2. TypeOK BY DEF Init, TypeOK
<1>3. TodoType BY <1>1 DEF Init, TodoType
<1>4. Apart BY <1>1 DEF Init, Apart, Procs
<1>5. Unmade BY <1>1, NoneIs DEF Init, Unmade
<1>6. Ends
  <2> SUFFICES ASSUME NEW d \in Docs, NEW p \in Procs
               PROVE  EndsWell(p, todo[p], d, row[d], disk[d], writer[d], format[d], Shared(d))
    BY DEF Ends
  <2>1. row[d] = None /\ disk[d] = None /\ writer[d] = "request" /\ todo[p] = <<>> BY DEF Init
  <2>2. Quiet(None, None, "request", format[d], Shared(d)) BY DEF Quiet, Right
  <2>3. None \in Values BY DEF Values
  <2> QED BY <1>1, <2>1, <2>2, <2>3, QuietIs
<1> QED BY <1>2, <1>3, <1>4, <1>5, <1>6 DEF IInv

\* The writes keep it.
LEMMA WriteKeeps ==
  ASSUME IInv, NEW p \in Procs, Write(p) \/ Crash(p)
  PROVE  IInv'
BY RowsKeep, ContentKeeps, MetaKeeps, FileKeeps, RevokeKeeps, CookieKeeps, CrashKeeps DEF Write

\* The pages' requests keep it.
LEMMA RequestKeeps ==
  ASSUME IInv, Request
  PROVE  IInv'
<1>0. "web" \in Procs /\ Root \in Folders \union {Root} BY DEF Procs
<1>1. ASSUME NEW d \in Docs, Rename(d) \/ UpdateTags(d) PROVE IInv'
  <2>1. row[d] # None /\ Handles("web", <<Inject(d)>>) BY <1>1 DEF Rename, UpdateTags, Active, Does
  <2> QED BY <1>0, <2>1, InjectKeeps
<1>2. ASSUME NEW d \in Docs, Delete(d) \/ Restore(d) PROVE IInv' BY <1>2, DeleteKeeps, RestoreKeeps
<1>3. ASSUME NEW d \in Docs, Convert(d) PROVE IInv'
  <2>1. Makes("web", d, "odf", Written(d, Root)) \/ Makes("web", d, "odf", Tail(Written(d, Root)))
    BY <1>3 DEF Convert
  <2> QED BY <1>0, <2>1, MadeKeeps
<1>4. ASSUME NEW d \in Docs, NEW f \in Places, Create(d, f) \/ Upload(d, f) PROVE IInv'
  <2>1. \/ Makes("web", d, "odf", Written(d, f)) \/ Makes("web", d, "odf", Tail(Written(d, f)))
        \/ Makes("web", d, "other", Beside(d, f))
    BY <1>4 DEF Create, Upload
  <2> QED BY <1>0, <2>1, MadeKeeps DEF Places
<1>5. ASSUME NEW d \in Docs, NEW f \in Places, Move(d, f) PROVE IInv'
  BY <1>0, <1>5, MoveKeeps DEF Places, Move, Does
<1>6. ASSUME NEW f \in Folders, DeleteFolder(f) PROVE IInv' BY <1>0, <1>6, DeleteFolderKeeps
<1>7. ASSUME NEW f \in Folders, NEW g \in Folders, RenameFolder(f, g) PROVE IInv'
  <2>1. RenamesFolder("web", f, g) BY <1>7 DEF RenameFolder, RenamesFolder, Does
  <2> QED BY <1>0, <2>1, RenameFolderKeeps
<1>8. ASSUME EmptyTrash \/ UndoDeleteFolder \/ Resync \/ IndexResync PROVE IInv'
  BY <1>8, EmptyKeeps, UndoKeeps, ResyncKeeps DEF IndexResync
<1> QED BY <1>1, <1>2, <1>3, <1>4, <1>5, <1>6, <1>7, <1>8 DEF Request

\* The editors keep it.
LEMMA EditingKeeps ==
  ASSUME IInv, Editing
  PROVE  IInv'
<1>1. ASSUME NEW d \in Docs, OpenEditor(d) PROVE IInv'
  <2>1. /\ Idle("web") /\ Active(d) /\ editor' = editor \union {d}
        /\ UNCHANGED <<row, disk, share, guests, undo, enabled, format, todo, writer, doubtful>>
    BY <1>1 DEF OpenEditor, Serves, ghosts
  <2>2. editor' \subseteq editor \union {c \in Docs : Active(c)} BY <2>1
  <2>3. guests' \subseteq Shares /\ enabled' \in BOOLEAN BY <2>1 DEF IInv, TypeOK
  <2> QED BY <2>1, <2>2, <2>3, TokensKeep
<1>2. ASSUME NEW s \in Shares, OpenShare(s) \/ OpenSharedDoc(s) PROVE IInv'
  <2>1. /\ Idle("web") /\ guests' = guests \union {s}
        /\ UNCHANGED <<row, disk, share, editor, undo, enabled, format, todo, writer, doubtful>>
    BY <1>2 DEF OpenShare, OpenSharedDoc, ghosts
  <2>2. editor' \subseteq editor \union {c \in Docs : Active(c)} BY <2>1
  <2>3. guests' \subseteq Shares /\ enabled' \in BOOLEAN BY <2>1 DEF IInv, TypeOK
  <2> QED BY <2>1, <2>2, <2>3, TokensKeep
<1>3. ASSUME Expire PROVE IInv'
  <2>1. /\ Idle("web") /\ editor' \subseteq editor /\ guests' \subseteq guests
        /\ UNCHANGED <<row, disk, share, undo, enabled, format, todo, writer, doubtful>>
    BY <1>3 DEF Expire, ghosts
  <2>2. editor' \subseteq editor \union {c \in Docs : Active(c)} BY <2>1
  <2>3. guests' \subseteq Shares /\ enabled' \in BOOLEAN BY <2>1 DEF IInv, TypeOK
  <2> QED BY <2>1, <2>2, <2>3, TokensKeep
<1>4. ASSUME NEW d \in Docs, Save(d) PROVE IInv' BY <1>4, SaveKeeps
<1>5. ASSUME NEW s \in Shares, NEW d \in Docs, AddShare(s, d) PROVE IInv' BY <1>5, AddShareKeeps
<1>6. ASSUME NEW s \in Shares, RevokeShare(s) \/ SaveShare(s) PROVE IInv'
  BY <1>6, RevokeShareKeeps, SaveShareKeeps
<1> QED BY <1>1, <1>2, <1>3, <1>4, <1>5, <1>6 DEF Editing

\* What the API and the MCP server do alike.
LEMMA BothKeep ==
  ASSUME IInv, NEW p \in Procs, NEW d \in Docs,
         \/ Trashes(p, d) \/ Retags(p, d) \/ AppliesDraft(p, d) \/ DiscardsDraft(p, d)
         \/ \E f \in Places : MakesAt(p, d, f) \/ MovesTo(p, d, f)
  PROVE  IInv'
<1>1. CASE Trashes(p, d) BY <1>1, TrashKeeps
<1>2. CASE Retags(p, d)
  <2>1. row[d] # None /\ Handles(p, <<Inject(d)>>) BY <1>2 DEF Retags, Active
  <2> QED BY <2>1, InjectKeeps
<1>3. CASE AppliesDraft(p, d) \/ DiscardsDraft(p, d) BY <1>3, DraftKeeps
<1>4. ASSUME NEW f \in Places, MakesAt(p, d, f) PROVE IInv'
  <2>1. Makes(p, d, "odf", Written(d, f)) BY <1>4 DEF MakesAt
  <2> QED BY <2>1, MadeKeeps DEF Places
<1>5. ASSUME NEW f \in Places, MovesTo(p, d, f) PROVE IInv' BY <1>5, MoveKeeps DEF MovesTo, Places
<1> QED BY <1>1, <1>2, <1>3, <1>4, <1>5

\* The API keeps it.
LEMMA RestKeeps ==
  ASSUME IInv, Rest
  PROVE  IInv'
<1>0. "web" \in Procs /\ Root \in Places /\ Root \in Folders \union {Root} BY DEF Procs, Places
<1>1. ASSUME NEW d \in Docs, NEW f \in Places, ApiCreate(d, f) \/ ApiMove(d, f) PROVE IInv'
  BY <1>0, <1>1, BothKeep DEF ApiCreate, ApiMove
<1>2. ASSUME NEW d \in Docs, ApiDelete(d) \/ ApiTags(d) \/ ApiConvert(d) \/ ApiApplyDraft(d) \/ ApiDiscardDraft(d)
      PROVE  IInv'
  BY <1>0, <1>2, BothKeep DEF ApiDelete, ApiTags, ApiConvert, ApiApplyDraft, ApiDiscardDraft
<1>3. ASSUME NEW d \in Docs, ApiContent(d) PROVE IInv' BY <1>0, <1>3, BlindKeeps DEF ApiContent
<1>4. ASSUME NEW d \in Docs, ApiUpload(d) \/ ApiCreateDraft(d) PROVE IInv'
  <2>1. \/ Makes("web", d, "other", Beside(d, Root)) \/ Makes("web", d, "odf", Bare(d))
        \/ \E m \in Meta : Makes("web", d, "odf", <<Row(d, Plain), Content(d, m, "blind")>>)
    BY <1>4 DEF ApiUpload, ApiCreateDraft
  <2> QED BY <1>0, <2>1, MadeKeeps
<1>5. ASSUME NEW f \in Folders, ApiDeleteFolder(f) PROVE IInv'
  BY <1>0, <1>5, DeleteFolderKeeps DEF ApiDeleteFolder
<1>6. ASSUME NEW f \in Folders, NEW g \in Folders, ApiRenameFolder(f, g) PROVE IInv'
  BY <1>0, <1>6, RenameFolderKeeps DEF ApiRenameFolder
<1> QED BY <1>1, <1>2, <1>3, <1>4, <1>5, <1>6 DEF Rest

\* The MCP server's tools keep it.
LEMMA ToolKeeps ==
  ASSUME IInv, Tool
  PROVE  IInv'
<1>0. "mcp" \in Procs /\ Root \in Folders \union {Root} BY DEF Procs
<1>1. ASSUME NEW d \in Docs, NEW f \in Places, McpCreate(d, f) \/ McpMove(d, f) PROVE IInv'
  BY <1>0, <1>1, BothKeep DEF McpCreate, McpMove
<1>2. ASSUME NEW d \in Docs, McpDelete(d) \/ McpTags(d) \/ McpApplyDraft(d) \/ McpDiscardDraft(d)
      PROVE  IInv'
  BY <1>0, <1>2, BothKeep DEF McpDelete, McpTags, McpApplyDraft, McpDiscardDraft
<1>3. ASSUME NEW d \in Docs, McpContent(d) PROVE IInv'
  <2>1. format[d] # None /\ Handles("mcp", <<Content(d, Plain, "blind")>>)
    BY <1>3, MadeIs DEF McpContent, Active
  <2> QED BY <1>0, <2>1, FreshIs, BlindKeeps
<1>4. ASSUME NEW d \in Docs, McpConvert(d) \/ McpCreateDraft(d) PROVE IInv'
  <2>1. Makes("mcp", d, "odf", Bare(d)) BY <1>4 DEF McpConvert, McpCreateDraft
  <2> QED BY <1>0, <2>1, MadeKeeps
<1>5. ASSUME NEW f \in Folders, McpDeleteFolder(f) PROVE IInv'
  BY <1>0, <1>5, DeleteFolderKeeps DEF McpDeleteFolder
<1>6. ASSUME NEW f \in Folders, NEW g \in Folders, McpRenameFolder(f, g) PROVE IInv'
  BY <1>0, <1>6, RenameFolderKeeps DEF McpRenameFolder
<1> QED BY <1>1, <1>2, <1>3, <1>4, <1>5, <1>6 DEF Tool

\* An account is switched on or off.
LEMMA ToggleKeeps ==
  ASSUME IInv, ToggleAccount
  PROVE  IInv'
<1>1. /\ Idle("web") /\ enabled' = ~enabled
      /\ UNCHANGED <<row, disk, share, editor, guests, undo, format, todo, writer, doubtful>>
  BY DEF ToggleAccount, tokens, ghosts
<1>2. editor' \subseteq editor \union {c \in Docs : Active(c)} BY <1>1
<1>3. guests' \subseteq Shares /\ enabled' \in BOOLEAN BY <1>1 DEF IInv, TypeOK
<1> QED BY <1>1, <1>2, <1>3, TokensKeep

\* Nothing that the processes share changes.
LEMMA StutterKeeps ==
  ASSUME IInv, UNCHANGED vars
  PROVE  IInv'
<1>1. UNCHANGED <<row, disk, share, editor, guests, undo, enabled, format, todo, writer, doubtful>>
  BY DEF vars, tokens, ghosts
<1>2. TypeOK' /\ TodoType' /\ Apart' /\ Unmade' BY <1>1 DEF IInv, TypeOK, TodoType, Apart, Unmade
<1>3. \A d : Shared(d)' = Shared(d) BY <1>1 DEF Shared
<1>4. Ends' BY <1>1, <1>3 DEF IInv, Ends
<1> QED BY <1>2, <1>4 DEF IInv

\* Every step keeps it.
LEMMA StepInv == IInv /\ [Next]_vars => IInv'
<1> SUFFICES ASSUME IInv, [Next]_vars PROVE IInv' OBVIOUS
<1>1. CASE UNCHANGED vars BY <1>1, StutterKeeps
<1>2. CASE \E p \in Procs : Write(p) \/ Crash(p) BY <1>2, WriteKeeps
<1>3. CASE Request BY <1>3, RequestKeeps
<1>4. CASE Editing BY <1>4, EditingKeeps
<1>5. CASE Rest BY <1>5, RestKeeps
<1>6. CASE Tool BY <1>6, ToolKeeps
<1>7. CASE Reset BY <1>7, ResetKeeps
<1>8. CASE ToggleAccount BY <1>8, ToggleKeeps
<1> QED BY <1>1, <1>2, <1>3, <1>4, <1>5, <1>6, <1>7, <1>8 DEF Next

-----------------------------------------------------------------------------
(* What follows *)

\* A document nobody is at is quiet.
LEMMA SettledQuiet ==
  ASSUME IInv, NEW d \in Settled
  PROVE  d \in Docs /\ Quiet(row[d], disk[d], writer[d], format[d], Shared(d))
<1>1. d \in Docs /\ d \notin doubtful /\ \A p \in Procs : d \notin TouchedBy(todo[p]) BY DEF Settled, Pending
<1>2. "web" \in Procs /\ Other("web") \in Procs BY DEF Procs, Other
<1> QED BY <1>1, <1>2, QuietWhenIdle

\* A guest writes only what is not in the trash.
LEMMA NoGuestWrites ==
  ASSUME IInv, [Next]_vars, NEW d \in Docs \ doubtful, InTrash(d), writer[d] # "guest"
  PROVE  writer'[d] # "guest"
<1> SUFFICES ASSUME writer' # writer PROVE writer'[d] # "guest" OBVIOUS
<1>1. writer \in [Docs -> {"request", "owner", "guest", "blind"}] BY DEF IInv, TypeOK
<1>2. \/ \E p \in Procs : WriteContent(p) \/ WriteMeta(p)
      \/ \E c \in Docs : Save(c)
      \/ \E s \in Shares : SaveShare(s)
  <2>1. ~(UNCHANGED vars) BY DEF vars, ghosts
  <2>2. \A p \in Procs : Write(p) \/ Crash(p) => WriteContent(p) \/ WriteMeta(p)
    BY DEF Write, Crash, WriteRows, DeleteFile, RevokeAll, WriteUndo, ghosts
  <2>3. \A p \in Procs : \A w, D : ~Begins(p, w, D) BY DEF Begins
  <2>4. ~Request
    BY <2>3 DEF Request, Rename, UpdateTags, Delete, Restore, Convert, Create, Upload, Move, DeleteFolder,
       RenameFolder, EmptyTrash, UndoDeleteFolder, Resync, IndexResync, Does, Handles, Makes, Procs
  <2>5. ~Rest
    BY <2>3 DEF Rest, ApiCreate, ApiMove, ApiDelete, ApiTags, ApiContent, ApiUpload, ApiConvert, ApiCreateDraft,
       ApiApplyDraft, ApiDiscardDraft, ApiDeleteFolder, ApiRenameFolder, MakesAt, MovesTo, Trashes, Retags,
       AppliesDraft, DiscardsDraft, DropsFolder, RenamesFolder, Handles, Makes, Procs
  <2>6. ~Tool
    BY <2>3 DEF Tool, McpCreate, McpMove, McpDelete, McpTags, McpContent, McpConvert, McpCreateDraft,
       McpApplyDraft, McpDiscardDraft, McpDeleteFolder, McpRenameFolder, MakesAt, MovesTo, Trashes, Retags,
       AppliesDraft, DiscardsDraft, DropsFolder, RenamesFolder, Handles, Makes, Procs
  <2>7. Editing => (\E c \in Docs : Save(c)) \/ \E s \in Shares : SaveShare(s)
    BY DEF Editing, OpenEditor, AddShare, RevokeShare, OpenShare, OpenSharedDoc, Expire, ghosts
  <2>8. ~Reset /\ ~ToggleAccount BY DEF Reset, ToggleAccount, ghosts
  <2> QED BY <2>1, <2>2, <2>4, <2>5, <2>6, <2>7, <2>8 DEF Next
<1>3. ASSUME NEW p \in Procs, WriteContent(p) PROVE writer'[d] # "guest"
  <2>1. PICK w : w = todo[p][1] OBVIOUS
  <2>2. w \in Writes /\ w.do = "content" /\ Head(todo[p]) = w BY <1>3, <2>1, NextIs DEF WriteContent
  <2>3. w.by \in {"request", "blind"} BY <2>2, WriteIs
  <2>4. writer' = [writer EXCEPT ![w.doc] = w.by] BY <1>3, <2>2 DEF WriteContent
  <2> QED BY <1>1, <2>3, <2>4
<1>4. ASSUME NEW p \in Procs, WriteMeta(p) PROVE writer'[d] # "guest" BY <1>1, <1>4 DEF WriteMeta
<1>5. ASSUME NEW c \in Docs, Save(c) PROVE writer'[d] # "guest" BY <1>1, <1>5 DEF Save
<1>6. ASSUME NEW s \in Shares, SaveShare(s) PROVE writer'[d] # "guest"
  <2>1. /\ Idle("web") /\ share[s].active /\ writer' = [writer EXCEPT ![share[s].doc] = "guest"]
    BY <1>6 DEF SaveShare
  <2>2. share[s].doc # d
    <3> SUFFICES ASSUME share[s].doc = d PROVE FALSE OBVIOUS
    <3>1. s \in Shared(d) BY <2>1 DEF Shared
    <3>2. "mcp" \in Procs /\ Other("mcp") = "web" BY DEF Procs, Other
    <3>3. d \notin TouchedBy(todo["web"]) BY <2>1 DEF Idle, TouchedBy
    <3>4. EndsWell("mcp", todo["mcp"], d, row[d], disk[d], writer[d], format[d], Shared(d))
      BY <3>2, <3>3 DEF IInv, Ends
    <3>5. row[d] # None /\ row[d].trashed => Shared(d) = {} BY <3>4 DEF EndsWell, TrashKept
    <3> QED BY <3>1, <3>5 DEF InTrash
  <2> QED BY <1>1, <2>1, <2>2
<1> QED BY <1>2, <1>3, <1>4, <1>5, <1>6

\* The invariant is one.
LEMMA Inductive == Spec => []IInv
<1>1. Init => IInv BY InitInv
<1>2. IInv /\ [Next]_vars => IInv' BY StepInv
<1> QED BY <1>1, <1>2, PTL DEF Spec

\* Every variable has its type, whatever handlers, tools and editors do.
THEOREM DocTypes == Spec => []TypeOK
<1>1. IInv => TypeOK BY DEF IInv
<1> QED BY <1>1, Inductive, PTL

\* The cache may be lost at any time between requests: a document with a row
\* has its file, and what a request or the owner's editor wrote last says of
\* trash and folder what the row says, so that a resync (resync.py) finds it
\* as it was.
THEOREM FilesTellAll == Spec => []Recoverable
<1>1. IInv => Recoverable
  <2> SUFFICES ASSUME IInv, NEW d \in Settled, row[d] # None
               PROVE  HasFile(d) /\ TrashAgrees(d) /\ FolderAgrees(d)
    BY DEF Recoverable
  <2>1. Right(row[d], disk[d], writer[d], format[d], Shared(d)) BY SettledQuiet DEF Quiet
  <2> QED BY <2>1 DEF Right, HasFile, TrashAgrees, FolderAgrees
<1> QED BY <1>1, Inductive, PTL

\* A document in the trash has no active share (delete, empty_trash), through
\* restores, resyncs and new shares.
THEOREM TrashUnshared == Spec => []NoShareOfTrash
<1>1. IInv => NoShareOfTrash
  <2> SUFFICES ASSUME IInv, NEW s \in Shares, share[s].active, share[s].doc \in Settled, InTrash(share[s].doc)
               PROVE  FALSE
    BY DEF NoShareOfTrash
  <2>1. PICK d : d = share[s].doc OBVIOUS
  <2>2. Quiet(row[d], disk[d], writer[d], format[d], Shared(d)) BY <2>1, SettledQuiet
  <2>3. s \in Shared(d) BY <2>1 DEF Shared
  <2> QED BY <2>1, <2>2, <2>3 DEF Quiet, InTrash
<1> QED BY <1>1, Inductive, PTL

\* No guest's editor (_wopi_put_file_share) writes a document in the trash.
THEOREM GuestsLocked == Spec => TrashSealed
<1>1. IInv /\ [Next]_vars => [\A d \in Docs \ doubtful : InTrash(d) /\ writer[d] # "guest" => writer'[d] # "guest"]_vars
  BY NoGuestWrites
<1> QED BY <1>1, Inductive, PTL DEF Spec, TrashSealed

=============================================================================
