--------------------------- MODULE MailboxProof ---------------------------
(***************************************************************************)
(* Theorems about the moves of messages (MailMoves), for any number of     *)
(* messages, copies, requests and workers, any folders and any server, and *)
(* about sending (SendMail), for any messages, threads and number of       *)
(* attempts.                                                               *)
(*                                                                         *)
(* MailMoves: NoLoss and NoHidden hold in every state, AutoOffConfirmed of *)
(* every step.                                                             *)
(*                                                                         *)
(* NoLoss is about a move, a COPY and then a STORE of the copy that was    *)
(* read before it: two requests may move one message at once, and each may *)
(* mark the copy that the other has made. It holds because a COPY gets a   *)
(* uid above all others and is made of a copy with a lower one: whenever a *)
(* request is about to mark a copy, a later copy is there (LaterCopy), so  *)
(* the latest of a message's copies is nobody's to mark. The rest of the   *)
(* invariant says that requests are sequences of sound commands, about     *)
(* uids that were given and folders that exist.                            *)
(*                                                                         *)
(* AutoOffConfirmed needs that a request probes a server without blaming   *)
(* its connection only where the keyword is refused (Sound), and that      *)
(* every request that runs while there is no junk folder is in bare, until *)
(* its worker takes another one, which it does only after the commit       *)
(* (OffInv).                                                               *)
(*                                                                         *)
(* NoHidden needs to know of what a request drops the rows (Drops): of     *)
(* copies that it has marked. A request marks the copy that it has copied  *)
(* in the folder it has selected, and while it waits the copy stays there  *)
(* or is expunged (Holds): only RENAME moves a copy, and what is selected  *)
(* moves with it. SeenOK is NoHidden of every uid that the cache takes for *)
(* fetched, under the name that it was fetched under.                      *)
(*                                                                         *)
(* SendMail: OneSender and TruthTold need each other: what a worker may    *)
(* report depends on its being the only one that delivers the message, and *)
(* the inductive invariant says, of every worker, what the server has      *)
(* confirmed of its message at the point where it stands.                  *)
(***************************************************************************)
EXTENDS MailMoves, SendMail, FiniteSetTheorems, WellFoundedInduction, TLAPS

-----------------------------------------------------------------------------
(* The inductive invariant *)

Copies == [folder : Folders, flags : SUBSET Flags]

\* What the server and the cache hold is of its types.
StoreOK ==
  /\ exists \subseteq Folders
  /\ of \in [Uids -> Msgs \union {None}]
  /\ box \in [Uids -> Copies \union {None}]
  /\ rows \subseteq Rows

\* Copies are in folders that exist, rows are of uids that were given, and
\* uids are given in order.
PlacedOK ==
  /\ \A u \in Uids : box[u] # None => Given(u) /\ box[u].folder \in exists
  /\ \A r \in rows : Given(r.uid)
  /\ \A u, v \in Uids : Given(u) /\ v <= u => Given(v)

\* What a request's command may be about.
Sound(c) ==
  /\ c.do \in {"move", "list"} => c.uid \in Uids /\ Given(c.uid)
  /\ c.do = "create" => c.folder \in Folders
  /\ c.do = "rename" => c.to \in Folders
  /\ c.do = "rename_rows" => c.to \in Folders
  /\ c.do = "mark" => c.flag \in Flags /\ (c.flag = "gone" => c.on = TRUE)
  /\ c.do = "append" => c.msg \in Msgs
  /\ c.do = "note" => c.row \in Rows
  /\ c.do = "item" => c.act \in {"delete", "move"} \union Guards
  /\ c.do = "probe" => c.lost \/ ~keyword

\* A sequence of such commands.
SoundTodo(t) ==
  /\ \E S : t \in Seq(S)
  /\ \A i \in DOMAIN t : Sound(t[i])

\* A request has a folder selected that exists, and between a COPY and its
\* STORE the move of that copy is its next command.
JobOK(j) ==
  /\ j = [todo |-> j.todo, sel |-> j.sel, copied |-> j.copied, done |-> j.done]
  /\ j.sel \in exists \union {None}
  /\ SoundTodo(j.todo)
  /\ j.copied # 0 => j.todo # <<>> /\ Head(j.todo).do = "move" /\ Head(j.todo).uid = j.copied

JobsOK == job = [w \in Workers |-> job[w]] /\ \A w \in Workers : JobOK(job[w])

\* A copy that a request is about to mark has a later one that is not marked:
\* as uids grow, the latest copy is about to be marked by nobody.
LaterCopy(j) ==
  j.copied # 0 /\ of[j.copied] \notin spent /\ InFolder(j.copied, j.sel) /\ Alive(j.copied) =>
     \E v \in Uids : j.copied < v /\ of[v] = of[j.copied] /\ Alive(v)

CopiedOK == \A w \in Workers : LaterCopy(job[w])

IInv == StoreOK /\ PlacedOK /\ JobsOK /\ CopiedOK /\ NoLoss

-----------------------------------------------------------------------------
(* Sequences of commands *)

\* A set of numbers that is not empty has a least one.
LEMMA LeastNatural ==
  ASSUME NEW S \in SUBSET Nat, S # {}
  PROVE  \E m \in S : \A k \in S : m <= k
<1> DEFINE T == {1..k : k \in S}
<1>1. T \subseteq FiniteSubsetsOf(Nat) /\ T # {}
  <2>1. \A k \in S : 1..k \subseteq Nat /\ IsFiniteSet(1..k) BY FS_Interval
  <2> QED BY <2>1 DEF FiniteSubsetsOf
<1>2. PICK x \in T : \A y \in T : <<y, x>> \notin StrictSubsetOrdering(Nat)
  <2> HIDE DEF T
  <2> QED BY <1>1, WFMin, FS_StrictSubsetOrderingWellFounded
<1>3. PICK m \in S : x = 1..m OBVIOUS
<1>4. \A k \in S : m <= k
  <2> SUFFICES ASSUME NEW k \in S, k < m PROVE FALSE OBVIOUS
  <2>1. 1..k \subseteq 1..m /\ m \in 1..m /\ m \notin 1..k OBVIOUS
  <2>2. 1..k \in T /\ 1..k \subseteq Nat /\ 1..m \subseteq Nat OBVIOUS
  <2>3. <<1..k, x>> \in StrictSubsetOrdering(Nat)
    BY <1>3, <2>1, <2>2 DEF StrictSubsetOrdering
  <2> QED BY <1>2, <2>2, <2>3
<1> QED BY <1>4

\* The first command of a sequence, and the ones after it.
LEMMA TailSound ==
  ASSUME NEW t, SoundTodo(t), t # <<>>
  PROVE  Sound(Head(t)) /\ SoundTodo(Tail(t))
<1>1. PICK S : t \in Seq(S) BY DEF SoundTodo
<1>2. Len(t) \in Nat /\ Len(t) # 0 /\ DOMAIN t = 1..Len(t) BY <1>1
<1>3. Head(t) = t[1] /\ 1 \in DOMAIN t BY <1>1, <1>2
<1>4. /\ Tail(t) \in Seq(S) /\ DOMAIN Tail(t) = 1..(Len(t) - 1)
      /\ \A i \in 1..(Len(t) - 1) : Tail(t)[i] = t[i + 1] /\ i + 1 \in DOMAIN t
  BY <1>1, <1>2
<1> QED BY <1>3, <1>4 DEF SoundTodo

\* One sequence after another.
LEMMA CatSound ==
  ASSUME NEW s, NEW t, SoundTodo(s), SoundTodo(t)
  PROVE  SoundTodo(s \o t)
<1>1. PICK S : s \in Seq(S) BY DEF SoundTodo
<1>2. PICK T : t \in Seq(T) BY DEF SoundTodo
<1>3. s \in Seq(S \union T) /\ t \in Seq(S \union T) BY <1>1, <1>2
<1>4. /\ Len(s) \in Nat /\ DOMAIN s = 1..Len(s)
      /\ Len(t) \in Nat /\ DOMAIN t = 1..Len(t)
  BY <1>3
<1>5. /\ s \o t \in Seq(S \union T) /\ DOMAIN (s \o t) = 1..(Len(s) + Len(t))
      /\ \A i \in 1..(Len(s) + Len(t)) :
           (s \o t)[i] = IF i <= Len(s) THEN s[i] ELSE t[i - Len(s)]
  BY <1>3, <1>4
<1>6. \A i \in 1..(Len(s) + Len(t)) :
        (i <= Len(s) /\ i \in DOMAIN s) \/ (~(i <= Len(s)) /\ i - Len(s) \in DOMAIN t)
  BY <1>4
<1> QED BY <1>5, <1>6 DEF SoundTodo

\* The end of a sequence.
LEMMA SubSound ==
  ASSUME NEW t, SoundTodo(t), NEW k \in DOMAIN t
  PROVE  SoundTodo(SubSeq(t, k, Len(t)))
<1>1. PICK S : t \in Seq(S) BY DEF SoundTodo
<1>2. Len(t) \in Nat /\ DOMAIN t = 1..Len(t) BY <1>1
<1> DEFINE n == 1 + Len(t) - k
<1>3. n \in Nat BY <1>2
<1>4. /\ SubSeq(t, k, Len(t)) \in Seq(S) /\ DOMAIN SubSeq(t, k, Len(t)) = 1..n
      /\ \A i \in 1..n : SubSeq(t, k, Len(t))[i] = t[i + k - 1]
  BY <1>1, <1>2
<1>5. \A i \in 1..n : i + k - 1 \in DOMAIN t BY <1>2
<1> HIDE DEF n
<1> QED BY <1>4, <1>5 DEF SoundTodo

\* The empty sequence, and short ones.
LEMMA ShortSound ==
  /\ SoundTodo(<<>>)
  /\ \A a : Sound(a) => SoundTodo(<<a>>)
  /\ \A a, b : Sound(a) /\ Sound(b) => SoundTodo(<<a, b>>)
  /\ \A a, b, c : Sound(a) /\ Sound(b) /\ Sound(c) => SoundTodo(<<a, b, c>>)
  /\ \A a, b, c, d : Sound(a) /\ Sound(b) /\ Sound(c) /\ Sound(d) => SoundTodo(<<a, b, c, d>>)
  /\ \A a, b, c, d, e : Sound(a) /\ Sound(b) /\ Sound(c) /\ Sound(d) /\ Sound(e) =>
       SoundTodo(<<a, b, c, d, e>>)
<1>1. SoundTodo(<<>>)
  <2>1. <<>> \in Seq({}) OBVIOUS
  <2> QED BY <2>1 DEF SoundTodo
<1>2. ASSUME NEW a, Sound(a) PROVE SoundTodo(<<a>>)
  <2>1. <<a>> \in Seq({a}) OBVIOUS
  <2>2. \A i \in DOMAIN <<a>> : <<a>>[i] \in {a} BY <2>1
  <2>3. \A i \in DOMAIN <<a>> : Sound(<<a>>[i]) BY <1>2, <2>2
  <2> QED BY <2>1, <2>3 DEF SoundTodo
<1>3. ASSUME NEW a, NEW b, Sound(a), Sound(b) PROVE SoundTodo(<<a, b>>)
  <2>1. <<a, b>> \in Seq({a, b}) OBVIOUS
  <2>2. \A i \in DOMAIN <<a, b>> : <<a, b>>[i] \in {a, b} BY <2>1
  <2>3. \A i \in DOMAIN <<a, b>> : Sound(<<a, b>>[i]) BY <1>3, <2>2
  <2> QED BY <2>1, <2>3 DEF SoundTodo
<1>4. ASSUME NEW a, NEW b, NEW c, Sound(a), Sound(b), Sound(c) PROVE SoundTodo(<<a, b, c>>)
  <2>1. <<a, b, c>> \in Seq({a, b, c}) OBVIOUS
  <2>2. \A i \in DOMAIN <<a, b, c>> : <<a, b, c>>[i] \in {a, b, c} BY <2>1
  <2>3. \A i \in DOMAIN <<a, b, c>> : Sound(<<a, b, c>>[i]) BY <1>4, <2>2
  <2> QED BY <2>1, <2>3 DEF SoundTodo
<1>5. ASSUME NEW a, NEW b, NEW c, NEW d, Sound(a), Sound(b), Sound(c), Sound(d)
      PROVE  SoundTodo(<<a, b, c, d>>)
  <2>1. <<a, b, c, d>> \in Seq({a, b, c, d}) OBVIOUS
  <2>2. \A i \in DOMAIN <<a, b, c, d>> : <<a, b, c, d>>[i] \in {a, b, c, d} BY <2>1
  <2>3. \A i \in DOMAIN <<a, b, c, d>> : Sound(<<a, b, c, d>>[i]) BY <1>5, <2>2
  <2> QED BY <2>1, <2>3 DEF SoundTodo
<1>6. ASSUME NEW a, NEW b, NEW c, NEW d, NEW e, Sound(a), Sound(b), Sound(c), Sound(d), Sound(e)
      PROVE  SoundTodo(<<a, b, c, d, e>>)
  <2>1. <<a, b, c, d, e>> \in Seq({a, b, c, d, e}) OBVIOUS
  <2>2. \A i \in DOMAIN <<a, b, c, d, e>> : <<a, b, c, d, e>>[i] \in {a, b, c, d, e} BY <2>1
  <2>3. \A i \in DOMAIN <<a, b, c, d, e>> : Sound(<<a, b, c, d, e>>[i]) BY <1>6, <2>2
  <2> QED BY <2>1, <2>3 DEF SoundTodo
<1> QED BY <1>1, <1>2, <1>3, <1>4, <1>5, <1>6

-----------------------------------------------------------------------------
(* Steps that leave the copies on the server alone *)

\* What the commands need to be sound.
LEMMA CommandsSound ==
  /\ Sound(Expunge) /\ Sound(ApiExpunge) /\ Sound(McpExpunge) /\ Sound(Drop) /\ Sound(EnsureTrash)
  /\ \A x : Sound(Select(x)) /\ Sound(Token(x)) /\ Sound(Find(x)) /\ Sound(Keyword(x))
            /\ Sound(Forget(x)) /\ Sound(DeleteRows(x))
  /\ \A x, y : Sound(Delete(x, y))
  /\ \A f \in Folders : Sound(Create(f))
  /\ \A u \in Uids : Given(u) => Sound(ListJunk(u)) /\ \A x : Sound(Move(u, x))
  /\ \A g \in Flags \ {"gone"} : \A x, y, z : Sound(Mark(x, g, y, z))
  /\ \A x, z : Sound(Mark(x, "gone", TRUE, z))
  /\ \A m \in Msgs : Sound(Save(m))
  /\ \A f \in Folders : \A x, y : Sound(Rename(x, f, y))
  /\ \A f \in Folders : \A x : Sound(RenameRows(x, f))
  /\ \A r \in Rows, F \in SUBSET Flags : Sound(Note(r, F))
  /\ \A act \in {"delete", "move"} \union Guards : \A x, y : Sound(Item(x, act, y))
  /\ \A x : Sound(Probe(x, TRUE)) /\ (~keyword => Sound(Probe(x, FALSE)))
BY DEF Sound, Expunge, ApiExpunge, McpExpunge, Drop, EnsureTrash, Select, Token, Find, Keyword, Forget, DeleteRows,
       Delete, Create, ListJunk, Move, Mark, Flags, Save, Rename, RenameRows, Note, Rows, Item, Probe

\* A request whose commands are replaced.
LEMMA ReadyOK ==
  ASSUME NEW j, JobOK(j), j.copied = 0, NEW t, SoundTodo(t)
  PROVE  JobOK(Ready([j EXCEPT !.todo = t])) /\ Ready([j EXCEPT !.todo = t]).copied = 0
<1>1. [j EXCEPT !.todo = t] = [todo |-> t, sel |-> j.sel, copied |-> j.copied, done |-> j.done]
  BY DEF JobOK
<1>2. JobOK(Free) BY ShortSound DEF JobOK, Free
<1>3. JobOK([todo |-> t, sel |-> j.sel, copied |-> 0, done |-> j.done]) BY DEF JobOK
<1> QED BY <1>1, <1>2, <1>3 DEF Ready, Free

\* The commands after an exception.
LEMMA RescueSound ==
  ASSUME NEW w, SoundTodo(job[w].todo), job[w].todo # <<>>
  PROVE  SoundTodo(Rescue(w))
<1> DEFINE t == job[w].todo
           later == {i \in 2..Len(t) : t[i].do \in {"select", "expunge"}}
           forget == {i \in 2..Len(t) : t[i].do = "forget"}
<1>1. PICK S : t \in Seq(S) BY DEF SoundTodo
<1>2. Len(t) \in Nat /\ DOMAIN t = 1..Len(t) /\ Len(t) # 0 BY <1>1
<1>3. later \subseteq DOMAIN t /\ forget \subseteq DOMAIN t /\ later \subseteq Nat BY <1>2
<1>4. SoundTodo(Tail(t)) BY TailSound
<1>5. \A k \in DOMAIN t : SoundTodo(SubSeq(t, k, Len(t))) BY SubSound
<1>6. forget # {} => (CHOOSE i \in forget : TRUE) \in forget OBVIOUS
<1>7. later # {} => (CHOOSE i \in later : \A k \in later : i <= k) \in later
  <2> HIDE DEF later
  <2> QED BY <1>3, LeastNatural
<1>8. (\E i \in DOMAIN t : t[i] = McpExpunge) /\ Head(t) # McpExpunge => later # {}
  BY <1>1, <1>2 DEF McpExpunge
<1> HIDE DEF later, forget
<1> QED BY <1>3, <1>4, <1>5, <1>6, <1>7, <1>8, ShortSound DEF Rescue, later, forget

\* A step that leaves the copies alone and interrupts no move between its COPY
\* and its STORE, or ends it.
LEMMA StillKeeps ==
  ASSUME IInv, UNCHANGED <<exists, of, box, keyword>>, spent \subseteq spent',
         rows' \subseteq Rows, \A r \in rows' : Given(r.uid),
         JobsOK',
         \A w \in Workers : \/ job'[w].copied = 0
                            \/ job'[w].copied = job[w].copied /\ job'[w].sel = job[w].sel
  PROVE  IInv'
<1>1. StoreOK' BY DEF IInv, StoreOK
<1>2. PlacedOK' BY DEF IInv, PlacedOK, Given
<1>3. CopiedOK'
  <2> SUFFICES ASSUME NEW w \in Workers PROVE LaterCopy(job[w])' BY DEF CopiedOK
  <2>1. LaterCopy(job[w]) BY DEF IInv, CopiedOK
  <2> QED BY <2>1 DEF LaterCopy, InFolder, Alive
<1>4. NoLoss' BY DEF IInv, NoLoss, Alive
<1> QED BY <1>1, <1>2, <1>3, <1>4 DEF IInv

\* Such a step of one request.
LEMMA GoesKeeps ==
  ASSUME IInv, NEW w \in Workers, NEW j, JobOK(j), j.copied = 0, job' = [job EXCEPT ![w] = j],
         UNCHANGED <<exists, of, box, keyword>>, spent \subseteq spent',
         rows' \subseteq Rows, \A r \in rows' : Given(r.uid)
  PROVE  IInv'
<1>1. \A x : JobOK(x) => JobOK(x)' BY DEF JobOK, SoundTodo, Sound, Given
<1>2. job' = [x \in Workers |-> IF x = w THEN j ELSE job[x]] BY DEF IInv, JobsOK
<1>3. JobsOK' BY <1>1, <1>2 DEF IInv, JobsOK
<1>4. \A x \in Workers : \/ job'[x].copied = 0
                         \/ job'[x].copied = job[x].copied /\ job'[x].sel = job[x].sel
  BY <1>2
<1> QED BY <1>3, <1>4, StillKeeps

\* A request at a command that is no move.
LEMMA AtCommand ==
  ASSUME IInv, NEW w \in Workers, NEW c, At(w, c), c # "move"
  PROVE  /\ JobOK(job[w]) /\ job[w].copied = 0 /\ SoundTodo(job[w].todo) /\ job[w].todo # <<>>
         /\ Cmd(w).do = c /\ Sound(Cmd(w)) /\ SoundTodo(Left(w))
<1>1. JobOK(job[w]) BY DEF IInv, JobsOK
<1>2. job[w].todo # <<>> /\ Cmd(w).do = c BY DEF At, Cmd
<1>3. job[w].copied = 0 /\ SoundTodo(job[w].todo) BY <1>1, <1>2 DEF JobOK, Cmd
<1> QED BY <1>1, <1>2, <1>3, TailSound DEF Cmd, Left

\* It goes on with other commands.
LEMMA GoesOn ==
  ASSUME IInv, NEW w \in Workers, job[w].copied = 0, NEW t, SoundTodo(t), Goes(w, t),
         UNCHANGED <<exists, of, box, keyword>>, spent \subseteq spent',
         rows' \subseteq Rows, \A r \in rows' : Given(r.uid)
  PROVE  IInv'
<1>1. JobOK(job[w]) BY DEF IInv, JobsOK
<1> DEFINE j == Ready([job[w] EXCEPT !.todo = t])
<1>2. JobOK(j) /\ j.copied = 0 BY <1>1, ReadyOK
<1>3. job' = [job EXCEPT ![w] = j] BY DEF Goes, IInv, JobsOK
<1> HIDE DEF j
<1> QED BY <1>2, <1>3, GoesKeeps

\* What every step keeps that leaves rows, the preference and the server alone.
LEMMA RestKeeps ==
  ASSUME IInv
  PROVE  rows \subseteq Rows /\ \A r \in rows : Given(r.uid)
BY DEF IInv, StoreOK, PlacedOK

\* The changes of a request that touch more than one of its fields.
Selected(j, t, s) == [j EXCEPT !.todo = t, !.sel = s]
Raised(j, t, s) == [j EXCEPT !.todo = t, !.copied = 0, !.sel = s]
Stored(j, t, u) == [j EXCEPT !.todo = t, !.copied = 0, !.done = j.done \union {u}]

\* select_folder sets two of them.
LEMMA JobSelected ==
  ASSUME NEW j, JobOK(j), NEW t, NEW s
  PROVE  Selected(j, t, s) = [todo |-> t, sel |-> s, copied |-> j.copied, done |-> j.done]
<1> DEFINE a == [j EXCEPT !.todo = t]
<1>1. a = [todo |-> t, sel |-> j.sel, copied |-> j.copied, done |-> j.done] BY DEF JobOK
<1>2. Selected(j, t, s) = [a EXCEPT !.sel = s] BY DEF Selected
<1> HIDE DEF a
<1> QED BY <1>1, <1>2

\* An exception sets three.
LEMMA JobRaised ==
  ASSUME NEW j, JobOK(j), NEW t, NEW s
  PROVE  Raised(j, t, s) = [todo |-> t, sel |-> s, copied |-> 0, done |-> j.done]
<1> DEFINE a == [j EXCEPT !.todo = t]
           b == [a EXCEPT !.copied = 0]
<1>1. a = [todo |-> t, sel |-> j.sel, copied |-> j.copied, done |-> j.done] BY DEF JobOK
<1>2. Raised(j, t, s) = [b EXCEPT !.sel = s] BY DEF Raised
<1> HIDE DEF a
<1>3. b = [todo |-> t, sel |-> j.sel, copied |-> 0, done |-> j.done] BY <1>1
<1> HIDE DEF b
<1> QED BY <1>2, <1>3

\* So does the STORE of a move.
LEMMA JobStored ==
  ASSUME NEW j, JobOK(j), NEW t, NEW u
  PROVE  Stored(j, t, u) = [todo |-> t, sel |-> j.sel, copied |-> 0, done |-> j.done \union {u}]
<1> DEFINE a == [j EXCEPT !.todo = t]
           b == [a EXCEPT !.copied = 0]
<1>1. a = [todo |-> t, sel |-> j.sel, copied |-> j.copied, done |-> j.done] BY DEF JobOK
<1>2. Stored(j, t, u) = [b EXCEPT !.done = j.done \union {u}] BY DEF Stored
<1> HIDE DEF a
<1>3. b = [todo |-> t, sel |-> j.sel, copied |-> 0, done |-> j.done] BY <1>1
<1> HIDE DEF b
<1> QED BY <1>2, <1>3

\* An exception.
LEMMA RaisesKeeps ==
  ASSUME IInv, NEW w \in Workers, job[w].todo # <<>>, Raises(w)
  PROVE  IInv'
<1>1. JobOK(job[w]) /\ job = [x \in Workers |-> job[x]] BY DEF IInv, JobsOK
<1>2. SoundTodo(Rescue(w)) BY <1>1, RescueSound DEF JobOK
<1> DEFINE s == IF At(w, "select") THEN None ELSE job[w].sel
           k == [todo |-> Rescue(w), sel |-> s, copied |-> 0, done |-> job[w].done]
           j == Ready(k)
<1>3. job' = [job EXCEPT ![w] = j]
  <2>1. job' = [job EXCEPT ![w] = Ready(Raised(job[w], Rescue(w), s))] BY DEF Raises, Raised
  <2>2. Raised(job[w], Rescue(w), s) = k BY <1>1, JobRaised
  <2> HIDE DEF k
  <2> QED BY <2>1, <2>2
<1>4. s \in exists \union {None} BY <1>1 DEF JobOK
<1> HIDE DEF s
<1>6. JobOK(k) /\ k.copied = 0 BY <1>2, <1>4 DEF JobOK
<1> HIDE DEF k
<1>7. JobOK(Free) BY ShortSound DEF JobOK, Free
<1>8. JobOK(j) /\ j.copied = 0 BY <1>6, <1>7 DEF Ready, Free
<1>9. UNCHANGED <<exists, of, box, cache, user, ghost>> BY DEF Raises
<1> HIDE DEF j
<1> QED BY <1>3, <1>8, <1>9, RestKeeps, GoesKeeps DEF cache, user, ghost

\* The commands that only read the server, or write the cache and the session.
LEMMA QuietKeeps ==
  ASSUME IInv, NEW w \in Workers,
         \/ Fail(w) \/ DoSelect(w) \/ DoDrop(w) \/ DoForget(w) \/ DoNote(w) \/ DoToken(w)
         \/ DoListJunk(w) \/ DoProbe(w) \/ DoFind(w) \/ DoItem(w) \/ DoRenameRows(w) \/ DoDeleteRows(w)
  PROVE  IInv'
<1>0. JobOK(job[w]) /\ job = [x \in Workers |-> job[x]] BY DEF IInv, JobsOK
<1>1. CASE Fail(w) BY <1>1, RaisesKeeps DEF Fail
<1>2. CASE DoSelect(w)
  <2>0. JobOK(job[w]) /\ job[w].copied = 0 /\ job[w].todo # <<>> /\ SoundTodo(Left(w))
    BY <1>2, AtCommand DEF DoSelect
  <2>1. CASE Cmd(w).folder \in exists
    <3> DEFINE j == [todo |-> Left(w), sel |-> Cmd(w).folder, copied |-> 0, done |-> job[w].done]
    <3>1. JobOK(j) BY <2>0, <2>1 DEF JobOK
    <3>2. job' = [job EXCEPT ![w].todo = Left(w), ![w].sel = Cmd(w).folder]
          /\ UNCHANGED <<exists, of, box, cache, user, ghost>>
      BY <1>2, <2>1 DEF DoSelect
    <3>3. job' = [job EXCEPT ![w] = Selected(job[w], Left(w), Cmd(w).folder)]
      BY <1>0, <3>2 DEF Selected
    <3>4. Selected(job[w], Left(w), Cmd(w).folder) = j BY <2>0, JobSelected
    <3>5. job' = [job EXCEPT ![w] = j] BY <3>3, <3>4
    <3> QED BY <3>1, <3>2, <3>5, RestKeeps, GoesKeeps DEF cache, user, ghost
  <2>2. CASE Cmd(w).folder \notin exists
    <3>1. Raises(w) BY <1>2, <2>2 DEF DoSelect
    <3> QED BY <2>0, <3>1, RaisesKeeps
  <2> QED BY <2>1, <2>2
<1>3. CASE DoDrop(w)
  <2>1. job[w].copied = 0 /\ SoundTodo(Left(w)) BY <1>3, AtCommand DEF DoDrop
  <2> QED BY <1>3, <2>1, RestKeeps, GoesOn DEF DoDrop, user, ghost
<1>4. CASE DoForget(w)
  <2>1. job[w].copied = 0 /\ SoundTodo(Left(w)) BY <1>4, AtCommand DEF DoForget
  <2>2. rows' \subseteq rows BY <1>4 DEF DoForget
  <2> QED BY <1>4, <2>1, <2>2, RestKeeps, GoesOn DEF DoForget, user
<1>5. CASE DoNote(w)
  <2>1. job[w].copied = 0 /\ SoundTodo(Left(w)) /\ Cmd(w).row \in Rows
    BY <1>5, AtCommand DEF DoNote, Sound
  <2>2. \A r \in rows' : r \in rows \/ (r = Cmd(w).row /\ \E x \in rows : x.uid = r.uid)
    BY <1>5 DEF DoNote
  <2>3. rows' \subseteq Rows /\ \A r \in rows' : Given(r.uid) BY <2>1, <2>2, RestKeeps
  <2> QED BY <1>5, <2>1, <2>3, RestKeeps, GoesOn DEF DoNote, user, ghost
<1>6. CASE DoToken(w)
  <2>1. job[w].copied = 0 /\ SoundTodo(Left(w)) BY <1>6, AtCommand DEF DoToken
  <2> QED BY <1>6, <2>1, RestKeeps, GoesOn DEF DoToken, cache, ghost
<1>7. CASE DoListJunk(w)
  <2>1. job[w].copied = 0 /\ SoundTodo(Left(w)) /\ Cmd(w).uid \in Uids /\ Given(Cmd(w).uid)
    BY <1>7, AtCommand DEF DoListJunk, Sound
  <2>2. SoundTodo(<<Keyword(Cmd(w).uid), Move(Cmd(w).uid, Junk), Expunge>> \o Left(w))
    BY <2>1, CommandsSound, ShortSound, CatSound
  <2>4. UNCHANGED <<exists, of, box, keyword, rows, spent>> BY <1>7 DEF DoListJunk, cache, ghost
  <2>5. \/ Goes(w, <<Keyword(Cmd(w).uid), Move(Cmd(w).uid, Junk), Expunge>> \o Left(w))
        \/ Goes(w, <<>>)
    BY <1>7 DEF DoListJunk
  <2> QED BY <2>1, <2>2, <2>4, <2>5, RestKeeps, ShortSound, GoesOn
<1>8. CASE DoProbe(w)
  <2>1. job[w].copied = 0 /\ (Cmd(w).lost \/ ~keyword) BY <1>8, AtCommand DEF DoProbe, Sound
  <2> QED BY <1>8, <2>1, RestKeeps, ShortSound, GoesOn DEF DoProbe, cache, ghost
<1>9. CASE DoFind(w)
  <2>1. job[w].copied = 0 BY <1>9, AtCommand DEF DoFind
  <2>2. UNCHANGED <<exists, of, box, cache, user, ghost>> BY <1>9 DEF DoFind
  <2>3. PICK t : Goes(w, t) /\ SoundTodo(t)
    <3> DEFINE c == Cmd(w).undo
               Back(u) == (IF c.type \in {"junk", "not_spam"}
                     THEN <<Mark(u, "junk", c.type = "not_spam", FALSE)>> ELSE <<>>)
                    \o <<Move(u, c.source), Expunge, Token(None)>>
    <3>1. \/ Goes(w, <<Token(None)>>)
          \/ \E u \in {x \in Uids : InFolder(x, job[w].sel) /\ of[x] = c.msg} : Goes(w, Back(u))
      BY <1>9 DEF DoFind
    <3>2. ASSUME NEW u \in Uids, InFolder(u, job[w].sel) PROVE SoundTodo(Back(u))
      <4>1. Given(u) BY <3>2 DEF InFolder, IInv, PlacedOK
      <4>2. Sound(Mark(u, "junk", c.type = "not_spam", FALSE)) BY CommandsSound DEF Flags
      <4>3. SoundTodo(<<Move(u, c.source), Expunge, Token(None)>>)
        BY <4>1, CommandsSound, ShortSound
      <4> QED BY <4>2, <4>3, ShortSound, CatSound
    <3>3. SoundTodo(<<Token(None)>>) BY CommandsSound, ShortSound
    <3> QED BY <3>1, <3>2, <3>3
  <2> QED BY <2>1, <2>2, <2>3, RestKeeps, GoesOn DEF cache, user, ghost
<1>10. CASE DoItem(w)
  <2>1. /\ job[w].copied = 0 /\ SoundTodo(Left(w))
        /\ Cmd(w).act \in {"delete", "move"} \union Guards
    BY <1>10, AtCommand DEF DoItem, Sound
  <2>2. UNCHANGED <<exists, of, box, cache, user, ghost>> BY <1>10 DEF DoItem
  <2>3. PICK t : Goes(w, t) /\ SoundTodo(t)
    <3> DEFINE c == Cmd(w)
               does(r) == CASE c.act = "delete" -> <<Move(r.uid, Trash)>>
                      [] c.act = "move" -> <<Move(r.uid, c.folder)>>
                      [] OTHER -> <<Mark(r.uid, c.act, TRUE, TRUE), Note(r, r.flags \union {c.act})>>
    <3>1. \/ Goes(w, Left(w))
          \/ \E r \in rows : Goes(w, <<Select(r.folder)>> \o does(r) \o Left(w))
      BY <1>10 DEF DoItem
    <3>2. ASSUME NEW r \in rows PROVE SoundTodo(<<Select(r.folder)>> \o does(r) \o Left(w))
      <4>1. r \in Rows /\ r.uid \in Uids /\ Given(r.uid) /\ r.flags \subseteq Flags
        BY RestKeeps DEF Rows
      <4>2. SoundTodo(does(r))
        <5>1. CASE c.act \in {"delete", "move"}
          <6>1. SoundTodo(<<Move(r.uid, Trash)>>) /\ SoundTodo(<<Move(r.uid, c.folder)>>)
            BY <4>1, CommandsSound, ShortSound
          <6> QED BY <5>1, <6>1
        <5>2. CASE c.act \notin {"delete", "move"}
          <6>1. c.act \in Flags BY <2>1, <5>2 DEF Flags
          <6>2. r.flags \union {c.act} \in SUBSET Flags BY <4>1, <6>1
          <6>3. SoundTodo(<<Mark(r.uid, c.act, TRUE, TRUE), Note(r, r.flags \union {c.act})>>)
            BY <4>1, <6>1, <6>2, CommandsSound, ShortSound
          <6> QED BY <5>2, <6>3
        <5> QED BY <5>1, <5>2
      <4>3. SoundTodo(<<Select(r.folder)>>) BY CommandsSound, ShortSound
      <4> HIDE DEF does
      <4> QED BY <2>1, <4>2, <4>3, CatSound
    <3> HIDE DEF does
    <3> QED BY <2>1, <3>1, <3>2
  <2> QED BY <2>1, <2>2, <2>3, RestKeeps, GoesOn DEF cache, user, ghost
<1>11. CASE DoRenameRows(w)
  <2>1. job[w].copied = 0 /\ SoundTodo(Left(w)) /\ Cmd(w).to \in Folders
    BY <1>11, AtCommand DEF DoRenameRows, Sound
  <2> DEFINE name(f) == IF f = Cmd(w).folder THEN Cmd(w).to ELSE f
  <2>2. rows' = {[r EXCEPT !.folder = name(@)] : r \in rows} BY <1>11 DEF DoRenameRows
  <2>3. ASSUME NEW r \in rows
        PROVE  [r EXCEPT !.folder = name(@)] \in Rows /\ [r EXCEPT !.folder = name(@)].uid = r.uid
    <3>1. r \in Rows BY RestKeeps
    <3> QED BY <2>1, <3>1 DEF Rows
  <2>4. rows' \subseteq Rows /\ \A r \in rows' : Given(r.uid) BY <2>2, <2>3, RestKeeps
  <2> QED BY <1>11, <2>1, <2>4, RestKeeps, GoesOn DEF DoRenameRows, user, ghost
<1>12. CASE DoDeleteRows(w)
  <2>1. job[w].copied = 0 /\ SoundTodo(Left(w)) BY <1>12, AtCommand DEF DoDeleteRows
  <2>2. rows' \subseteq rows BY <1>12 DEF DoDeleteRows
  <2> QED BY <1>12, <2>1, <2>2, RestKeeps, GoesOn DEF DoDeleteRows, user, ghost
<1> QED BY <1>1, <1>2, <1>3, <1>4, <1>5, <1>6, <1>7, <1>8, <1>9, <1>10, <1>11, <1>12

-----------------------------------------------------------------------------
(* Steps that change the copies on the server *)

\* A request stays sound while its folder stays.
LEMMA JobStays ==
  ASSUME NEW j, JobOK(j), j.sel \in exists' \union {None},
         \A u \in Uids : Given(u) => Given(u)', UNCHANGED keyword
  PROVE  JobOK(j)'
<1>1. \A c : Sound(c) => Sound(c)' BY DEF Sound
<1>2. SoundTodo(j.todo) => SoundTodo(j.todo)' BY <1>1 DEF SoundTodo
<1> QED BY <1>2 DEF JobOK

\* The copy that a request is about to mark.
LEMMA CopiedGiven ==
  ASSUME NEW j, JobOK(j), j.copied # 0
  PROVE  j.copied \in Uids /\ Given(j.copied)
<1>1. j.todo # <<>> /\ Head(j.todo).do = "move" /\ Head(j.todo).uid = j.copied /\ SoundTodo(j.todo)
  BY DEF JobOK
<1>2. Sound(Head(j.todo)) BY <1>1, TailSound
<1> QED BY <1>1, <1>2 DEF Sound

\* A step that loses a copy which is not marked only when a later one of the
\* same message is there, and gives a uid only to a message that keeps a copy.
LEMMA ServerKeeps ==
  ASSUME IInv, StoreOK', PlacedOK', JobsOK', spent \subseteq spent',
         \A u \in Uids : Given(u) => of'[u] = of[u],
         \A u \in Uids : Given(u) /\ Alive(u)' => Alive(u) \/ of[u] \in spent',
         \A u \in Uids : Given(u) /\ Alive(u) =>
            of[u] \in spent' \/ \E v \in Uids : u <= v /\ of'[v] = of[u] /\ Alive(v)',
         \A u \in Uids : ~Given(u) /\ Given(u)' =>
            Alive(u)' \/ \E v \in Uids : Given(v) /\ of[v] = of'[u],
         \A w \in Workers :
            \/ job'[w].copied = 0
            \/ /\ job'[w].copied = job[w].copied
               /\ InFolder(job[w].copied, job[w].sel)' => InFolder(job[w].copied, job[w].sel)
            \/ LaterCopy(job[w])'
  PROVE  IInv'
<1>0. \A u \in Uids : Alive(u) => Given(u) BY DEF Alive, IInv, PlacedOK
<1>1. NoLoss'
  <2> SUFFICES ASSUME NEW m \in Msgs \ spent', NEW u \in Uids, of'[u] = m
               PROVE  \E v \in Uids : of'[v] = m /\ Alive(v)'
    BY DEF NoLoss
  <2>1. m # None /\ m \in Msgs \ spent /\ Given(u)' BY MovesAssumption DEF Given
  <2>2. ASSUME NEW x \in Uids, Given(x), of[x] = m
        PROVE  \E v \in Uids : of'[v] = m /\ Alive(v)'
    <3>1. PICK y \in Uids : of[y] = m /\ Alive(y) BY <2>1, <2>2 DEF IInv, NoLoss
    <3> QED BY <1>0, <3>1
  <2>3. CASE Given(u) BY <2>2, <2>3
  <2>4. CASE ~Given(u)
    <3>1. CASE Alive(u)' BY <3>1
    <3>2. CASE \E v \in Uids : Given(v) /\ of[v] = of'[u] BY <2>2, <3>2
    <3> QED BY <2>1, <2>4, <3>1, <3>2
  <2> QED BY <2>3, <2>4
<1>2. CopiedOK'
  <2> SUFFICES ASSUME NEW w \in Workers PROVE LaterCopy(job[w])' BY DEF CopiedOK
  <2>1. CASE job'[w].copied = 0 BY <2>1 DEF LaterCopy
  <2>2. CASE /\ job'[w].copied = job[w].copied /\ job[w].copied # 0
             /\ InFolder(job[w].copied, job[w].sel)' => InFolder(job[w].copied, job[w].sel)
    <3> DEFINE u == job[w].copied
    <3>0. u \in Uids /\ Given(u) BY <2>2, CopiedGiven DEF IInv, JobsOK
    <3> SUFFICES ASSUME of'[u] \notin spent', InFolder(job[w].copied, job[w].sel)', Alive(u)'
                 PROVE  \E v \in Uids : u < v /\ of'[v] = of'[u] /\ Alive(v)'
      BY <2>2 DEF LaterCopy
    <3>1. of'[u] = of[u] /\ of[u] \notin spent /\ InFolder(u, job[w].sel) /\ Alive(u)
      BY <2>2, <3>0
    <3>2. PICK v \in Uids : u < v /\ of[v] = of[u] /\ Alive(v)
      BY <2>2, <3>1 DEF IInv, CopiedOK, LaterCopy
    <3>3. PICK x \in Uids : v <= x /\ of'[x] = of[v] /\ Alive(x)' BY <1>0, <3>1, <3>2
    <3>4. u < x BY <3>0, <3>2, <3>3 DEF Uids
    <3> QED BY <3>1, <3>2, <3>3, <3>4
  <2> QED BY <2>1, <2>2
<1> QED BY <1>1, <1>2 DEF IInv

\* Only request w changes.
LEMMA OthersStay ==
  ASSUME IInv, NEW w \in Workers, NEW j, JobOK(j), job' = [job EXCEPT ![w] = j],
         exists \subseteq exists', \A u \in Uids : Given(u) => Given(u)', UNCHANGED keyword
  PROVE  JobsOK' /\ job'[w] = j /\ \A x \in Workers \ {w} : job'[x] = job[x]
<1>1. job' = [x \in Workers |-> IF x = w THEN j ELSE job[x]] BY DEF IInv, JobsOK
<1>2. \A x \in Workers : JobOK(job'[x]) /\ job'[x].sel \in exists \union {None}
  BY <1>1 DEF IInv, JobsOK, JobOK
<1>3. ASSUME NEW x \in Workers PROVE JobOK(job[x])'
  <2> DEFINE k == job'[x]
  <2>1. JobOK(k) /\ k.sel \in exists' \union {None} BY <1>2
  <2> HIDE DEF k
  <2>2. ASSUME NEW i, i = k PROVE JobOK(i) => JobOK(i)'
    BY <2>1, <2>2, JobStays
  <2> QED BY <2>1, <2>2 DEF k, JobOK
<1> QED BY <1>1, <1>3 DEF JobsOK

\* A folder is created.
LEMMA GrowKeeps ==
  ASSUME IInv, NEW w \in Workers, NEW j, JobOK(j), j.copied = 0, job' = [job EXCEPT ![w] = j],
         exists \subseteq exists', exists' \subseteq Folders,
         UNCHANGED <<of, box, rows, keyword, spent>>
  PROVE  IInv'
<1>1. JobsOK' /\ job'[w] = j /\ \A x \in Workers \ {w} : job'[x] = job[x]
  BY OthersStay DEF Given
<1>2. StoreOK' /\ PlacedOK'
  BY DEF IInv, StoreOK, PlacedOK, Given
<1>3. \A u \in Uids : u <= u BY DEF Uids
<1> QED BY <1>1, <1>2, <1>3, ServerKeeps DEF Given, Alive, InFolder

\* create_folder
LEMMA CreateKeeps ==
  ASSUME IInv, NEW w \in Workers, DoCreate(w)
  PROVE  IInv'
<1>1. /\ JobOK(job[w]) /\ job[w].copied = 0 /\ SoundTodo(Left(w)) /\ Cmd(w).folder \in Folders
  BY AtCommand DEF DoCreate, Sound
<1> DEFINE j == Ready([job[w] EXCEPT !.todo = Left(w)])
<1>2. JobOK(j) /\ j.copied = 0 BY <1>1, ReadyOK
<1>3. job' = [job EXCEPT ![w] = j] BY DEF DoCreate, Goes, IInv, JobsOK
<1> HIDE DEF j
<1>4. exists' = exists \union {Cmd(w).folder} /\ UNCHANGED <<of, box, cache, user, ghost>>
  BY DEF DoCreate
<1>5. Cmd(w).folder \in Folders BY <1>1
<1> QED BY <1>2, <1>3, <1>4, <1>5, GrowKeeps DEF IInv, StoreOK, cache, user, ghost

\* The trash of the API.
LEMMA TrashKeeps ==
  ASSUME IInv, NEW w \in Workers, DoTrash(w)
  PROVE  IInv'
<1>1. JobOK(job[w]) /\ job[w].copied = 0 /\ SoundTodo(Left(w))
  BY AtCommand DEF DoTrash
<1> DEFINE t == IF Trash \notin exists /\ Deleted \in exists THEN Deleted ELSE Trash
           n == [i \in DOMAIN Left(w) |->
                   IF Left(w)[i].do = "move" THEN Move(Left(w)[i].uid, t) ELSE Left(w)[i]]
           j == Ready([job[w] EXCEPT !.todo = n])
<1>2. SoundTodo(n)
  <2> HIDE DEF t
  <2>1. PICK S : Left(w) \in Seq(S) BY <1>1 DEF SoundTodo
  <2> DEFINE R == {n[i] : i \in DOMAIN Left(w)}
  <2>2. DOMAIN Left(w) = 1..Len(Left(w)) /\ Len(Left(w)) \in Nat BY <2>1
  <2>3. n \in [1..Len(Left(w)) -> R] BY <2>2
  <2>4. n \in Seq(R) BY <2>2, <2>3
  <2>5. ASSUME NEW i \in DOMAIN Left(w) PROVE Sound(n[i])
    <3>1. Sound(Left(w)[i]) BY <1>1 DEF SoundTodo
    <3>2. n[i] = IF Left(w)[i].do = "move" THEN Move(Left(w)[i].uid, t) ELSE Left(w)[i] BY <2>2
    <3>3. CASE Left(w)[i].do = "move"
      <4>1. Left(w)[i].uid \in Uids /\ Given(Left(w)[i].uid) BY <3>1, <3>3 DEF Sound
      <4> QED BY <3>2, <3>3, <4>1, CommandsSound
    <3> QED BY <3>1, <3>2, <3>3
  <2> QED BY <2>4, <2>5 DEF SoundTodo
<1>3. JobOK(j) /\ j.copied = 0
  <2> HIDE DEF n
  <2> QED BY <1>1, <1>2, ReadyOK
<1>4. job' = [job EXCEPT ![w] = j] BY DEF DoTrash, Goes, IInv, JobsOK
<1>5. exists' = exists \union {t} /\ UNCHANGED <<of, box, cache, user, ghost>> BY DEF DoTrash
<1>6. t \in Folders BY DEF Folders, System
<1> HIDE DEF j, t
<1> QED BY <1>3, <1>4, <1>5, <1>6, GrowKeeps DEF IInv, StoreOK, cache, user, ghost

\* A step that only changes the flags of copies or expunges them.
LEMMA FlagsKeep ==
  ASSUME IInv, NEW w \in Workers, NEW j, JobOK(j), j.copied = 0, job' = [job EXCEPT ![w] = j],
         UNCHANGED <<exists, of, rows, keyword, pref>>, spent \subseteq spent',
         box' \in [Uids -> Copies \union {None}],
         \A u \in Uids : box'[u] # None => box[u] # None /\ box'[u].folder = box[u].folder,
         \A u \in Uids : Alive(u)' => Alive(u) \/ of[u] \in spent',
         \A u \in Uids : Alive(u) =>
            of[u] \in spent' \/ \E v \in Uids : u <= v /\ of[v] = of[u] /\ Alive(v)'
  PROVE  IInv'
<1>1. JobsOK' /\ job'[w] = j /\ \A x \in Workers \ {w} : job'[x] = job[x]
  BY OthersStay DEF Given
<1>2. StoreOK' /\ PlacedOK'
  BY DEF IInv, StoreOK, PlacedOK, Given
<1>3. ASSUME NEW x \in Workers, job'[x].copied # 0
      PROVE  /\ job'[x].copied = job[x].copied
             /\ InFolder(job[x].copied, job[x].sel)' => InFolder(job[x].copied, job[x].sel)
  <2>1. job'[x] = job[x] BY <1>1, <1>3
  <2>2. job[x].copied \in Uids BY <1>3, <2>1, CopiedGiven DEF IInv, JobsOK
  <2> QED BY <2>1, <2>2 DEF InFolder
<1> QED BY <1>1, <1>2, <1>3, ServerKeeps DEF Given

\* A copy is no missing one.
LEMMA CopyFound == \A c \in Copies : c # None /\ c = [folder |-> c.folder, flags |-> c.flags]
BY NoneAssumption DEF Copies

\* STORE of the flags of a copy that is there.
Reflagged(u, F) == [box EXCEPT ![u].flags = F]

\* It leaves the other copies alone, and its own where it is.
LEMMA FlaggedBox ==
  ASSUME StoreOK, NEW u, u \in Uids => box[u] # None, NEW F \in SUBSET Flags
  PROVE  /\ Reflagged(u, F) \in [Uids -> Copies \union {None}]
         /\ \A v \in Uids \ {u} : Reflagged(u, F)[v] = box[v]
         /\ u \in Uids => /\ Reflagged(u, F)[u] # None
                          /\ Reflagged(u, F)[u].folder = box[u].folder
                          /\ Reflagged(u, F)[u].flags = F
<1> DEFINE B == [box EXCEPT ![u].flags = F]
<1>1. Reflagged(u, F) = B BY DEF Reflagged
<1>2. CASE u \in Uids
  <2>1. box[u] \in Copies /\ box = [v \in Uids |-> box[v]] BY <1>2 DEF StoreOK
  <2>4. B = [v \in Uids |-> IF v = u THEN [box[u] EXCEPT !.flags = F] ELSE box[v]]
    BY <1>2, <2>1
  <2>5. [box[u] EXCEPT !.flags = F] \in Copies /\ [box[u] EXCEPT !.flags = F].folder = box[u].folder
        /\ [box[u] EXCEPT !.flags = F].flags = F
    BY <2>1 DEF Copies
  <2>6. B[u] \in Copies /\ B[u].folder = box[u].folder /\ B[u].flags = F BY <1>2, <2>4, <2>5
  <2>7. \A v \in Uids \ {u} : B[v] = box[v] BY <2>4
  <2>8. B \in [Uids -> Copies \union {None}] BY <2>4, <2>5 DEF StoreOK
  <2> HIDE DEF B
  <2>9. B[u] # None BY <2>6, CopyFound
  <2> QED BY <1>1, <2>6, <2>7, <2>8, <2>9
<1>3. CASE u \notin Uids
  <2>1. B = box BY <1>3 DEF StoreOK
  <2> QED BY <1>1, <1>3, <2>1 DEF StoreOK
<1> QED BY <1>2, <1>3

\* set_flag: what marks a message \Deleted this way spends it.
LEMMA MarkKeeps ==
  ASSUME IInv, NEW w \in Workers, DoMark(w)
  PROVE  IInv'
<1>1. /\ JobOK(job[w]) /\ job[w].copied = 0 /\ SoundTodo(Left(w)) /\ job[w].todo # <<>>
      /\ Cmd(w).flag \in Flags
  BY AtCommand DEF DoMark, Sound
<1> DEFINE c == Cmd(w)
           takes == c.flag # "junk" \/ keyword
           u == c.uid
<1>2. CASE c.strict /\ ~takes
  <2>1. Raises(w) BY <1>2 DEF DoMark
  <2> QED BY <1>1, <2>1, RaisesKeeps
<1>3. CASE ~(c.strict /\ ~takes)
  <2> DEFINE j == Ready([job[w] EXCEPT !.todo = Left(w)])
  <2>1. JobOK(j) /\ j.copied = 0 BY <1>1, ReadyOK
  <2>2. job' = [job EXCEPT ![w] = j] BY <1>3 DEF DoMark, Goes, IInv, JobsOK
  <2>3. /\ box' = IF takes /\ InFolder(u, job[w].sel) THEN Flagged(u, c.flag, c.on) ELSE box
        /\ spent' = IF c.flag = "gone" THEN spent \union {of[u]} ELSE spent
        /\ UNCHANGED <<exists, of, cache, user>>
    BY <1>3 DEF DoMark
  <2> HIDE DEF j, takes
  <2>4. \A x \in Uids : x <= x BY DEF Uids
  <2>5. CASE box' = box
    BY <2>1, <2>2, <2>3, <2>4, <2>5, FlagsKeep DEF cache, user, Alive, IInv, StoreOK
  <2>6. CASE InFolder(u, job[w].sel) /\ box' = Flagged(u, c.flag, c.on)
    <3> DEFINE F == IF c.on THEN box[u].flags \union {c.flag} ELSE box[u].flags \ {c.flag}
    <3>1. /\ box' \in [Uids -> Copies \union {None}]
          /\ \A v \in Uids \ {u} : box'[v] = box[v]
          /\ u \in Uids => /\ box'[u] # None /\ box'[u].folder = box[u].folder
                           /\ box'[u].flags = F
      <4>1. box' = Reflagged(u, F) BY <2>6 DEF Flagged, Reflagged
      <4>2. u \in Uids => F \in SUBSET Flags
        <5>1. u \in Uids => box[u] \in Copies BY <2>6 DEF InFolder, IInv, StoreOK
        <5> QED BY <1>1, <5>1 DEF Copies
      <4>3. u \notin Uids => box' = box BY <2>6 DEF Flagged, IInv, StoreOK
      <4> HIDE DEF F
      <4>4. box[u] # None BY <2>6 DEF InFolder
      <4> QED BY <4>1, <4>2, <4>3, <4>4, FlaggedBox DEF IInv, StoreOK
    <3>2. ASSUME NEW v \in Uids
          PROVE  /\ box'[v] # None => box[v] # None /\ box'[v].folder = box[v].folder
                 /\ ~(Alive(v)' <=> Alive(v)) => of[v] \in spent'
      <4>1. CASE v = u
        <5>1. box[v] # None BY <2>6, <4>1 DEF InFolder
        <5>2. c.flag # "gone" => ("gone" \in F <=> "gone" \in box[u].flags) OBVIOUS
        <5>3. c.flag = "gone" => of[v] \in spent' BY <2>3, <4>1
        <5> HIDE DEF F
        <5> QED BY <3>1, <4>1, <5>1, <5>2, <5>3 DEF Alive
      <4>2. CASE v # u BY <3>1, <4>2 DEF Alive
      <4> QED BY <4>1, <4>2
    <3> QED BY <2>1, <2>2, <2>3, <2>4, <3>1, <3>2, FlagsKeep DEF cache, user
  <2> QED BY <2>3, <2>5, <2>6
<1> QED BY <1>2, <1>3

\* The STORE of the Junk keyword.
LEMMA KeywordKeeps ==
  ASSUME IInv, NEW w \in Workers, DoKeyword(w)
  PROVE  IInv'
<1>1. JobOK(job[w]) /\ job[w].copied = 0 /\ SoundTodo(Left(w)) BY AtCommand DEF DoKeyword
<1>2. UNCHANGED <<exists, of, cache, user, ghost>> BY DEF DoKeyword
<1>3. CASE UNCHANGED box
  <2>1. PICK t : Goes(w, t) /\ SoundTodo(t)
    <3>1. SoundTodo(<<Probe(Cmd(w).uid, TRUE)>>)
          /\ (~keyword => SoundTodo(<<Probe(Cmd(w).uid, FALSE)>>))
      BY CommandsSound, ShortSound
    <3> QED BY <1>1, <3>1 DEF DoKeyword
  <2> QED BY <1>1, <1>2, <1>3, <2>1, RestKeeps, GoesOn DEF cache, user, ghost
<1>4. CASE box' # box
  <2> DEFINE u == Cmd(w).uid
             j == Ready([job[w] EXCEPT !.todo = Left(w)])
  <2>1. /\ InFolder(u, job[w].sel) /\ box' = Flagged(u, "junk", TRUE) /\ Goes(w, Left(w))
    BY <1>4 DEF DoKeyword
  <2>2. JobOK(j) /\ j.copied = 0 BY <1>1, ReadyOK
  <2>3. job' = [job EXCEPT ![w] = j] BY <2>1 DEF Goes, IInv, JobsOK
  <2> HIDE DEF j
  <2>4. \A x \in Uids : x <= x BY DEF Uids
  <2> DEFINE F == box[u].flags \union {"junk"}
  <2>5. /\ box' = Reflagged(u, F) /\ (u \notin Uids => box' = box)
        /\ u \in Uids => F \in SUBSET Flags
    <3>1. u \in Uids => box[u] \in Copies BY <2>1 DEF InFolder, IInv, StoreOK
    <3> QED BY <2>1, <3>1 DEF Flagged, Reflagged, Copies, Flags, IInv, StoreOK
  <2>6. /\ box' \in [Uids -> Copies \union {None}]
        /\ \A v \in Uids \ {u} : box'[v] = box[v]
        /\ u \in Uids => /\ box'[u] # None /\ box'[u].folder = box[u].folder
                         /\ box'[u].flags = F
    <3>1. box[u] # None BY <2>1 DEF InFolder
    <3> HIDE DEF F, u
    <3> QED BY <2>5, <3>1, FlaggedBox DEF IInv, StoreOK
  <2>7. ASSUME NEW v \in Uids
        PROVE  /\ box'[v] # None => box[v] # None /\ box'[v].folder = box[v].folder
               /\ Alive(v)' <=> Alive(v)
    <3>1. CASE v = u
      <4>1. box[v] # None BY <2>1, <3>1 DEF InFolder
      <4>2. "gone" \in F <=> "gone" \in box[u].flags OBVIOUS
      <4> HIDE DEF F, u
      <4> QED BY <2>6, <3>1, <4>1, <4>2 DEF Alive
    <3>2. CASE v # u BY <2>6, <3>2 DEF Alive
    <3> QED BY <3>1, <3>2
  <2> QED BY <1>2, <2>2, <2>3, <2>4, <2>6, <2>7, FlagsKeep DEF cache, user, ghost
<1> QED BY <1>3, <1>4

\* EXPUNGE removes no copy that is not marked.
LEMMA ExpungeKeeps ==
  ASSUME IInv, NEW w \in Workers, DoExpunge(w)
  PROVE  IInv'
<1>1. JobOK(job[w]) /\ job[w].copied = 0 /\ SoundTodo(Left(w)) /\ job[w].todo # <<>>
  BY AtCommand DEF DoExpunge
<1>2. CASE job[w].sel = None
  <2>1. Raises(w) BY <1>2 DEF DoExpunge
  <2> QED BY <1>1, <2>1, RaisesKeeps
<1>3. CASE job[w].sel # None
  <2> DEFINE j == Ready([job[w] EXCEPT !.todo = Left(w)])
  <2>1. JobOK(j) /\ j.copied = 0 BY <1>1, ReadyOK
  <2>2. job' = [job EXCEPT ![w] = j] BY <1>3 DEF DoExpunge, Goes, IInv, JobsOK
  <2> HIDE DEF j
  <2>3. /\ box' = [u \in Uids |-> IF InFolder(u, job[w].sel) /\ ~Alive(u) THEN None ELSE box[u]]
        /\ UNCHANGED <<exists, of, cache, user, ghost>>
    BY <1>3 DEF DoExpunge
  <2>4. \A x \in Uids : x <= x BY DEF Uids
  <2>5. box' \in [Uids -> Copies \union {None}] BY <2>3 DEF IInv, StoreOK
  <2>6. ASSUME NEW v \in Uids
        PROVE  /\ box'[v] # None => box[v] # None /\ box'[v].folder = box[v].folder
               /\ Alive(v)' <=> Alive(v)
    <3>1. box'[v] = IF InFolder(v, job[w].sel) /\ ~Alive(v) THEN None ELSE box[v] BY <2>3
    <3> QED BY <3>1 DEF Alive, InFolder
  <2> QED BY <2>1, <2>2, <2>3, <2>4, <2>5, <2>6, FlagsKeep DEF cache, user, ghost
<1> QED BY <1>2, <1>3

\* A request whose next command moves a copy.
LEMMA AtMove ==
  ASSUME IInv, NEW w \in Workers, At(w, "move")
  PROVE  /\ JobOK(job[w]) /\ job[w].todo # <<>> /\ SoundTodo(job[w].todo) /\ SoundTodo(Left(w))
         /\ Cmd(w).uid \in Uids /\ Given(Cmd(w).uid)
         /\ job[w].copied # 0 => job[w].copied = Cmd(w).uid
<1>1. JobOK(job[w]) /\ job = [x \in Workers |-> job[x]] BY DEF IInv, JobsOK
<1>2. job[w].todo # <<>> /\ Cmd(w).do = "move" BY DEF At, Cmd
<1>3. SoundTodo(job[w].todo) /\ (job[w].copied # 0 => job[w].copied = Cmd(w).uid)
  BY <1>1 DEF JobOK, Cmd
<1>4. Sound(Cmd(w)) /\ SoundTodo(Left(w)) BY <1>2, <1>3, TailSound DEF Cmd, Left
<1> QED BY <1>1, <1>2, <1>3, <1>4 DEF Sound

\* The STORE of a move: the message has a later copy, unless its COPY failed.
LEMMA StoreKeeps ==
  ASSUME IInv, NEW w \in Workers, DoStore(w)
  PROVE  IInv'
<1>1. /\ JobOK(job[w]) /\ SoundTodo(Left(w)) /\ job = [x \in Workers |-> job[x]]
      /\ job[w].copied \in Uids
  BY AtMove DEF DoStore, IInv, JobsOK
<1> DEFINE u == job[w].copied
           k == [todo |-> Left(w), sel |-> job[w].sel, copied |-> 0, done |-> job[w].done \union {u}]
           j == Ready(k)
<1>2. job' = [job EXCEPT ![w] = j]
  <2>1. job' = [job EXCEPT ![w] = Ready(Stored(job[w], Left(w), u))] BY DEF DoStore, Stored
  <2>2. Stored(job[w], Left(w), u) = k BY <1>1, JobStored
  <2> HIDE DEF k
  <2> QED BY <2>1, <2>2
<1>3. JobOK(k) /\ k.copied = 0 BY <1>1 DEF JobOK
<1>4. JobOK(Free) BY ShortSound DEF JobOK, Free
<1> HIDE DEF k
<1>5. JobOK(j) /\ j.copied = 0 BY <1>3, <1>4 DEF Ready, Free
<1> HIDE DEF j
<1>6. /\ box' = IF InFolder(u, job[w].sel) THEN Flagged(u, "gone", TRUE) ELSE box
      /\ UNCHANGED <<exists, of, cache, user, ghost>>
      /\ u # 0
  BY DEF DoStore
<1>7. \A x \in Uids : x <= x BY DEF Uids
<1>8. CASE ~InFolder(u, job[w].sel)
  BY <1>2, <1>5, <1>6, <1>7, <1>8, FlagsKeep DEF cache, user, ghost, Alive, IInv, StoreOK
<1>9. CASE InFolder(u, job[w].sel)
  <2> DEFINE F == box[u].flags \union {"gone"}
  <2>1. F \in SUBSET Flags /\ box' = Reflagged(u, F) /\ box[u] # None
    <3>1. box[u] \in Copies /\ box[u] # None BY <1>1, <1>9 DEF InFolder, IInv, StoreOK
    <3> QED BY <1>6, <1>9, <3>1 DEF Flagged, Reflagged, Copies, Flags
  <2>2. /\ box' \in [Uids -> Copies \union {None}]
        /\ \A v \in Uids \ {u} : box'[v] = box[v]
        /\ box'[u] # None /\ box'[u].folder = box[u].folder
    <3> HIDE DEF F, u
    <3> QED BY <1>1, <2>1, FlaggedBox DEF IInv, u
  <2>3. box'[u].flags = F
    <3> HIDE DEF F, u
    <3> QED BY <1>1, <2>1, FlaggedBox DEF IInv, u
  <2>4. "gone" \in box'[u].flags BY <2>3
  <2>5. of[u] \in spent \/ ~Alive(u) \/ \E v \in Uids : u < v /\ of[v] = of[u] /\ Alive(v)
    BY <1>6, <1>9 DEF IInv, CopiedOK, LaterCopy
  <2> HIDE DEF F, u
  <2>6. \A v \in Uids \ {u} : Alive(v)' <=> Alive(v) BY <2>2 DEF Alive
  <2>7. \A v \in Uids : v = u => ~Alive(v)' BY <2>4 DEF Alive
  <2>8. \A v \in Uids : box'[v] # None => box[v] # None /\ box'[v].folder = box[v].folder
    BY <2>1, <2>2
  <2>9. ASSUME NEW x \in Uids, Alive(x)
        PROVE  of[x] \in spent' \/ \E v \in Uids : x <= v /\ of[v] = of[x] /\ Alive(v)'
    <3>1. CASE x # u BY <1>7, <2>6, <2>9, <3>1
    <3>2. CASE x = u
      <4>1. ASSUME NEW v \in Uids, u < v PROVE u <= v /\ v # u BY <1>1, <4>1 DEF u, Uids
      <4> QED BY <1>6, <2>5, <2>6, <2>9, <3>2, <4>1 DEF ghost
    <3> QED BY <3>1, <3>2
  <2>10. \A v \in Uids : Alive(v)' => Alive(v) BY <2>6, <2>7
  <2> QED BY <1>2, <1>5, <1>6, <2>2, <2>8, <2>9, <2>10, FlagsKeep DEF cache, user, ghost
<1> QED BY <1>8, <1>9

\* What a fresh uid is.
LEMMA FreshLater ==
  ASSUME IInv, NEW v \in Uids, Fresh(v), NEW m \in Msgs, of' = [of EXCEPT ![v] = m]
  PROVE  /\ of'[v] = m /\ \A u \in Uids \ {v} : of'[u] = of[u]
         /\ of' \in [Uids -> Msgs \union {None}]
         /\ \A u \in Uids : Given(u) => Given(u)' /\ u < v /\ u # v
         /\ \A u \in Uids : Given(u)' => Given(u) \/ u = v
         /\ \A u, x \in Uids : Given(u)' /\ x <= u => Given(x)'
<1>1. /\ of'[v] = m /\ \A u \in Uids \ {v} : of'[u] = of[u]
      /\ of' \in [Uids -> Msgs \union {None}]
  BY DEF IInv, StoreOK
<1>2. m # None /\ ~Given(v) /\ \A u \in 1..(v - 1) : Given(u) BY MovesAssumption DEF Fresh
<1>3. Given(v)' /\ \A u \in Uids \ {v} : Given(u)' <=> Given(u) BY <1>1, <1>2 DEF Given
<1>4. ASSUME NEW u \in Uids, Given(u) PROVE u < v /\ u # v
  <2>1. ~(v <= u) BY <1>2, <1>4 DEF IInv, PlacedOK
  <2> QED BY <2>1 DEF Uids
<1>5. ASSUME NEW u \in Uids, NEW x \in Uids, Given(u)', x <= u PROVE Given(x)'
  <2>1. CASE u = v
    <3>1. x = v \/ x \in 1..(v - 1) BY <1>5, <2>1 DEF Uids
    <3> QED BY <1>2, <1>3, <3>1
  <2>2. CASE u # v
    <3>1. Given(x) BY <1>3, <1>5, <2>2 DEF IInv, PlacedOK
    <3> QED BY <1>3, <3>1
  <2> QED BY <2>1, <2>2
<1> QED BY <1>1, <1>3, <1>4, <1>5

\* A new copy: of a message that arrives, or of one that keeps another copy.
LEMMA GiveKeeps ==
  ASSUME IInv, NEW v \in Uids, Fresh(v), NEW m \in Msgs, NEW f \in exists', NEW F \in SUBSET Flags,
         of' = [of EXCEPT ![v] = m], box' = [box EXCEPT ![v] = [folder |-> f, flags |-> F]],
         exists \subseteq exists', exists' \subseteq Folders,
         UNCHANGED <<rows, keyword, pref, spent>>, JobsOK',
         "gone" \notin F \/ \E u \in Uids : Given(u) /\ of[u] = m,
         \A w \in Workers : \/ job'[w].copied = 0
                            \/ job'[w].copied = job[w].copied /\ job'[w].sel = job[w].sel
                            \/ LaterCopy(job[w])'
  PROVE  IInv'
<1> DEFINE c == [folder |-> f, flags |-> F]
<1>1. c \in Copies /\ c # None /\ c.folder = f /\ c.flags = F
  <2>1. c \in Copies /\ c.folder = f /\ c.flags = F BY DEF Copies
  <2> HIDE DEF c
  <2> QED BY <2>1, CopyFound
<1> HIDE DEF c
<1>2. /\ box' \in [Uids -> Copies \union {None}]
      /\ box'[v] = c /\ \A u \in Uids \ {v} : box'[u] = box[u]
  BY <1>1 DEF IInv, StoreOK, c
<1>3. /\ of'[v] = m /\ \A u \in Uids \ {v} : of'[u] = of[u]
      /\ of' \in [Uids -> Msgs \union {None}]
      /\ \A u \in Uids : Given(u) => Given(u)' /\ u < v /\ u # v
      /\ \A u \in Uids : Given(u)' => Given(u) \/ u = v
      /\ \A u, x \in Uids : Given(u)' /\ x <= u => Given(x)'
  BY FreshLater
<1>4. Given(v)' BY <1>3, MovesAssumption DEF Given
<1>5. StoreOK' BY <1>2, <1>3 DEF IInv, StoreOK
<1>6. PlacedOK'
  <2>1. \A u \in Uids : box'[u] # None => Given(u)' /\ box'[u].folder \in exists'
    BY <1>1, <1>2, <1>3, <1>4 DEF IInv, PlacedOK
  <2>2. \A r \in rows' : Given(r.uid)'
    BY <1>3 DEF IInv, PlacedOK, StoreOK, Rows
  <2> QED BY <1>3, <2>1, <2>2 DEF PlacedOK
<1>8. \A u \in Uids : Given(u) => of'[u] = of[u] /\ box'[u] = box[u] BY <1>2, <1>3
<1>9. ASSUME NEW u \in Uids, ~Given(u), Given(u)'
      PROVE  Alive(u)' \/ \E x \in Uids : Given(x) /\ of[x] = of'[u]
  <2>1. u = v BY <1>3, <1>9
  <2> QED BY <1>1, <1>2, <1>3, <2>1 DEF Alive
<1>10. ASSUME NEW w \in Workers, job'[w].copied # 0, ~LaterCopy(job[w])'
       PROVE  /\ job'[w].copied = job[w].copied
              /\ InFolder(job[w].copied, job[w].sel)' => InFolder(job[w].copied, job[w].sel)
  <2>1. job'[w].copied = job[w].copied /\ job'[w].sel = job[w].sel BY <1>10
  <2>2. job[w].copied \in Uids /\ Given(job[w].copied)
    BY <1>10, <2>1, CopiedGiven DEF IInv, JobsOK
  <2> QED BY <1>8, <2>1, <2>2 DEF InFolder
<1>11. \A x \in Uids : x <= x BY DEF Uids
<1> QED BY <1>5, <1>6, <1>8, <1>9, <1>10, <1>11, ServerKeeps DEF Alive

\* The COPY of a move: the new copy is later than the one it is of.
LEMMA CopyKeeps ==
  ASSUME IInv, NEW w \in Workers, DoCopy(w)
  PROVE  IInv'
<1> DEFINE j == [job[w] EXCEPT !.copied = Cmd(w).uid]
<1>1. PICK u \in Uids : u = Cmd(w).uid /\ Given(u)
  BY AtMove DEF DoCopy
<1>2. JobOK(job[w]) /\ At(w, "move") /\ job = [x \in Workers |-> job[x]]
  BY DEF DoCopy, IInv, JobsOK
<1>3. j = [todo |-> job[w].todo, sel |-> job[w].sel, copied |-> u, done |-> job[w].done]
  BY <1>1, <1>2 DEF JobOK
<1>4. job' = [job EXCEPT ![w] = j] BY <1>2 DEF DoCopy
<1> HIDE DEF j
<1>5. JobOK(j) /\ j.copied = u /\ j.sel = job[w].sel
  <2>1. j.copied = u /\ j.sel = job[w].sel /\ j.todo = job[w].todo /\ j.done = job[w].done BY <1>3
  <2>2. j.todo # <<>> /\ Head(j.todo).do = "move" /\ Head(j.todo).uid = u
    BY <1>1, <1>2, <2>1 DEF At, Cmd
  <2> QED BY <1>2, <1>3, <2>1, <2>2 DEF JobOK
<1>6. UNCHANGED <<exists, cache, user>> BY DEF DoCopy
<1>7. \A x \in Uids : x <= x BY DEF Uids
<1>8. CASE /\ InFolder(u, job[w].sel) /\ Cmd(w).folder \in exists /\ UNCHANGED spent
           /\ \E v \in Uids :
                /\ Fresh(v)
                /\ of' = [of EXCEPT ![v] = of[u]]
                /\ box' = [box EXCEPT ![v] = [folder |-> Cmd(w).folder, flags |-> box[u].flags]]
  <2>1. PICK v \in Uids :
                /\ Fresh(v)
                /\ of' = [of EXCEPT ![v] = of[u]]
                /\ box' = [box EXCEPT ![v] = [folder |-> Cmd(w).folder, flags |-> box[u].flags]]
    BY <1>8
  <2>2. PICK m \in Msgs : m = of[u] BY <1>1 DEF Given, IInv, StoreOK
  <2>3. PICK F \in SUBSET Flags : F = box[u].flags
    <3>1. box[u] \in Copies BY <1>8 DEF InFolder, IInv, StoreOK
    <3> QED BY <3>1 DEF Copies
  <2>4. PICK f \in exists : f = Cmd(w).folder BY <1>8
  <2>5. /\ of'[v] = m /\ \A x \in Uids \ {v} : of'[x] = of[x]
        /\ \A x \in Uids : Given(x) => Given(x)' /\ x < v /\ x # v
    BY <2>1, <2>2, FreshLater
  <2>6. JobsOK' /\ job'[w] = j /\ \A x \in Workers \ {w} : job'[x] = job[x]
    BY <1>4, <1>5, <1>6, <2>5, OthersStay DEF user
  <2>7. box'[v] = [folder |-> f, flags |-> F] /\ box'[u] = box[u]
    BY <1>1, <2>1, <2>3, <2>4, <2>5 DEF IInv, StoreOK
  <2>8. box'[v] # None
    <3>1. [folder |-> f, flags |-> F] \in Copies BY DEF IInv, StoreOK, Copies
    <3> QED BY <2>7, <3>1, CopyFound
  <2>9. LaterCopy(job[w])'
    <3>1. SUFFICES ASSUME Alive(u)' PROVE u < v /\ of'[v] = of'[u] /\ Alive(v)'
      BY <1>5, <2>6 DEF LaterCopy, Alive
    <3>2. box'[v].flags = F BY <2>7
    <3>3. "gone" \notin F BY <2>3, <2>7, <3>1 DEF Alive
    <3> QED BY <1>1, <2>2, <2>5, <2>8, <3>2, <3>3 DEF Alive
  <2>10. exists \subseteq Folders BY DEF IInv, StoreOK
  <2>11. /\ of' = [of EXCEPT ![v] = m] /\ box' = [box EXCEPT ![v] = [folder |-> f, flags |-> F]]
         /\ \E x \in Uids : Given(x) /\ of[x] = m
    BY <1>1, <2>1, <2>2, <2>3, <2>4
  <2>12. UNCHANGED <<exists, rows, keyword, pref, spent>> BY <1>6, <1>8 DEF cache, user
  <2>13. \A x \in Workers : \/ job'[x].copied = job[x].copied /\ job'[x].sel = job[x].sel
                            \/ LaterCopy(job[x])'
    BY <2>6, <2>9
  <2>14. f \in exists' /\ exists \subseteq exists' /\ exists' \subseteq Folders
    BY <2>10, <2>12
  <2>15. IInv /\ Fresh(v) /\ JobsOK' BY <2>1, <2>6
  <2> QED BY <2>11, <2>12, <2>13, <2>14, <2>15, GiveKeeps
<1>9. CASE UNCHANGED <<of, box>> /\ spent \subseteq spent'
           /\ (~InFolder(u, job[w].sel) \/ of[u] \in spent')
  <2>1. JobsOK' /\ job'[w] = j /\ \A x \in Workers \ {w} : job'[x] = job[x]
    BY <1>4, <1>5, <1>6, <1>9, OthersStay DEF user, Given
  <2>2. LaterCopy(job[w])' BY <1>5, <1>9, <2>1 DEF LaterCopy, InFolder
  <2>3. StoreOK' /\ PlacedOK'
    BY <1>6, <1>9 DEF IInv, StoreOK, PlacedOK, Given, cache, user
  <2>4. ASSUME NEW x \in Workers, ~LaterCopy(job[x])'
        PROVE  job'[x].copied = job[x].copied
               /\ (InFolder(job[x].copied, job[x].sel)' => InFolder(job[x].copied, job[x].sel))
    <3>1. job'[x] = job[x] BY <2>1, <2>2, <2>4
    <3> QED BY <1>9, <3>1 DEF InFolder
  <2> QED BY <1>7, <1>9, <2>1, <2>3, <2>4, ServerKeeps DEF Given, Alive
<1>10. \/ /\ InFolder(u, job[w].sel) /\ Cmd(w).folder \in exists /\ UNCHANGED spent
          /\ \E v \in Uids :
                /\ Fresh(v)
                /\ of' = [of EXCEPT ![v] = of[u]]
                /\ box' = [box EXCEPT ![v] = [folder |-> Cmd(w).folder, flags |-> box[u].flags]]
       \/ InFolder(u, job[w].sel) /\ spent' = spent \union {of[u]} /\ UNCHANGED <<of, box>>
       \/ ~InFolder(u, job[w].sel) /\ UNCHANGED <<of, box, spent>>
  BY <1>1 DEF DoCopy
<1> QED BY <1>8, <1>9, <1>10

\* A draft is saved.
LEMMA AppendKeeps ==
  ASSUME IInv, NEW w \in Workers, DoAppend(w)
  PROVE  IInv'
<1>1. /\ JobOK(job[w]) /\ job[w].copied = 0 /\ SoundTodo(Left(w)) /\ Cmd(w).msg \in Msgs
  BY AtCommand DEF DoAppend, Sound
<1> DEFINE j == Ready([job[w] EXCEPT !.todo = Left(w)])
<1>2. JobOK(j) /\ j.copied = 0 BY <1>1, ReadyOK
<1>3. job' = [job EXCEPT ![w] = j] BY DEF DoAppend, Goes, IInv, JobsOK
<1> HIDE DEF j
<1>4. PICK v \in Uids : /\ Fresh(v)
                        /\ of' = [of EXCEPT ![v] = Cmd(w).msg]
                        /\ box' = [box EXCEPT ![v] = [folder |-> Drafts, flags |-> {}]]
  BY DEF DoAppend
<1>5. PICK m \in Msgs : m = Cmd(w).msg BY <1>1
<1>6. of' = [of EXCEPT ![v] = m] BY <1>4, <1>5
<1>7. exists' = exists \union {Drafts} /\ UNCHANGED <<rows, keyword, pref, spent>>
  BY DEF DoAppend, cache, user, ghost
<1>8. \A u \in Uids : Given(u) => Given(u)' BY <1>4, <1>6, FreshLater
<1>9. JobsOK' /\ job'[w] = j /\ \A x \in Workers \ {w} : job'[x] = job[x]
  BY <1>2, <1>3, <1>7, <1>8, OthersStay
<1>10. Drafts \in exists' /\ exists \subseteq exists' /\ exists' \subseteq Folders
  BY <1>7 DEF Folders, System, IInv, StoreOK
<1>11. \A x \in Workers : job'[x].copied = 0 \/ job'[x] = job[x] BY <1>2, <1>9
<1>12. {} \in SUBSET Flags /\ "gone" \notin {} OBVIOUS
<1> QED BY <1>4, <1>6, <1>7, <1>9, <1>10, <1>11, <1>12, GiveKeeps

\* Connections follow a folder that is renamed, and lose one that is deleted.
LEMMA FollowJobs ==
  ASSUME IInv, NEW w \in Workers, job[w].copied = 0, SoundTodo(Left(w)), NEW f, NEW g, Follow(w, f, g),
         g \in exists' \union {None}, exists \ {f} \subseteq exists', UNCHANGED <<of, keyword>>
  PROVE  /\ JobsOK'
         /\ \A x \in Workers : \/ job'[x].copied = 0
                               \/ /\ job'[x].copied = job[x].copied
                                  /\ job'[x].sel = IF job[x].sel = f THEN g ELSE job[x].sel
<1> DEFINE s(x) == IF job[x].sel = f THEN g ELSE job[x].sel
           at(x) == [job[x] EXCEPT !.sel = s(x)]
<1>1. job' = [x \in Workers |-> IF x = w THEN Ready([at(x) EXCEPT !.todo = Left(w)]) ELSE at(x)]
  BY DEF Follow
<1>2. \A c : Sound(c) => Sound(c)' BY DEF Sound, Given
<1>3. \A t : SoundTodo(t) => SoundTodo(t)' BY <1>2 DEF SoundTodo
<1>4. ASSUME NEW x \in Workers
      PROVE  /\ at(x) = [todo |-> job[x].todo, sel |-> s(x), copied |-> job[x].copied, done |-> job[x].done]
             /\ s(x) \in exists' \union {None} /\ SoundTodo(job[x].todo)
             /\ job[x].copied # 0 => /\ job[x].todo # <<>> /\ Head(job[x].todo).do = "move"
                                     /\ Head(job[x].todo).uid = job[x].copied
  <2>1. JobOK(job[x]) BY DEF IInv, JobsOK
  <2>2. s(x) \in exists' \union {None} BY <2>1 DEF JobOK
  <2> HIDE DEF s
  <2> QED BY <2>1, <2>2 DEF JobOK
<1> HIDE DEF s
<1>5. ASSUME NEW x \in Workers, x # w PROVE JobOK(job[x])' /\ job'[x].copied = job[x].copied /\ job'[x].sel = s(x)
  <2>1. job'[x] = at(x) BY <1>1, <1>5
  <2> HIDE DEF at
  <2>2. job'[x] = [todo |-> job[x].todo, sel |-> s(x), copied |-> job[x].copied, done |-> job[x].done]
    BY <1>4, <2>1
  <2>3. SoundTodo(job[x].todo)' BY <1>3, <1>4, <2>2
  <2> QED BY <1>4, <2>2, <2>3 DEF JobOK
<1>6. JobOK(job[w])' /\ job'[w].copied = 0
  <2> DEFINE k == [at(w) EXCEPT !.todo = Left(w)]
  <2>1. job'[w] = Ready(k) BY <1>1
  <2>2. at(w) = [todo |-> job[w].todo, sel |-> s(w), copied |-> 0, done |-> job[w].done]
    BY <1>4
  <2> HIDE DEF at
  <2>3. k = [todo |-> Left(w), sel |-> s(w), copied |-> 0, done |-> job[w].done] BY <2>2
  <2> HIDE DEF k
  <2>4. job'[w] = Free \/ job'[w] = [todo |-> Left(w), sel |-> s(w), copied |-> 0, done |-> job[w].done]
    BY <2>1, <2>3 DEF Ready
  <2>5. SoundTodo(<<>>) BY ShortSound
  <2>6. \A t : t \in {Left(w), <<>>} => SoundTodo(t)' BY <1>3, <2>5
  <2>7. CASE job'[w] = Free
    <3>1. /\ job'[w].todo = <<>> /\ job'[w].sel = None /\ job'[w].copied = 0
          /\ job'[w] = [todo |-> job'[w].todo, sel |-> job'[w].sel, copied |-> job'[w].copied, done |-> job'[w].done]
      BY <2>7 DEF Free
    <3>2. SoundTodo(job[w].todo)' BY <2>6, <3>1
    <3> QED BY <3>1, <3>2 DEF JobOK
  <2>8. CASE job'[w] = [todo |-> Left(w), sel |-> s(w), copied |-> 0, done |-> job[w].done]
    <3>1. /\ job'[w].todo = Left(w) /\ job'[w].sel = s(w) /\ job'[w].copied = 0
          /\ job'[w] = [todo |-> job'[w].todo, sel |-> job'[w].sel, copied |-> job'[w].copied, done |-> job'[w].done]
      BY <2>8
    <3>2. SoundTodo(job[w].todo)' BY <2>6, <3>1
    <3> QED BY <1>4, <3>1, <3>2 DEF JobOK
  <2> QED BY <2>4, <2>7, <2>8
<1>7. job' = [x \in Workers |-> job'[x]] BY <1>1
<1> QED BY <1>5, <1>6, <1>7 DEF JobsOK, s

\* RENAME
LEMMA RenameKeeps ==
  ASSUME IInv, NEW w \in Workers, DoRename(w)
  PROVE  IInv'
<1>1. /\ JobOK(job[w]) /\ job[w].copied = 0 /\ SoundTodo(Left(w)) /\ Cmd(w).to \in Folders
  BY AtCommand DEF DoRename, Sound
<1>2. UNCHANGED <<of, cache, user, spent>> BY DEF DoRename
<1>3. CASE UNCHANGED <<exists, box>> /\ \E t \in {<<>>, Left(w)} : Goes(w, t)
  <2>1. PICK t : Goes(w, t) /\ SoundTodo(t) BY <1>1, <1>3, ShortSound
  <2> QED BY <1>1, <1>2, <1>3, <2>1, RestKeeps, GoesOn DEF cache, user
<1>4. CASE /\ Cmd(w).folder \in exists /\ Cmd(w).to \notin exists
           /\ exists' = (exists \ {Cmd(w).folder}) \union {Cmd(w).to}
           /\ box' = [u \in Uids |-> IF InFolder(u, Cmd(w).folder)
                                     THEN [box[u] EXCEPT !.folder = Cmd(w).to] ELSE box[u]]
           /\ Follow(w, Cmd(w).folder, Cmd(w).to)
  <2>1. PICK f \in exists : f = Cmd(w).folder BY <1>4
  <2>2. PICK g \in Folders : g = Cmd(w).to BY <1>1
  <2>3. g \notin exists /\ exists' = (exists \ {f}) \union {g} /\ Follow(w, f, g)
    BY <1>4, <2>1, <2>2
  <2>4. g # None /\ f # None /\ exists \subseteq Folders
    BY NoneAssumption DEF IInv, StoreOK
  <2>5. /\ JobsOK'
        /\ \A x \in Workers : \/ job'[x].copied = 0
                              \/ /\ job'[x].copied = job[x].copied
                                 /\ job'[x].sel = IF job[x].sel = f THEN g ELSE job[x].sel
    BY <1>1, <1>2, <2>3, FollowJobs DEF user
  <2>6. box' = [u \in Uids |-> IF InFolder(u, f) THEN [box[u] EXCEPT !.folder = g] ELSE box[u]]
    BY <1>4, <2>1, <2>2
  <2>7. ASSUME NEW u \in Uids
        PROVE  /\ InFolder(u, f) => /\ box'[u] \in Copies /\ box'[u] # None /\ box'[u].folder = g
                                    /\ box'[u].flags = box[u].flags
               /\ ~InFolder(u, f) => box'[u] = box[u]
    <3>1. CASE InFolder(u, f)
      <4> DEFINE c == [box[u] EXCEPT !.folder = g]
      <4>1. box[u] \in Copies BY <3>1 DEF InFolder, IInv, StoreOK
      <4>2. c \in Copies /\ c.folder = g /\ c.flags = box[u].flags BY <2>4, <4>1 DEF Copies
      <4>3. box'[u] = c BY <2>6, <3>1
      <4> HIDE DEF c
      <4> QED BY <3>1, <4>2, <4>3, CopyFound
    <3>2. CASE ~InFolder(u, f) BY <2>6, <3>2
    <3> QED BY <3>1, <3>2
  <2>8. box' \in [Uids -> Copies \union {None}]
    <3>1. \A u \in Uids : box'[u] \in Copies \union {None} BY <2>7 DEF IInv, StoreOK
    <3>2. box' = [u \in Uids |-> box'[u]] BY <2>6
    <3> QED BY <3>1, <3>2
  <2>9. StoreOK' BY <1>2, <2>3, <2>4, <2>8 DEF IInv, StoreOK, cache
  <2>10. \A u \in Uids : Alive(u)' <=> Alive(u) BY <2>7 DEF Alive, InFolder
  <2>11. PlacedOK'
    <3>1. ASSUME NEW u \in Uids, box'[u] # None PROVE Given(u)' /\ box'[u].folder \in exists'
      <4>1. CASE InFolder(u, f) BY <1>2, <2>3, <2>7, <4>1 DEF InFolder, Given, IInv, PlacedOK
      <4>2. CASE ~InFolder(u, f)
        BY <1>2, <2>3, <2>7, <3>1, <4>2 DEF InFolder, Given, IInv, PlacedOK
      <4> QED BY <4>1, <4>2
    <3> QED BY <1>2, <3>1 DEF PlacedOK, IInv, Given, cache
  <2>13. ASSUME NEW x \in Workers, job'[x].copied # 0
         PROVE  /\ job'[x].copied = job[x].copied
                /\ InFolder(job[x].copied, job[x].sel)' => InFolder(job[x].copied, job[x].sel)
    <3>1. job'[x].copied = job[x].copied /\ job'[x].sel = IF job[x].sel = f THEN g ELSE job[x].sel
      BY <2>5, <2>13
    <3>2. PICK u \in Uids : u = job[x].copied
      BY <2>13, <3>1, CopiedGiven DEF IInv, JobsOK
    <3>3. job[x].sel \in exists \union {None} BY DEF IInv, JobsOK, JobOK
    <3>4. box[u] # None => box[u].folder # g BY <2>3 DEF IInv, PlacedOK
    <3>5. ASSUME box'[u] # None, box'[u].folder = job'[x].sel
          PROVE  box[u] # None /\ box[u].folder = job[x].sel
      <4>1. CASE InFolder(u, f)
        <5>1. job'[x].sel = g BY <2>7, <3>5, <4>1
        <5>2. job[x].sel = f BY <2>3, <2>4, <3>1, <3>3, <5>1
        <5> QED BY <4>1, <5>2 DEF InFolder
      <4>2. CASE ~InFolder(u, f)
        <5>1. box'[u] = box[u] BY <2>7, <4>2
        <5>2. job'[x].sel # g BY <3>4, <3>5, <5>1
        <5> QED BY <3>1, <3>5, <5>1, <5>2
      <4> QED BY <4>1, <4>2
    <3> QED BY <3>1, <3>2, <3>5 DEF InFolder
  <2>14. \A x \in Uids : x <= x BY DEF Uids
  <2> QED BY <1>2, <2>5, <2>9, <2>10, <2>11, <2>13, <2>14, ServerKeeps DEF Given
<1> QED BY <1>3, <1>4 DEF DoRename

\* DELETE of a folder spends the messages that are in it.
LEMMA DeleteKeeps ==
  ASSUME IInv, NEW w \in Workers, DoDelete(w)
  PROVE  IInv'
<1>1. JobOK(job[w]) /\ job[w].copied = 0 /\ SoundTodo(Left(w)) BY AtCommand DEF DoDelete
<1>2. UNCHANGED <<of, cache, user>> BY DEF DoDelete
<1>3. CASE UNCHANGED <<exists, box, spent>> /\ \E t \in {<<>>, Left(w)} : Goes(w, t)
  <2>1. PICK t : Goes(w, t) /\ SoundTodo(t) BY <1>1, <1>3, ShortSound
  <2> QED BY <1>1, <1>2, <1>3, <2>1, RestKeeps, GoesOn DEF cache, user
<1> DEFINE f == Cmd(w).folder
           inside == {u \in Uids : InFolder(u, f)}
<1>4. CASE /\ f \in exists
           /\ exists' = exists \ {f}
           /\ box' = [u \in Uids |-> IF u \in inside THEN None ELSE box[u]]
           /\ spent' = spent \union {of[u] : u \in inside}
           /\ Follow(w, f, None)
  <2>1. exists \subseteq Folders /\ None \notin Folders
    BY NoneAssumption DEF IInv, StoreOK
  <2>2. /\ JobsOK'
        /\ \A x \in Workers : \/ job'[x].copied = 0
                              \/ /\ job'[x].copied = job[x].copied
                                 /\ job'[x].sel = IF job[x].sel = f THEN None ELSE job[x].sel
    <3> HIDE DEF f
    <3> QED BY <1>1, <1>2, <1>4, FollowJobs DEF user
  <2>3. \A u \in Uids : box'[u] = IF InFolder(u, f) THEN None ELSE box[u] BY <1>4
  <2>4. \A u \in Uids : InFolder(u, f) => of[u] \in spent' BY <1>4
  <2>5. spent \subseteq spent' /\ exists' = exists \ {f} BY <1>4
  <2>6. StoreOK' BY <1>2, <1>4, <2>1 DEF IInv, StoreOK, cache
  <2> HIDE DEF f, inside
  <2>7. PlacedOK'
    <3>1. ASSUME NEW u \in Uids, box'[u] # None PROVE Given(u)' /\ box'[u].folder \in exists'
      <4>1. ~InFolder(u, f) /\ box'[u] = box[u] BY <2>3, <3>1
      <4> QED BY <1>2, <2>5, <3>1, <4>1 DEF InFolder, Given, IInv, PlacedOK
    <3> QED BY <1>2, <3>1 DEF PlacedOK, IInv, Given, cache
  <2>9. ASSUME NEW x \in Workers, job'[x].copied # 0
        PROVE  /\ job'[x].copied = job[x].copied
               /\ InFolder(job[x].copied, job[x].sel)' => InFolder(job[x].copied, job[x].sel)
    <3>1. job'[x].copied = job[x].copied /\ job'[x].sel = IF job[x].sel = f THEN None ELSE job[x].sel
      BY <2>2, <2>9
    <3>2. PICK u \in Uids : u = job[x].copied
      BY <2>9, <3>1, CopiedGiven DEF IInv, JobsOK
    <3>3. ASSUME box'[u] # None, box'[u].folder = job'[x].sel
          PROVE  box[u] # None /\ box[u].folder = job[x].sel
      <4>1. box'[u] = box[u] BY <2>3, <3>3
      <4>2. box[u].folder # None BY <2>1, <3>3, <4>1 DEF IInv, PlacedOK
      <4> QED BY <3>1, <3>3, <4>1, <4>2
    <3> QED BY <3>1, <3>2, <3>3 DEF InFolder
  <2>10. \A u \in Uids : (Alive(u)' => Alive(u)) /\ (Alive(u) => Alive(u)' \/ of[u] \in spent')
    BY <2>3, <2>4 DEF Alive
  <2>11. \A x \in Uids : x <= x BY DEF Uids
  <2> QED BY <1>2, <2>2, <2>5, <2>6, <2>7, <2>9, <2>10, <2>11, ServerKeeps DEF Given
<1> QED BY <1>3, <1>4 DEF DoDelete

-----------------------------------------------------------------------------
(* Requests *)

\* A request that starts, or writes rows and starts.
LEMMA BeginsKeeps ==
  ASSUME IInv, NEW w \in Workers, NEW t, SoundTodo(t), job[w] = Free,
         job' = [job EXCEPT ![w].todo = t], UNCHANGED <<exists, of, box, user, spent, astray>>,
         rows' \subseteq Rows, \A r \in rows' : Given(r.uid)
  PROVE  IInv'
<1> DEFINE j == [job[w] EXCEPT !.todo = t]
<1>0. JobOK(job[w]) /\ job[w].sel = None /\ job[w].copied = 0 /\ job[w].done = {}
  BY DEF IInv, JobsOK, Free
<1>1. j = [todo |-> t, sel |-> job[w].sel, copied |-> job[w].copied, done |-> job[w].done]
  BY <1>0 DEF JobOK
<1>2. job' = [job EXCEPT ![w] = j] BY DEF IInv, JobsOK
<1> HIDE DEF j
<1>3. j.todo = t /\ j.sel = None /\ j.copied = 0 /\ j.done = {} BY <1>0, <1>1
<1>4. JobOK(j) BY <1>0, <1>1, <1>3 DEF JobOK
<1> QED BY <1>2, <1>3, <1>4, RestKeeps, GoesKeeps DEF user

\* A request starts with sound commands.
Begins(w) == \E t : SoundTodo(t) /\ Starts(w, t)

\* Starting one changes nothing else.
LEMMA StartsKeeps ==
  ASSUME IInv, NEW w \in Workers, Begins(w)
  PROVE  IInv'
<1>1. PICK t : SoundTodo(t) /\ Starts(w, t) BY DEF Begins
<1>2. job[w] = Free /\ job' = [job EXCEPT ![w].todo = t]
      /\ UNCHANGED <<exists, of, box, cache, user, spent, astray>>
  BY <1>1 DEF Starts, Takes
<1> QED BY <1>1, <1>2, RestKeeps, BeginsKeeps DEF cache

\* The row that a request is about.
LEMMA RowFacts ==
  ASSUME IInv, NEW r \in rows
  PROVE  /\ r \in Rows /\ r.uid \in Uids /\ Given(r.uid) /\ of[r.uid] \in Msgs
         /\ r.flags \subseteq Flags
BY DEF IInv, StoreOK, PlacedOK, Rows, Given

\* Folder names that requests use.
LEMMA NamesFacts ==
  /\ Archive \in Folders /\ Trash \in Folders
  /\ Chosen \subseteq Folders
  /\ Guards \subseteq Flags \ {"gone"} /\ "junk" \in Flags /\ "gone" \in Flags
BY MovesAssumption DEF Folders, System, Chosen, Flags

\* The commands of the requests.
LEMMA MovesSound ==
  ASSUME IInv, NEW r \in rows, NEW f
  PROVE  /\ SoundTodo(Moves(r, f)) /\ SoundTodo(NotSpam(r)) /\ SoundTodo(<<Select(r.folder), Move(r.uid, f)>>)
         /\ SoundTodo(<<Select(r.folder), ListJunk(r.uid)>>)
         /\ \A x \in Flags \ {"gone"} : \A on, strict : SoundTodo(<<Select(f), Mark(r.uid, x, on, strict)>>)
         /\ \A type : Sound(Undoable(r, f, type)) /\ SoundTodo(<<Undoable(r, f, type)>>)
<1>1. Sound(Expunge) /\ Sound(Select(r.folder)) /\ Sound(Move(r.uid, f)) /\ Sound(ListJunk(r.uid))
      /\ Sound(Move(r.uid, Inbox)) /\ Sound(Select(f))
      /\ \A x \in Flags \ {"gone"} : \A on, strict : Sound(Mark(r.uid, x, on, strict))
  BY RowFacts, CommandsSound
<1>2. SoundTodo(Moves(r, f)) BY <1>1, ShortSound DEF Moves
<1>3. SoundTodo(NotSpam(r))
  <2>1. Sound(Mark(r.uid, "junk", FALSE, FALSE)) BY <1>1, NamesFacts
  <2>2. SoundTodo(<<Select(r.folder), Mark(r.uid, "junk", FALSE, FALSE)>>) BY <1>1, <2>1, ShortSound
  <2>3. SoundTodo(IF r.folder = Junk THEN <<Move(r.uid, Inbox), Expunge>> ELSE <<>>)
    BY <1>1, ShortSound
  <2> QED BY <2>2, <2>3, CatSound DEF NotSpam
<1>4. \A type : Sound(Undoable(r, f, type)) BY CommandsSound DEF Undoable
<1> QED BY <1>1, <1>2, <1>3, <1>4, ShortSound

\* The moves of a bulk request.
LEMMA EachMovesSound ==
  ASSUME IInv, NEW S \in SUBSET rows, NEW f, NEW again
  PROVE  SoundTodo(EachMoves(S, f, again))
<1> DEFINE one(x) == <<Select(x.folder), Move(x.uid, f)>>
           r == CHOOSE x \in S : TRUE
           next(x) == IF again \/ x.folder # r.folder THEN one(x) ELSE <<Move(x.uid, f)>>
           q == CHOOSE x \in S \ {r} : TRUE
<1>1. \A x \in rows : SoundTodo(one(x)) /\ SoundTodo(next(x))
  <2>1. \A x \in rows : SoundTodo(one(x)) BY MovesSound
  <2>2. \A x \in rows : SoundTodo(<<Move(x.uid, f)>>) BY RowFacts, CommandsSound, ShortSound
  <2> QED BY <2>1, <2>2
<1>2. S # {} => r \in rows OBVIOUS
<1>3. S \ {r} # {} => q \in rows OBVIOUS
<1>4. EachMoves(S, f, again) = IF S = {} THEN <<>>
                               ELSE one(r) \o (IF S = {r} THEN <<>> ELSE next(q))
  BY DEF EachMoves
<1>5. S # {} /\ S # {r} => S \ {r} # {} OBVIOUS
<1> HIDE DEF one, next, r, q
<1> QED BY <1>1, <1>2, <1>3, <1>4, <1>5, ShortSound, CatSound

\* The requests of the web client.
LEMMA WebKeeps ==
  ASSUME IInv, NEW w \in Workers, WebRequest(w)
  PROVE  IInv'
<1>1. ASSUME NEW r \in rows, NEW f, MoveMessage(w, r, f) PROVE Begins(w)
  BY <1>1, MovesSound DEF MoveMessage, Begins
<1>2. ASSUME NEW r \in rows, DeleteMessage(w, r) PROVE Begins(w)
  BY <1>2, MovesSound, CatSound DEF DeleteMessage, Begins
<1>3. ASSUME NEW r \in rows, ArchiveMessage(w, r) PROVE Begins(w)
  <2>1. SoundTodo(<<Create(Archive)>>) BY NamesFacts, CommandsSound, ShortSound
  <2> QED BY <1>3, <2>1, MovesSound, CatSound DEF ArchiveMessage, Begins
<1>4. ASSUME NEW r \in rows, JunkMessage(w, r) PROVE Begins(w)
  <2>1. Sound(Select(r.folder)) /\ Sound(ListJunk(r.uid)) /\ Sound(Undoable(r, Junk, "junk"))
    BY RowFacts, CommandsSound, MovesSound
  <2> QED BY <1>4, <2>1, ShortSound DEF JunkMessage, Begins
<1>5. ASSUME NEW r \in rows, NotJunkMessage(w, r) PROVE Begins(w)
  BY <1>5, MovesSound, CatSound DEF NotJunkMessage, Begins
<1>6. ASSUME NEW r \in rows, NEW g \in Guards, NEW on \in BOOLEAN, WebMark(w, r, g, on) PROVE Begins(w)
  <2> DEFINE F == IF on THEN r.flags \union {g} ELSE r.flags \ {g}
  <2>1. F \in SUBSET Flags BY RowFacts, NamesFacts
  <2>2. Starts(w, <<Select(r.folder), Mark(r.uid, g, on, TRUE), Note(r, F)>>) BY <1>6 DEF WebMark
  <2> HIDE DEF F
  <2>3. Sound(Select(r.folder)) /\ Sound(Mark(r.uid, g, on, TRUE)) /\ Sound(Note(r, F))
    BY <2>1, RowFacts, NamesFacts, CommandsSound
  <2> QED BY <2>2, <2>3, ShortSound DEF Begins
<1>7. ASSUME NEW r \in rows, DiscardDraft(w, r) \/ AutoSaveDraft(w, r) \/ SaveDraft(w, r) PROVE Begins(w)
  <2>1. /\ Sound(Select(Drafts)) /\ Sound(Mark(r.uid, "gone", TRUE, FALSE)) /\ Sound(Expunge)
        /\ Sound(Forget(r)) /\ Sound(Save(of[r.uid]))
    BY RowFacts, NamesFacts, CommandsSound
  <2>2. SoundTodo(<<Select(Drafts), Mark(r.uid, "gone", TRUE, FALSE), Expunge, Forget(r)>>)
    BY <2>1, ShortSound
  <2>3. SoundTodo(<<Select(Drafts), Mark(r.uid, "gone", TRUE, FALSE), Expunge, Forget(r), Save(of[r.uid])>>)
    BY <2>1, ShortSound
  <2> QED BY <1>7, <2>2, <2>3 DEF DiscardDraft, AutoSaveDraft, SaveDraft, Begins
<1>8. ASSUME NEW r \in rows, NEW s \in rows, NEW f, NEW act \in {"delete", "move"} \union Guards,
             BulkAction(w, r, s, act, f)
      PROVE  Begins(w)
  <2>1. Sound(Item(r, act, f)) /\ Sound(Item(s, act, f)) /\ Sound(Expunge) BY CommandsSound
  <2> QED BY <1>8, <2>1, ShortSound DEF BulkAction, Begins
<1>9. ASSUME UndoMessage(w) PROVE Begins(w)
  <2>1. SoundTodo(<<Select(undo.dest), Find(undo)>>) BY CommandsSound, ShortSound
  <2> QED BY <1>9, <2>1 DEF UndoMessage, Begins
<1>10. ASSUME NEW f \in Chosen, NEW g \in Chosen,
              CreateFolder(w, f) \/ DeleteFolder(w, f) \/ RenameFolder(w, f, g)
       PROVE  Begins(w)
  <2>1. SoundTodo(<<Create(f)>>) /\ SoundTodo(<<Delete(f, FALSE), DeleteRows(f)>>)
        /\ SoundTodo(<<Rename(f, g, FALSE), RenameRows(f, g)>>)
    BY NamesFacts, CommandsSound, ShortSound
  <2> QED BY <1>10, <2>1 DEF CreateFolder, DeleteFolder, RenameFolder, Begins
<1> QED BY <1>1, <1>2, <1>3, <1>4, <1>5, <1>6, <1>7, <1>8, <1>9, <1>10, StartsKeeps DEF WebRequest

\* The commands of the tools' and the API's bulk and draft requests.
LEMMA ToolsSound ==
  ASSUME IInv, NEW S \in SUBSET rows, NEW f, NEW r \in rows
  PROVE  /\ SoundTodo(EachMoves(S, f, FALSE) \o <<ApiExpunge>>)
         /\ SoundTodo(EachMoves(S, f, TRUE) \o <<McpExpunge>>)
         /\ SoundTodo(<<EnsureTrash>> \o EachMoves(S, None, FALSE) \o <<ApiExpunge, Drop>>)
         /\ SoundTodo(<<Create(Trash)>> \o EachMoves(S, Trash, TRUE) \o <<McpExpunge, Drop>>)
         /\ SoundTodo(<<EnsureTrash>> \o Moves(r, None) \o <<Drop>>)
         /\ SoundTodo(<<Create(Trash)>> \o Moves(r, Trash) \o <<Drop>>)
         /\ SoundTodo(<<Select(Drafts), Mark(r.uid, "gone", TRUE, FALSE), Expunge, Save(of[r.uid])>>)
         /\ SoundTodo(<<Select(Drafts), Mark(r.uid, "gone", TRUE, FALSE), Expunge>>)
<1>1. /\ SoundTodo(<<ApiExpunge>>) /\ SoundTodo(<<McpExpunge>>) /\ SoundTodo(<<ApiExpunge, Drop>>)
      /\ SoundTodo(<<McpExpunge, Drop>>) /\ SoundTodo(<<EnsureTrash>>)
      /\ SoundTodo(<<Create(Trash)>>) /\ SoundTodo(<<Drop>>)
  BY NamesFacts, CommandsSound, ShortSound
<1>2. \A x, on : SoundTodo(EachMoves(S, x, on)) /\ SoundTodo(Moves(r, x)) BY EachMovesSound, MovesSound
<1>3. /\ Sound(Select(Drafts)) /\ Sound(Mark(r.uid, "gone", TRUE, FALSE)) /\ Sound(Expunge)
      /\ Sound(Save(of[r.uid]))
  BY RowFacts, NamesFacts, CommandsSound
<1>4. /\ SoundTodo(<<Select(Drafts), Mark(r.uid, "gone", TRUE, FALSE), Expunge, Save(of[r.uid])>>)
      /\ SoundTodo(<<Select(Drafts), Mark(r.uid, "gone", TRUE, FALSE), Expunge>>)
  BY <1>3, ShortSound
<1>5. /\ SoundTodo(EachMoves(S, f, FALSE) \o <<ApiExpunge>>) /\ SoundTodo(EachMoves(S, f, TRUE) \o <<McpExpunge>>)
  BY <1>1, <1>2, CatSound
<1>6. /\ SoundTodo(EachMoves(S, None, FALSE) \o <<ApiExpunge, Drop>>)
      /\ SoundTodo(EachMoves(S, Trash, TRUE) \o <<McpExpunge, Drop>>)
      /\ SoundTodo(Moves(r, None) \o <<Drop>>) /\ SoundTodo(Moves(r, Trash) \o <<Drop>>)
      /\ SoundTodo(<<EnsureTrash>> \o EachMoves(S, None, FALSE))
      /\ SoundTodo(<<Create(Trash)>> \o EachMoves(S, Trash, TRUE))
      /\ SoundTodo(<<EnsureTrash>> \o Moves(r, None)) /\ SoundTodo(<<Create(Trash)>> \o Moves(r, Trash))
  BY <1>1, <1>2, CatSound
<1> QED BY <1>1, <1>4, <1>5, <1>6, CatSound

\* The folder requests.
LEMMA FoldersKeep ==
  ASSUME IInv, NEW w \in Workers, NEW f \in Chosen, NEW g \in Chosen,
         CreateFolder(w, f) \/ ApiDeleteFolder(w, f) \/ ApiRenameFolder(w, f, g)
  PROVE  IInv'
<1>1. SoundTodo(<<Create(f)>>) /\ SoundTodo(<<Delete(f, TRUE), DeleteRows(f)>>)
      /\ SoundTodo(<<Rename(f, g, TRUE), RenameRows(f, g)>>)
  BY NamesFacts, CommandsSound, ShortSound
<1> QED BY <1>1, StartsKeeps DEF CreateFolder, ApiDeleteFolder, ApiRenameFolder, Begins

\* Rows whose flags are changed.
LEMMA FlaggedRows ==
  ASSUME IInv, NEW r \in rows, NEW F \in SUBSET Flags
  PROVE  [r EXCEPT !.flags = F] \in Rows /\ Given([r EXCEPT !.flags = F].uid)
<1>1. r \in Rows /\ Given(r.uid) BY RowFacts
<1>2. [r EXCEPT !.flags = F] \in Rows /\ [r EXCEPT !.flags = F].uid = r.uid BY <1>1 DEF Rows
<1> QED BY <1>1, <1>2

\* Flags of single messages.
LEMMA UpdateKeeps ==
  ASSUME IInv, NEW w \in Workers, NEW r \in rows, NEW g \in Guards, NEW on \in BOOLEAN,
         ApiUpdateFlags(w, r, g, on) \/ McpUpdateFlags(w, r, g, on)
  PROVE  IInv'
<1> DEFINE F == IF on THEN r.flags \union {g} ELSE r.flags \ {g}
           n == [r EXCEPT !.flags = F]
           t == <<Select(r.folder), Mark(r.uid, g, on, TRUE)>>
<1>1. F \in SUBSET Flags BY RowFacts, NamesFacts
<1>2. n \in Rows /\ Given(n.uid)
  <2> HIDE DEF F
  <2> QED BY <1>1, FlaggedRows
<1>3. SoundTodo(t) /\ SoundTodo(<<>>) BY NamesFacts, MovesSound, ShortSound
<1>4. /\ job[w] = Free /\ rows' = (rows \ {r}) \union {n} /\ UNCHANGED <<exists, of, box, user, spent, astray>>
      /\ \E x \in {t, <<>>} : job' = [job EXCEPT ![w].todo = x]
  <2>1. CASE ApiUpdateFlags(w, r, g, on) BY <2>1 DEF ApiUpdateFlags, Takes
  <2>2. CASE McpUpdateFlags(w, r, g, on) BY <2>2 DEF McpUpdateFlags, Takes
  <2> QED BY <2>1, <2>2
<1> HIDE DEF n, t
<1>5. rows' \subseteq Rows /\ \A x \in rows' : Given(x.uid) BY <1>2, <1>4, RestKeeps
<1>6. PICK x : job' = [job EXCEPT ![w].todo = x] /\ SoundTodo(x) BY <1>3, <1>4
<1> QED BY <1>4, <1>5, <1>6, BeginsKeeps

\* Flags of many rows.
LEMMA BulkFlagKeeps ==
  ASSUME IInv, NEW S \in SUBSET rows, NEW g \in Guards, NEW on \in BOOLEAN, ApiBulkFlag(S, g, on)
  PROVE  IInv'
<1>1. UNCHANGED <<exists, of, box, job, user, ghost>> BY DEF ApiBulkFlag
<1>2. ASSUME NEW x \in rows' PROVE x \in Rows /\ Given(x.uid)
  <2>1. PICK r \in rows :
          x = IF r \in S THEN [r EXCEPT !.flags = IF on THEN @ \union {g} ELSE @ \ {g}] ELSE r
    BY DEF ApiBulkFlag
  <2>2. CASE r \in S
    <3> DEFINE F == IF on THEN r.flags \union {g} ELSE r.flags \ {g}
    <3>1. F \in SUBSET Flags BY RowFacts, NamesFacts
    <3>2. x = [r EXCEPT !.flags = F] BY <2>1, <2>2
    <3> HIDE DEF F
    <3> QED BY <3>1, <3>2, FlaggedRows
  <2>3. CASE r \notin S BY <2>1, <2>3, RowFacts
  <2> QED BY <2>2, <2>3
<1>3. JobsOK'
  <2>1. \A c : Sound(c)' <=> Sound(c) BY <1>1 DEF Sound, Given, user
  <2>2. \A t : SoundTodo(t)' <=> SoundTodo(t) BY <2>1 DEF SoundTodo
  <2> QED BY <1>1, <2>2 DEF IInv, JobsOK, JobOK
<1> QED BY <1>1, <1>2, <1>3, RestKeeps, StillKeeps DEF user, ghost

\* The requests of the API.
LEMMA ApiKeeps ==
  ASSUME IInv, NEW w \in Workers, ApiRequest(w)
  PROVE  IInv'
<1>1. ASSUME NEW r \in rows, NEW f, ApiMove(w, r, f) PROVE Begins(w)
  BY <1>1, MovesSound DEF ApiMove, Begins
<1>2. ASSUME NEW r \in rows, ApiDelete(w, r) PROVE Begins(w)
  BY <1>2, ToolsSound DEF ApiDelete, Begins
<1>3. ASSUME NEW r \in rows, ApiReportSpam(w, r) \/ ApiNotSpam(w, r) PROVE Begins(w)
  BY <1>3, MovesSound DEF ApiReportSpam, ApiNotSpam, Begins
<1>4. ASSUME NEW r \in rows, ApiCreateDraft(w, r) \/ ApiDeleteDraft(w, r) PROVE Begins(w)
  BY <1>4, ToolsSound DEF ApiCreateDraft, ApiDeleteDraft, Begins
<1>5. ASSUME NEW S \in SUBSET rows, ApiBulkDelete(w, S) PROVE Begins(w)
  <2> DEFINE T == {r \in S : ~Protected(r)}
  <2>1. T # {} /\ Starts(w, <<EnsureTrash>> \o EachMoves(T, None, FALSE) \o <<ApiExpunge, Drop>>)
    BY <1>5 DEF ApiBulkDelete
  <2>2. T \in SUBSET rows OBVIOUS
  <2> HIDE DEF T
  <2> QED BY <2>1, <2>2, ToolsSound DEF Begins
<1>6. ASSUME NEW S \in SUBSET rows, NEW f, ApiBulkMove(w, S, f) PROVE Begins(w)
  <2> DEFINE T == {r \in S : f = Trash => ~Protected(r)}
  <2>1. T # {} /\ Starts(w, EachMoves(T, f, FALSE) \o <<ApiExpunge>>) BY <1>6 DEF ApiBulkMove
  <2>2. T \in SUBSET rows OBVIOUS
  <2> HIDE DEF T
  <2> QED BY <2>1, <2>2, ToolsSound DEF Begins
<1>7. \A S \in Selections : S \in SUBSET rows BY DEF Selections
<1> QED BY <1>1, <1>2, <1>3, <1>4, <1>5, <1>6, <1>7, StartsKeeps, UpdateKeeps, BulkFlagKeeps, FoldersKeep
        DEF ApiRequest, ApiCreateFolder

\* The requests of the tools.
LEMMA McpKeeps ==
  ASSUME IInv, NEW w \in Workers, McpRequest(w)
  PROVE  IInv'
<1>1. ASSUME NEW r \in rows, NEW f, McpMove(w, r, f) PROVE Begins(w)
  BY <1>1, MovesSound DEF McpMove, ApiMove, Begins
<1>2. ASSUME NEW r \in rows, McpDelete(w, r) PROVE Begins(w)
  BY <1>2, ToolsSound DEF McpDelete, Begins
<1>3. ASSUME NEW r \in rows, McpReportSpam(w, r) \/ McpNotSpam(w, r) PROVE Begins(w)
  BY <1>3, MovesSound DEF McpReportSpam, McpNotSpam, ApiReportSpam, ApiNotSpam, Begins
<1>4. ASSUME NEW r \in rows, McpSaveDraft(w, r) \/ McpDeleteDraft(w, r) PROVE Begins(w)
  BY <1>4, ToolsSound DEF McpSaveDraft, McpDeleteDraft, ApiCreateDraft, ApiDeleteDraft, Begins
<1>5. ASSUME NEW S \in SUBSET rows, McpBulkDelete(w, S) PROVE Begins(w)
  <2> DEFINE T == {r \in S : ~Protected(r)}
  <2>1. T # {} /\ Starts(w, <<Create(Trash)>> \o EachMoves(T, Trash, TRUE) \o <<McpExpunge, Drop>>)
    BY <1>5 DEF McpBulkDelete
  <2>2. T \in SUBSET rows OBVIOUS
  <2> HIDE DEF T
  <2> QED BY <2>1, <2>2, ToolsSound DEF Begins
<1>6. ASSUME NEW S \in SUBSET rows, NEW f, McpBulkMove(w, S, f) PROVE Begins(w)
  <2> DEFINE T == {r \in S : f = Trash => ~Protected(r)}
  <2>1. T # {} /\ Starts(w, EachMoves(T, f, TRUE) \o <<McpExpunge>>) BY <1>6 DEF McpBulkMove
  <2>2. T \in SUBSET rows OBVIOUS
  <2> HIDE DEF T
  <2> QED BY <2>1, <2>2, ToolsSound DEF Begins
<1>7. \A S \in Selections : S \in SUBSET rows BY DEF Selections
<1> QED BY <1>1, <1>2, <1>3, <1>4, <1>5, <1>6, <1>7, StartsKeeps, UpdateKeeps, BulkFlagKeeps, FoldersKeep
        DEF McpRequest, McpCreateFolder, McpDeleteFolder, McpRenameFolder, McpBulkFlag

-----------------------------------------------------------------------------
(* The mailbox, the session and the cache *)

\* Steps that leave the server and the requests alone.
LEMMA RestOfNextKeeps ==
  ASSUME IInv, UNCHANGED <<exists, of, box, job, keyword, spent>>,
         rows' \subseteq Rows, \A r \in rows' : Given(r.uid)
  PROVE  IInv'
<1>1. \A c : Sound(c)' <=> Sound(c) BY DEF Sound, Given
<1>2. \A t : SoundTodo(t)' <=> SoundTodo(t) BY <1>1 DEF SoundTodo
<1>3. JobsOK' BY <1>2 DEF IInv, JobsOK, JobOK
<1> QED BY <1>3, StillKeeps

\* A message arrives.
LEMMA ArriveKeeps ==
  ASSUME IInv, NEW m \in Msgs, Arrive(m)
  PROVE  IInv'
<1>1. PICK v \in Uids, f \in {Inbox, Drafts} \cap exists :
        /\ Fresh(v)
        /\ of' = [of EXCEPT ![v] = m]
        /\ box' = [box EXCEPT ![v] = [folder |-> f, flags |-> {}]]
  BY DEF Arrive
<1>2. UNCHANGED <<exists, rows, keyword, pref, spent, job>> BY DEF Arrive, cache, user, ghost
<1>3. \A u \in Uids : Given(u) => Given(u)' BY <1>1, FreshLater
<1>4. /\ \A w \in Workers : JobOK(job[w])
      /\ job = [w \in Workers |-> job[w]]
  BY DEF IInv, JobsOK
<1>5. ASSUME NEW w \in Workers PROVE JobOK(job[w])'
  <2>1. job[w].sel \in exists' \union {None} BY <1>2, <1>4 DEF JobOK
  <2>2. ASSUME NEW i, i = job[w] PROVE JobOK(i) => JobOK(i)'
    BY <1>2, <1>3, <2>1, <2>2, JobStays
  <2> QED BY <1>2, <1>4, <2>2 DEF JobOK
<1>6. JobsOK'
  <2>1. job' = [w \in Workers |-> job'[w]] BY <1>2, <1>4
  <2> QED BY <1>5, <2>1 DEF JobsOK
<1>7. {} \in SUBSET Flags /\ "gone" \notin {} OBVIOUS
<1>8. f \in exists' /\ exists \subseteq exists' /\ exists' \subseteq Folders
  BY <1>2 DEF IInv, StoreOK
<1> QED BY <1>1, <1>2, <1>6, <1>7, <1>8, GiveKeeps

\* A sync takes the rows of a folder from the server.
LEMMA RefreshKeeps ==
  ASSUME IInv, NEW f \in Folders, Refresh(f)
  PROVE  IInv'
<1>1. UNCHANGED <<exists, of, box, job, user, ghost>> BY DEF Refresh
<1>2. ASSUME NEW x \in rows', x \notin rows PROVE x \in Rows /\ Given(x.uid)
  <2> DEFINE fresh == {u \in Uids : InFolder(u, f) /\ <<f, u>> \notin seen}
             known == {r.uid : r \in {y \in rows : y.folder = f}}
             now == fresh \union {u \in known : InFolder(u, f)}
  <2>1. rows' = {r \in rows : r.folder # f}
                \union {[folder |-> f, uid |-> u, flags |-> box[u].flags] : u \in now}
    BY DEF Refresh
  <2>2. \A u \in now : u \in Uids /\ InFolder(u, f) BY RowFacts
  <2> HIDE DEF now
  <2>3. PICK u \in now : x = [folder |-> f, uid |-> u, flags |-> box[u].flags] BY <1>2, <2>1
  <2>4. box[u] \in Copies /\ Given(u) BY <2>2 DEF InFolder, IInv, StoreOK, PlacedOK
  <2> QED BY <2>2, <2>3, <2>4 DEF Copies, Rows
<1>3. rows' \subseteq Rows /\ \A r \in rows' : Given(r.uid) BY <1>2, RestKeeps
<1> QED BY <1>1, <1>3, RestKeeps, RestOfNextKeeps DEF user, ghost

-----------------------------------------------------------------------------
(* The theorems *)

\* The states in which the program starts.
LEMMA InitOK == Init => IInv
<1> SUFFICES ASSUME Init PROVE IInv OBVIOUS
<1>1. PICK s \in Servers : exists = {Inbox, Drafts} \union Others \union s.folders BY DEF Init
<1>2. exists \subseteq Folders
  <2>1. s.folders \subseteq {Trash, Deleted, Junk} BY MovesAssumption
  <2> QED BY <1>1, <2>1 DEF Folders, System
<1>3. /\ of = [u \in Uids |-> None] /\ box = [u \in Uids |-> None] /\ rows = {}
      /\ job = [w \in Workers |-> Free] /\ pref = "on"
  BY DEF Init
<1>4. StoreOK BY <1>2, <1>3 DEF StoreOK
<1>5. PlacedOK BY <1>3 DEF PlacedOK, Given
<1>6. JobOK(Free) /\ Free.copied = 0 BY ShortSound DEF JobOK, Free
<1>7. JobsOK /\ CopiedOK
  <2> HIDE DEF Free
  <2> QED BY <1>3, <1>6 DEF JobsOK, CopiedOK, LaterCopy
<1>8. NoLoss BY <1>3, MovesAssumption DEF NoLoss
<1> QED BY <1>4, <1>5, <1>7, <1>8 DEF IInv

\* Every step of the program.
LEMMA NextKeeps == IInv /\ [Next]_vars => IInv'
<1> SUFFICES ASSUME IInv, [Next]_vars PROVE IInv' OBVIOUS
<1>1. CASE \E w \in Workers : Step(w)
  <2>1. PICK w \in Workers : Step(w) BY <1>1
  <2>2. CASE \/ Fail(w) \/ DoSelect(w) \/ DoDrop(w) \/ DoForget(w) \/ DoNote(w) \/ DoToken(w)
             \/ DoListJunk(w) \/ DoProbe(w) \/ DoFind(w) \/ DoItem(w)
             \/ DoRenameRows(w) \/ DoDeleteRows(w)
    BY <2>2, QuietKeeps
  <2>3. CASE DoCreate(w) \/ DoTrash(w) BY <2>3, CreateKeeps, TrashKeeps
  <2>4. CASE DoCopy(w) \/ DoStore(w) BY <2>4, CopyKeeps, StoreKeeps
  <2>5. CASE DoMark(w) \/ DoExpunge(w) \/ DoKeyword(w)
    BY <2>5, MarkKeeps, ExpungeKeeps, KeywordKeeps
  <2>6. CASE DoAppend(w) \/ DoRename(w) \/ DoDelete(w)
    BY <2>6, AppendKeeps, RenameKeeps, DeleteKeeps
  <2>7. CASE DoTurnOff(w)
    BY <2>7, RestKeeps, RestOfNextKeeps DEF DoTurnOff, cache, ghost
  <2> QED BY <2>1, <2>2, <2>3, <2>4, <2>5, <2>6, <2>7 DEF Step
<1>2. CASE \E w \in Workers : WebRequest(w) \/ ApiRequest(w) \/ McpRequest(w)
  BY <1>2, WebKeeps, ApiKeeps, McpKeeps
<1>3. CASE ShowUndo
  BY <1>3, RestKeeps, RestOfNextKeeps DEF ShowUndo, cache, ghost
<1>4. ASSUME NEW p \in {"on", "user_off"}, SetSpamAction(p) PROVE IInv'
  BY <1>4, RestKeeps, RestOfNextKeeps DEF SetSpamAction, cache, ghost
<1>5. CASE RecoverSpam
  BY <1>5, RestKeeps, RestOfNextKeeps DEF RecoverSpam, cache, ghost
<1>6. CASE \E m \in Msgs : Arrive(m) BY <1>6, ArriveKeeps
<1>7. CASE \E f \in Folders : Refresh(f) BY <1>7, RefreshKeeps
<1>8. CASE UNCHANGED vars
  BY <1>8, RestKeeps, RestOfNextKeeps DEF vars, cache, user, ghost
<1> QED BY <1>1, <1>2, <1>3, <1>4, <1>5, <1>6, <1>7, <1>8 DEF Next

\* The invariant holds in every state.
THEOREM MovesInvariant == Spec => []IInv
BY InitOK, NextKeeps, PTL DEF Spec

\* No message is lost: whatever requests overlap and wherever one is cut off,
\* a message that has arrived keeps a copy that is not marked \Deleted, unless
\* a refused COPY, a deleted folder or a replaced draft spent it.
THEOREM NothingLost == Spec => []NoLoss
<1>1. IInv => NoLoss BY DEF IInv
<1> QED BY <1>1, MovesInvariant, PTL

-----------------------------------------------------------------------------
(* The Spam action *)

\* A request that runs while there is no junk folder is known to, and one that
\* will turn the action off has seen the server without the folder or the keyword.
BareOK == \A w \in Workers : job[w] # Free /\ Junk \notin exists => w \in bare
OffOK == \A w \in off : w \in Workers /\ job[w] = Free /\ (~keyword \/ w \in bare)
OffInv == BareOK /\ OffOK

\* A step in which no request starts and no folder goes.
LEMMA RunOnKeeps ==
  ASSUME OffInv, UNCHANGED <<keyword, bare>>, exists \subseteq exists', off' \subseteq off,
         \A w \in Workers : job[w] = Free => job'[w] = Free
  PROVE  OffInv'
BY DEF OffInv, BareOK, OffOK

\* The other requests do not change.
LEMMA OneRuns ==
  ASSUME IInv, NEW w \in Workers, job[w] # Free, \E j : job' = [job EXCEPT ![w] = j]
  PROVE  \A x \in Workers : job[x] = Free => job'[x] = Free
<1>1. PICK j : job' = [job EXCEPT ![w] = j] OBVIOUS
<1> QED BY <1>1 DEF IInv, JobsOK

\* A request that finds the server unable.
LEMMA FindsUnable ==
  ASSUME IInv, OffInv, NEW w \in Workers, DoListJunk(w) \/ DoProbe(w)
  PROVE  OffInv'
<1>1. job[w] # Free /\ (w \in bare \/ Junk \in exists) BY DEF DoListJunk, DoProbe, At, Free, OffInv, BareOK
<1>2. UNCHANGED <<exists, keyword, bare>> BY DEF DoListJunk, DoProbe, ghost
<1>3. \E j : job' = [job EXCEPT ![w] = j] BY DEF DoListJunk, DoProbe, Goes
<1>4. \A x \in Workers : job[x] = Free => job'[x] = Free BY <1>1, <1>3, OneRuns
<1>5. CASE off' \subseteq off BY <1>2, <1>4, <1>5, RunOnKeeps
<1>6. CASE off' = off \union {w} /\ Goes(w, <<>>) /\ (~keyword \/ Junk \notin exists)
  <2>1. job'[w] = Free
    <3>1. JobOK(job[w]) /\ job = [x \in Workers |-> job[x]] BY DEF IInv, JobsOK
    <3> DEFINE k == [job[w] EXCEPT !.todo = <<>>]
    <3>2. k.todo = <<>> BY <3>1 DEF JobOK
    <3>3. job' = [job EXCEPT ![w] = Ready(k)] BY <1>6, <3>1 DEF Goes
    <3> HIDE DEF k
    <3> QED BY <3>1, <3>2, <3>3 DEF Ready
  <2>2. ~keyword \/ w \in bare BY <1>1, <1>6
  <2> QED BY <1>2, <1>4, <1>6, <2>1, <2>2 DEF OffInv, BareOK, OffOK
<1>7. DoListJunk(w) => off' = off \/ (off' = off \union {w} /\ Goes(w, <<>>) /\ Junk \notin exists)
  BY DEF DoListJunk
<1>8. DoProbe(w) => off' = off \/ (off' = off \union {w} /\ Goes(w, <<>>) /\ ~keyword)
  <2> SUFFICES ASSUME DoProbe(w), off' # off PROVE off' = off \union {w} /\ Goes(w, <<>>) /\ ~keyword
    OBVIOUS
  <2>1. Cmd(w).lost \/ ~keyword BY AtCommand DEF DoProbe, Sound
  <2> QED BY <2>1 DEF DoProbe
<1> QED BY <1>5, <1>6, <1>7, <1>8

\* A folder goes, and with it what requests have selected.
LEMMA FolderGoes ==
  ASSUME IInv, OffInv, NEW w \in Workers, DoRename(w) \/ DoDelete(w)
  PROVE  OffInv'
<1>1. job[w] # Free BY DEF DoRename, DoDelete, At, Free
<1>2. UNCHANGED <<keyword, off>> BY DEF DoRename, DoDelete, user
<1>3. CASE UNCHANGED <<exists, bare>> /\ \E t : Goes(w, t)
  <2>1. \E j : job' = [job EXCEPT ![w] = j] BY <1>3 DEF Goes
  <2> QED BY <1>1, <1>2, <1>3, <2>1, OneRuns, RunOnKeeps
<1>4. CASE Bares /\ Cmd(w).folder \in exists /\ \E g : Follow(w, Cmd(w).folder, g)
  <2>1. PICK f \in exists : f = Cmd(w).folder BY <1>4
  <2>2. PICK g : Follow(w, f, g) BY <1>4, <2>1
  <2>3. f # None BY NoneAssumption DEF IInv, StoreOK
  <2>4. ASSUME NEW x \in Workers, job[x] = Free PROVE job'[x] = Free
    <3> DEFINE s == IF job[x].sel = f THEN g ELSE job[x].sel
    <3>1. job'[x] = [job[x] EXCEPT !.sel = s] BY <1>1, <2>2, <2>4 DEF Follow
    <3>2. s = None BY <2>3, <2>4 DEF Free
    <3> HIDE DEF s
    <3>3. job[x].sel = None BY <2>4 DEF Free
    <3>4. JobOK(job[x]) BY DEF IInv, JobsOK
    <3>5. [job[x] EXCEPT !.sel = None] = job[x] BY <3>3, <3>4 DEF JobOK
    <3> QED BY <2>4, <3>1, <3>2, <3>5
  <2>5. \A x \in Workers : (Junk \notin exists' => x \in bare') /\ (x \in bare => x \in bare')
    BY <1>4 DEF Bares
  <2> QED BY <1>2, <2>4, <2>5 DEF OffInv, BareOK, OffOK
<1> QED BY <1>3, <1>4 DEF DoRename, DoDelete

\* The other steps of requests.
LEMMA RunsOn ==
  ASSUME IInv, OffInv, NEW w \in Workers, Step(w)
  PROVE  OffInv'
<1>1. CASE DoListJunk(w) \/ DoProbe(w) BY <1>1, FindsUnable
<1>2. CASE DoRename(w) \/ DoDelete(w) BY <1>2, FolderGoes
<1>3. CASE DoTurnOff(w) BY <1>3, RunOnKeeps DEF DoTurnOff, ghost
<1>4. CASE \/ Fail(w) \/ DoSelect(w) \/ DoCreate(w) \/ DoTrash(w) \/ DoCopy(w) \/ DoStore(w)
           \/ DoMark(w) \/ DoExpunge(w) \/ DoDrop(w) \/ DoForget(w) \/ DoNote(w) \/ DoToken(w)
           \/ DoAppend(w) \/ DoKeyword(w) \/ DoFind(w) \/ DoItem(w) \/ DoRenameRows(w) \/ DoDeleteRows(w)
  <2>1. job[w].todo # <<>>
    BY <1>4 DEF At, Fail, DoSelect, DoCreate, DoTrash, DoCopy, DoStore, DoMark, DoExpunge, DoDrop, DoForget,
                DoNote, DoToken, DoAppend, DoKeyword, DoFind, DoItem, DoRenameRows, DoDeleteRows
  <2>2. UNCHANGED <<keyword, bare, off>> /\ exists \subseteq exists'
    BY <1>4 DEF Fail, Raises, DoSelect, DoCreate, DoTrash, DoCopy, DoStore, DoMark, DoExpunge, DoDrop, DoForget,
                DoNote, DoToken, DoAppend, DoKeyword, DoFind, DoItem, DoRenameRows, DoDeleteRows, user, ghost
  <2>3. \E j : job' = [job EXCEPT ![w] = j]
    <3>1. CASE DoSelect(w) /\ ~Raises(w)
      <4>1. job' = [job EXCEPT ![w] = Selected(job[w], Left(w), Cmd(w).folder)]
        BY <3>1 DEF DoSelect, Selected, IInv, JobsOK
      <4> QED BY <4>1
    <3>2. CASE DoCopy(w)
      <4>1. job' = [job EXCEPT ![w] = [job[w] EXCEPT !.copied = Cmd(w).uid]]
        BY <3>2 DEF DoCopy, IInv, JobsOK
      <4> QED BY <4>1
    <3>3. CASE DoStore(w) BY <3>3 DEF DoStore
    <3>4. CASE Raises(w) BY <3>4 DEF Raises
    <3>5. CASE \E t : Goes(w, t) BY <3>5 DEF Goes
    <3> QED BY <1>4, <3>1, <3>2, <3>3, <3>4, <3>5
          DEF Fail, DoSelect, DoCreate, DoTrash, DoMark, DoExpunge, DoDrop, DoForget,
              DoNote, DoToken, DoAppend, DoKeyword, DoFind, DoItem, DoRenameRows, DoDeleteRows
  <2> QED BY <2>1, <2>2, <2>3, OneRuns, RunOnKeeps DEF Free
<1> QED BY <1>1, <1>2, <1>3, <1>4 DEF Step

\* A request that starts, or flags rows and starts none.
LEMMA StartsOff ==
  ASSUME IInv, OffInv, NEW w \in Workers, WebRequest(w) \/ ApiRequest(w) \/ McpRequest(w)
  PROVE  OffInv' /\ UNCHANGED user
<1> DEFINE Opened == Takes(w) /\ UNCHANGED <<exists, user>> /\ \E t : job' = [job EXCEPT ![w].todo = t]
           Flagging == \E S \in Selections, g \in Guards, on \in BOOLEAN : ApiBulkFlag(S, g, on)
<1>1. CASE Opened
  <2>1. /\ job[w] = Free /\ w \notin off /\ UNCHANGED <<exists, off, keyword>>
        /\ bare' = IF Junk \in exists THEN bare \ {w} ELSE bare \union {w}
    BY <1>1 DEF Takes, user
  <2>2. PICK t : job' = [job EXCEPT ![w].todo = t] BY <1>1
  <2>3. \A x \in Workers \ {w} : job'[x] = job[x] BY <2>2 DEF IInv, JobsOK
  <2> QED BY <1>1, <2>1, <2>3 DEF OffInv, BareOK, OffOK
<1>2. CASE Flagging BY <1>2, RunOnKeeps DEF ApiBulkFlag, user, ghost
<1>3. \A t : Starts(w, t) => Opened BY DEF Starts
<1>4. \A r, g, on : ApiUpdateFlags(w, r, g, on) \/ McpUpdateFlags(w, r, g, on) => Opened
  BY DEF ApiUpdateFlags, McpUpdateFlags
<1> HIDE DEF Opened
<1>5. WebRequest(w) => Opened
  BY <1>3
     DEF WebRequest, MoveMessage, DeleteMessage, ArchiveMessage, JunkMessage, NotJunkMessage, WebMark,
         DiscardDraft, AutoSaveDraft, SaveDraft, BulkAction, UndoMessage, CreateFolder, DeleteFolder, RenameFolder
<1>6. ApiRequest(w) => Opened \/ Flagging
  BY <1>3, <1>4
     DEF ApiRequest, CreateFolder, ApiMove, ApiDelete, ApiReportSpam, ApiNotSpam, ApiCreateDraft,
         ApiDeleteDraft, ApiBulkDelete, ApiBulkMove, ApiCreateFolder, ApiDeleteFolder, ApiRenameFolder
<1>7. McpRequest(w) => Opened \/ Flagging
  BY <1>3, <1>4
     DEF McpRequest, CreateFolder, McpMove, ApiMove, McpDelete, McpReportSpam, ApiReportSpam, McpNotSpam,
         ApiNotSpam, McpSaveDraft, ApiCreateDraft, McpDeleteDraft, ApiDeleteDraft, McpBulkDelete,
         McpBulkMove, McpBulkFlag, McpCreateFolder, McpDeleteFolder, ApiDeleteFolder, McpRenameFolder,
         ApiRenameFolder
<1> QED BY <1>1, <1>2, <1>5, <1>6, <1>7 DEF Opened, ApiBulkFlag

\* Every step of the program.
LEMMA NextOff == IInv /\ OffInv /\ [Next]_vars => OffInv'
<1> SUFFICES ASSUME IInv, OffInv, [Next]_vars PROVE OffInv' OBVIOUS
<1>1. ASSUME NEW w \in Workers, Step(w) PROVE OffInv' BY <1>1, RunsOn
<1>2. CASE \E w \in Workers : WebRequest(w) \/ ApiRequest(w) \/ McpRequest(w) BY <1>2, StartsOff
<1>3. CASE \/ ShowUndo \/ RecoverSpam \/ (\E p \in {"on", "user_off"} : SetSpamAction(p)) \/ UNCHANGED vars
           \/ (\E m \in Msgs : Arrive(m)) \/ (\E f \in Folders : Refresh(f))
  <2>1. UNCHANGED <<exists, job, off, keyword, bare>>
    BY <1>3 DEF ShowUndo, RecoverSpam, SetSpamAction, Arrive, Refresh, vars, user, ghost
  <2> QED BY <2>1, RunOnKeeps
<1> QED BY <1>1, <1>2, <1>3 DEF Next

\* Who turns the action off has a reason to.
LEMMA OffHasReason ==
  ASSUME IInv, OffInv, Next, pref' = "auto_off", pref # "auto_off", keyword
  PROVE  \E w \in bare : w \in off /\ w \notin off'
<1>1. ASSUME NEW w \in Workers, DoTurnOff(w) PROVE w \in bare /\ w \in off /\ w \notin off'
  BY <1>1 DEF DoTurnOff, OffInv, OffOK
<1>2. ASSUME NEW w \in Workers, Step(w) PROVE DoTurnOff(w)
  BY <1>2 DEF Step, Fail, Raises, DoSelect, DoCreate, DoTrash, DoCopy, DoStore, DoMark, DoExpunge,
              DoDrop, DoForget, DoNote, DoToken, DoAppend, DoListJunk, DoKeyword, DoProbe, DoFind, DoItem,
              DoRename, DoRenameRows, DoDelete, DoDeleteRows, user
<1>3. ASSUME NEW w \in Workers, WebRequest(w) \/ ApiRequest(w) \/ McpRequest(w) PROVE FALSE
  BY <1>3, StartsOff DEF user
<1>4. ShowUndo \/ RecoverSpam \/ (\E p \in {"on", "user_off"} : SetSpamAction(p)) => FALSE
  BY DEF ShowUndo, RecoverSpam, SetSpamAction
<1>5. (\E m \in Msgs : Arrive(m)) \/ (\E f \in Folders : Refresh(f)) => FALSE
  BY DEF Arrive, Refresh, user
<1> QED BY <1>1, <1>2, <1>3, <1>4, <1>5 DEF Next

\* The Spam action goes off only where it cannot work, whatever happens between
\* the server's answer and the commit: the request that turns it off has run
\* while there was no junk folder, or the server does not take the keyword.
THEOREM AutoOffOnlyWhenUnable == Spec => AutoOffConfirmed
<1>1. Init => OffInv BY DEF Init, OffInv, BareOK, OffOK
<1>2. IInv /\ OffInv /\ [Next]_vars =>
        [pref' = "auto_off" /\ pref # "auto_off" /\ keyword =>
           \E w \in bare : w \in off /\ w \notin off']_vars
  BY OffHasReason
<1> QED BY <1>1, <1>2, NextOff, MovesInvariant, PTL DEF Spec, AutoOffConfirmed

-----------------------------------------------------------------------------
(* What the cache hides *)

\* A copy of which no row is owed.
Excused(u) == u \in astray \/ ~Alive(u)

\* What was fetched has its row, under the name that the cache knows.
SeenOK ==
  /\ seen \subseteq Folders \X Uids
  /\ \A k \in seen :
       /\ Given(k[2])
       /\ Excused(k[2]) \/ \E r \in rows : r.uid = k[2] /\ r.folder = k[1]

\* Between a COPY and its STORE the copy stays in the folder that is selected.
Holds(j) ==
  j.copied # 0 => j.copied \in astray \/ box[j.copied] = None \/ InFolder(j.copied, j.sel)

\* A request drops rows of what is gone only.
Drops(j) == \A u \in j.done : u \in Uids /\ Given(u) /\ Excused(u)

HiddenInv == SeenOK /\ \A w \in Workers : Holds(job[w]) /\ Drops(job[w])

\* A step that moves no copy: one that is given stays where it is, and stays
\* marked, or is expunged.
Kept ==
  \A u \in Uids : Given(u) =>
    /\ Given(u)'
    /\ box'[u] # None => /\ box[u] # None /\ box'[u].folder = box[u].folder
                         /\ "gone" \in box[u].flags => "gone" \in box'[u].flags

\* The request w ends no move, and has moved nothing more.
Onward(w) == \E j : job' = [job EXCEPT ![w] = j] /\ j.copied = 0 /\ j.done \subseteq job[w].done

\* Every row that is owed stays, though its flags may change.
RowsKept ==
  \A r \in rows : Excused(r.uid)' \/ \E s \in rows' : s.uid = r.uid /\ s.folder = r.folder

\* Rows are owed as before.
LEMMA SeenKeeps ==
  ASSUME HiddenInv, IInv, UNCHANGED seen, RowsKept,
         \A u \in Uids : Given(u) => Given(u)' /\ (Excused(u) => Excused(u)')
  PROVE  SeenOK'
<1>1. ASSUME NEW k \in seen
      PROVE  /\ Given(k[2])'
             /\ Excused(k[2])' \/ \E r \in rows' : r.uid = k[2] /\ r.folder = k[1]
  <2>1. k[2] \in Uids /\ Given(k[2]) BY <1>1 DEF HiddenInv, SeenOK
  <2>2. CASE Excused(k[2]) BY <2>1, <2>2
  <2>3. CASE \E r \in rows : r.uid = k[2] /\ r.folder = k[1]
    <3>1. PICK r \in rows : r.uid = k[2] /\ r.folder = k[1] BY <2>3
    <3> QED BY <2>1, <3>1 DEF RowsKept
  <2> QED BY <1>1, <2>1, <2>2, <2>3 DEF HiddenInv, SeenOK
<1> QED BY <1>1 DEF HiddenInv, SeenOK

\* What is gone stays so, and requests have moved only what is gone.
LEMMA HiddenKeeps ==
  ASSUME HiddenInv, SeenOK',
         \A u \in Uids : Given(u) => Given(u)' /\ (Excused(u) => Excused(u)'),
         \A w \in Workers : Holds(job[w])',
         \A w \in Workers : \A u \in job'[w].done :
            u \in job[w].done \/ (u \in Uids /\ Given(u)' /\ Excused(u)')
  PROVE  HiddenInv'
<1>1. ASSUME NEW w \in Workers PROVE Drops(job[w])'
  <2>1. ASSUME NEW u \in job'[w].done PROVE u \in Uids /\ Given(u)' /\ Excused(u)'
    BY DEF HiddenInv, Drops
  <2> QED BY <2>1 DEF Drops
<1> QED BY <1>1 DEF HiddenInv

\* A copy that is given stays excused.
LEMMA KeptExcused ==
  ASSUME Kept, astray \subseteq astray', NEW u \in Uids, Given(u), Excused(u)
  PROVE  Excused(u)'
BY DEF Kept, Excused, Alive

\* A request that does not change holds its copy.
LEMMA KeptHolds ==
  ASSUME Kept, astray \subseteq astray', NEW j, JobOK(j), Holds(j)
  PROVE  Holds(j)'
<1>1. CASE j.copied = 0 BY <1>1 DEF Holds
<1>2. CASE j.copied # 0
  <2>1. j.copied \in Uids /\ Given(j.copied) BY <1>2, CopiedGiven
  <2> QED BY <1>2, <2>1 DEF Kept, Holds, InFolder
<1> QED BY <1>1, <1>2

\* A step in which no request moves anything.
LEMMA CalmHides ==
  ASSUME HiddenInv, IInv, SeenOK', astray \subseteq astray', Kept,
         UNCHANGED job \/ \E w \in Workers : Onward(w)
  PROVE  HiddenInv'
<1>1. \A x \in Workers : job'[x] = job[x] \/ (job'[x].copied = 0 /\ job'[x].done \subseteq job[x].done)
  <2>1. ASSUME NEW w \in Workers, Onward(w)
        PROVE  \A x \in Workers : job'[x] = job[x] \/ (job'[x].copied = 0 /\ job'[x].done \subseteq job[x].done)
    <3>1. PICK j : job' = [job EXCEPT ![w] = j] /\ j.copied = 0 /\ j.done \subseteq job[w].done
      BY <2>1 DEF Onward
    <3> QED BY <3>1 DEF IInv, JobsOK
  <2> QED BY <2>1
<1>2. ASSUME NEW x \in Workers PROVE Holds(job[x])'
  <2>1. CASE job'[x] # job[x] BY <1>1, <2>1 DEF Holds
  <2>2. CASE job'[x] = job[x]
    <3>1. JobOK(job[x]) /\ Holds(job[x]) BY DEF HiddenInv, IInv, JobsOK
    <3>2. ASSUME NEW i, i = job[x] PROVE Holds(i)' BY <3>1, <3>2, KeptHolds
    <3> QED BY <2>2, <3>2 DEF Holds
  <2> QED BY <2>1, <2>2
<1>3. \A x \in Workers : \A u \in job'[x].done : u \in job[x].done BY <1>1
<1>4. \A u \in Uids : Given(u) => Given(u)' /\ (Excused(u) => Excused(u)')
  BY KeptExcused DEF Kept
<1> QED BY <1>2, <1>3, <1>4, HiddenKeeps

\* Such a step that leaves the saved uidnext alone.
LEMMA OnwardHides ==
  ASSUME HiddenInv, IInv, UNCHANGED seen, RowsKept, astray \subseteq astray', Kept,
         UNCHANGED job \/ \E w \in Workers : Onward(w)
  PROVE  HiddenInv'
<1>1. \A u \in Uids : Given(u) => Given(u)' /\ (Excused(u) => Excused(u)')
  BY KeptExcused DEF Kept
<1> QED BY <1>1, SeenKeeps, CalmHides

\* Nothing happens to the copies.
LEMMA StillKept ==
  ASSUME UNCHANGED <<of, box>>
  PROVE  Kept
BY DEF Kept, Given

\* Rows that no step touched.
LEMMA SameRows == UNCHANGED rows => RowsKept
BY DEF RowsKept

\* A request goes on with other commands.
LEMMA GoesOnward ==
  ASSUME IInv, NEW w \in Workers, job[w].copied = 0, NEW t, Goes(w, t)
  PROVE  Onward(w)
<1> DEFINE k == [job[w] EXCEPT !.todo = t]
           j == Ready(k)
<1>1. JobOK(job[w]) BY DEF IInv, JobsOK
<1>2. k = [todo |-> t, sel |-> job[w].sel, copied |-> job[w].copied, done |-> job[w].done]
  BY <1>1 DEF JobOK
<1>3. job' = [job EXCEPT ![w] = j] BY DEF Goes, IInv, JobsOK
<1> HIDE DEF k
<1>4. k.copied = 0 /\ k.done = job[w].done BY <1>2
<1>5. j.copied = 0 /\ j.done \subseteq job[w].done BY <1>4 DEF Ready, Free
<1> HIDE DEF j
<1> QED BY <1>3, <1>5 DEF Onward

\* So does one that was interrupted.
LEMMA RaisesOnward ==
  ASSUME IInv, NEW w \in Workers, Raises(w)
  PROVE  Onward(w)
<1> DEFINE s == IF At(w, "select") THEN None ELSE job[w].sel
           k == Raised(job[w], Rescue(w), s)
           j == Ready(k)
<1>1. JobOK(job[w]) BY DEF IInv, JobsOK
<1>2. job' = [job EXCEPT ![w] = j] BY DEF Raises, Raised
<1>3. k.copied = 0 /\ k.done = job[w].done
  <2>1. k = [todo |-> Rescue(w), sel |-> s, copied |-> 0, done |-> job[w].done] BY <1>1, JobRaised
  <2> HIDE DEF k
  <2> QED BY <2>1
<1> HIDE DEF k
<1>4. j.copied = 0 /\ j.done \subseteq job[w].done BY <1>3 DEF Ready, Free
<1> HIDE DEF j
<1> QED BY <1>2, <1>4 DEF Onward

\* An interruption changes only the request.
LEMMA RaisesHides ==
  ASSUME HiddenInv, IInv, NEW w \in Workers, Raises(w)
  PROVE  HiddenInv'
<1>1. UNCHANGED <<of, box, rows, seen, astray>> BY DEF Raises, cache, ghost
<1> QED BY <1>1, RaisesOnward, OnwardHides, StillKept, SameRows

\* The commands that only read the server, or write the session or the account.
LEMMA ReadsHide ==
  ASSUME HiddenInv, IInv, NEW w \in Workers,
         \/ DoTurnOff(w) \/ Fail(w) \/ DoSelect(w) \/ DoCreate(w) \/ DoTrash(w) \/ DoToken(w)
         \/ DoListJunk(w) \/ DoProbe(w) \/ DoFind(w) \/ DoItem(w)
  PROVE  HiddenInv'
<1>1. CASE Fail(w) BY <1>1, RaisesHides DEF Fail
<1>2. CASE DoSelect(w)
  <2>0. JobOK(job[w]) /\ job[w].copied = 0 BY <1>2, AtCommand DEF DoSelect
  <2>1. CASE Cmd(w).folder \in exists
    <3> DEFINE j == Selected(job[w], Left(w), Cmd(w).folder)
    <3>1. job' = [job EXCEPT ![w] = j] /\ UNCHANGED <<of, box, rows, seen, astray>>
      BY <1>2, <2>1 DEF DoSelect, Selected, IInv, JobsOK, cache, ghost
    <3>2. j = [todo |-> Left(w), sel |-> Cmd(w).folder, copied |-> 0, done |-> job[w].done]
      BY <2>0, JobSelected
    <3> HIDE DEF j
    <3>3. j.copied = 0 /\ j.done = job[w].done BY <3>2
    <3>4. Onward(w) BY <3>1, <3>3 DEF Onward
    <3> QED BY <3>1, <3>4, OnwardHides, StillKept, SameRows
  <2>2. CASE Cmd(w).folder \notin exists
    <3>1. Raises(w) BY <1>2, <2>2 DEF DoSelect
    <3> QED BY <3>1, RaisesHides
  <2> QED BY <2>1, <2>2
<1>3. CASE DoCreate(w) \/ DoTrash(w) \/ DoToken(w) \/ DoListJunk(w) \/ DoProbe(w) \/ DoFind(w) \/ DoItem(w)
  <2>1. job[w].copied = 0
    BY <1>3, AtCommand DEF DoCreate, DoTrash, DoToken, DoListJunk, DoProbe, DoFind, DoItem
  <2>2. UNCHANGED <<of, box, rows, seen, astray>>
    BY <1>3 DEF DoCreate, DoTrash, DoToken, DoListJunk, DoProbe, DoFind, DoItem, cache, ghost
  <2>3. \E t : Goes(w, t)
    BY <1>3 DEF DoCreate, DoTrash, DoToken, DoListJunk, DoProbe, DoFind, DoItem
  <2> QED BY <2>1, <2>2, <2>3, GoesOnward, OnwardHides, StillKept, SameRows
<1>4. CASE DoTurnOff(w)
  <2>1. UNCHANGED <<of, box, job, rows, seen, astray>> BY <1>4 DEF DoTurnOff, cache, ghost
  <2> QED BY <2>1, OnwardHides, StillKept, SameRows
<1> QED BY <1>1, <1>2, <1>3, <1>4

\* The commands that write rows.
LEMMA WritesHide ==
  ASSUME HiddenInv, IInv, NEW w \in Workers, DoDrop(w) \/ DoForget(w) \/ DoNote(w)
  PROVE  HiddenInv'
<1>1. job[w].copied = 0 /\ Goes(w, Left(w)) BY AtCommand DEF DoDrop, DoForget, DoNote
<1>2. UNCHANGED <<of, box, seen>> /\ astray \subseteq astray' BY DEF DoDrop, DoForget, DoNote, ghost
<1>3. Onward(w) BY <1>1, GoesOnward
<1>4. CASE DoDrop(w)
  <2>1. rows' = {r \in rows : r.uid \notin job[w].done} BY <1>4 DEF DoDrop
  <2>2. \A u \in job[w].done : Excused(u)' BY <1>2 DEF HiddenInv, Drops, Excused, Alive
  <2> QED BY <1>2, <1>3, <2>1, <2>2, OnwardHides, StillKept DEF RowsKept
<1>5. CASE DoForget(w)
  <2> DEFINE r == Cmd(w).row
  <2>1. rows' = {x \in rows : x.uid # r.uid \/ x.folder # r.folder} /\ r.uid \in astray'
    BY <1>5 DEF DoForget
  <2>2. RowsKept BY <2>1 DEF RowsKept, Excused
  <2> QED BY <1>2, <1>3, <2>2, OnwardHides, StillKept
<1>6. CASE DoNote(w)
  <2> DEFINE n == Cmd(w).row
  <2>1. rows' = {IF r.uid = n.uid /\ r.folder = n.folder THEN n ELSE r : r \in rows}
    BY <1>6 DEF DoNote
  <2>2. RowsKept BY <2>1 DEF RowsKept
  <2> QED BY <1>2, <1>3, <2>2, OnwardHides, StillKept
<1> QED BY <1>4, <1>5, <1>6

\* A STORE of flags moves no copy, and unmarks none.
LEMMA FlaggedKept ==
  ASSUME IInv, UNCHANGED of, NEW u, box[u] # None, NEW g \in Flags, NEW on, g = "gone" => on = TRUE,
         box' = Flagged(u, g, on)
  PROVE  Kept
<1> DEFINE F == IF on THEN box[u].flags \union {g} ELSE box[u].flags \ {g}
<1>1. box' = Reflagged(u, F) BY DEF Flagged, Reflagged
<1>2. CASE u \in Uids
  <2>1. F \in SUBSET Flags
    <3>1. box[u] \in Copies BY <1>2 DEF IInv, StoreOK
    <3> QED BY <3>1 DEF Copies
  <2>2. "gone" \in box[u].flags => "gone" \in F OBVIOUS
  <2> HIDE DEF F
  <2>3. /\ \A v \in Uids \ {u} : box'[v] = box[v]
        /\ box'[u].folder = box[u].folder /\ box'[u].flags = F
    BY <1>1, <1>2, <2>1, FlaggedBox DEF IInv
  <2> QED BY <2>2, <2>3 DEF Kept, Given
<1>3. CASE u \notin Uids
  <2>1. box' = box BY <1>3 DEF Flagged, IInv, StoreOK
  <2> QED BY <2>1, StillKept
<1> QED BY <1>2, <1>3

\* The commands that flag and expunge.
LEMMA MarksHide ==
  ASSUME HiddenInv, IInv, NEW w \in Workers, DoMark(w) \/ DoKeyword(w) \/ DoExpunge(w)
  PROVE  HiddenInv'
<1>1. job[w].copied = 0 /\ Sound(Cmd(w)) /\ Cmd(w).do \in {"mark", "keyword", "expunge"}
  BY AtCommand DEF DoMark, DoKeyword, DoExpunge
<1>2. CASE Raises(w) BY <1>2, RaisesHides
<1>3. CASE ~Raises(w)
  <2>1. UNCHANGED <<of, rows, seen, astray>> BY <1>3 DEF DoMark, DoKeyword, DoExpunge, cache, ghost
  <2>2. \E t : Goes(w, t) BY <1>3 DEF DoMark, DoKeyword, DoExpunge
  <2>3. Kept
    <3>1. CASE DoMark(w)
      <4>1. Cmd(w).flag \in Flags /\ (Cmd(w).flag = "gone" => Cmd(w).on = TRUE)
        BY <1>1, <3>1 DEF DoMark, Sound, At, Cmd
      <4>2. \/ box' = box
            \/ box' = Flagged(Cmd(w).uid, Cmd(w).flag, Cmd(w).on) /\ InFolder(Cmd(w).uid, job[w].sel)
        BY <1>3, <3>1 DEF DoMark
      <4> QED BY <2>1, <4>1, <4>2, FlaggedKept, StillKept DEF InFolder
    <3>2. CASE DoKeyword(w)
      <4>1. \/ box' = box
            \/ box' = Flagged(Cmd(w).uid, "junk", TRUE) /\ InFolder(Cmd(w).uid, job[w].sel)
        BY <3>2 DEF DoKeyword
      <4> QED BY <2>1, <4>1, NamesFacts, FlaggedKept, StillKept DEF InFolder
    <3>3. CASE DoExpunge(w)
      <4>1. box' = [u \in Uids |-> IF InFolder(u, job[w].sel) /\ ~Alive(u) THEN None ELSE box[u]]
        BY <1>3, <3>3 DEF DoExpunge
      <4> QED BY <2>1, <4>1 DEF Kept, Given
    <3> QED BY <3>1, <3>2, <3>3
  <2> QED BY <1>1, <2>1, <2>2, <2>3, GoesOnward, OnwardHides, SameRows
<1> QED BY <1>2, <1>3

\* A new copy moves no other.
LEMMA GivenKept ==
  ASSUME IInv, NEW v \in Uids, Fresh(v), NEW m \in Msgs, NEW c,
         of' = [of EXCEPT ![v] = m], box' = [box EXCEPT ![v] = c]
  PROVE  Kept
<1>1. \A u \in Uids : Given(u) => Given(u)' /\ u # v BY FreshLater
<1>2. \A u \in Uids \ {v} : box'[u] = box[u] BY DEF IInv, StoreOK
<1> QED BY <1>1, <1>2 DEF Kept

\* A draft is saved, or a message arrives.
LEMMA NewHides ==
  ASSUME HiddenInv, IInv, (\E w \in Workers : DoAppend(w)) \/ (\E m \in Msgs : Arrive(m))
  PROVE  HiddenInv'
<1>1. CASE \E w \in Workers : DoAppend(w)
  <2>1. PICK w \in Workers : DoAppend(w) BY <1>1
  <2>2. job[w].copied = 0 /\ Cmd(w).msg \in Msgs BY <2>1, AtCommand DEF DoAppend, Sound
  <2>3. UNCHANGED <<rows, seen, astray>> /\ Goes(w, Left(w)) BY <2>1 DEF DoAppend, cache, ghost
  <2>4. Kept BY <2>1, <2>2, GivenKept DEF DoAppend
  <2> QED BY <2>2, <2>3, <2>4, GoesOnward, OnwardHides, SameRows
<1>2. CASE \E m \in Msgs : Arrive(m)
  <2>1. PICK m \in Msgs : Arrive(m) BY <1>2
  <2>2. UNCHANGED <<rows, seen, astray, job>> BY <2>1 DEF Arrive, cache, ghost
  <2>3. PICK v \in Uids, f \in {Inbox, Drafts} \cap exists :
          /\ Fresh(v)
          /\ of' = [of EXCEPT ![v] = m]
          /\ box' = [box EXCEPT ![v] = [folder |-> f, flags |-> {}]]
    BY <2>1 DEF Arrive
  <2>4. Kept BY <2>3, GivenKept
  <2> QED BY <2>2, <2>4, OnwardHides, SameRows
<1> QED BY <1>1, <1>2

\* The COPY of a move holds its copy, or did not find it.
LEMMA CopyHides ==
  ASSUME HiddenInv, IInv, NEW w \in Workers, DoCopy(w)
  PROVE  HiddenInv'
<1> DEFINE u == Cmd(w).uid
           j == [job[w] EXCEPT !.copied = u]
<1>1. u \in Uids /\ Given(u) /\ JobOK(job[w]) BY AtMove DEF DoCopy
<1>2. j = [todo |-> job[w].todo, sel |-> job[w].sel, copied |-> u, done |-> job[w].done]
  BY <1>1 DEF JobOK
<1>3. job' = [job EXCEPT ![w] = j] BY DEF DoCopy, IInv, JobsOK
<1> HIDE DEF j
<1>4. job'[w] = j /\ \A x \in Workers \ {w} : job'[x] = job[x] BY <1>3 DEF IInv, JobsOK
<1>5. j.copied = u /\ j.sel = job[w].sel /\ j.done = job[w].done BY <1>2
<1>6. /\ UNCHANGED <<rows, seen>>
      /\ astray' = IF InFolder(u, job[w].sel) THEN astray ELSE astray \union {u}
  BY DEF DoCopy, cache
<1>7. Kept
  <2>1. \/ UNCHANGED <<of, box>>
        \/ \E v \in Uids : \E c :
             Fresh(v) /\ of' = [of EXCEPT ![v] = of[u]] /\ box' = [box EXCEPT ![v] = c]
    BY DEF DoCopy
  <2>2. of[u] \in Msgs BY <1>1 DEF Given, IInv, StoreOK
  <2> QED BY <2>1, <2>2, GivenKept, StillKept
<1>8. ASSUME NEW x \in Workers PROVE Holds(job[x])'
  <2>1. CASE x = w
    <3>1. u \in astray' \/ box'[u] = None \/ box'[u].folder = job[w].sel
      BY <1>1, <1>6, <1>7 DEF Kept, InFolder
    <3> QED BY <1>4, <1>5, <2>1, <3>1 DEF Holds, InFolder
  <2>2. CASE x # w
    <3>1. JobOK(job[x]) /\ Holds(job[x]) BY DEF HiddenInv, IInv, JobsOK
    <3>2. ASSUME NEW i, i = job[x] PROVE Holds(i)' BY <1>6, <1>7, <3>1, <3>2, KeptHolds
    <3> QED BY <1>4, <2>2, <3>2 DEF Holds
  <2> QED BY <2>1, <2>2
<1>9. \A x \in Workers : job'[x].done = job[x].done BY <1>4, <1>5
<1>10. \A x \in Uids : Given(x) => Given(x)' /\ (Excused(x) => Excused(x)')
  BY <1>6, <1>7, KeptExcused DEF Kept
<1> QED BY <1>6, <1>8, <1>9, <1>10, SameRows, SeenKeeps, HiddenKeeps

\* Its STORE marks the copy that it holds.
LEMMA StoreHides ==
  ASSUME HiddenInv, IInv, NEW w \in Workers, DoStore(w)
  PROVE  HiddenInv'
<1>1. PICK u \in Uids : u = job[w].copied /\ Given(u) /\ JobOK(job[w]) /\ u # 0
  BY AtMove DEF DoStore
<1> DEFINE k == Stored(job[w], Left(w), u)
           j == Ready(k)
<1>2. job' = [job EXCEPT ![w] = j] BY <1>1 DEF DoStore, Stored
<1>3. k.copied = 0 /\ k.done = job[w].done \union {u}
  <2>1. k = [todo |-> Left(w), sel |-> job[w].sel, copied |-> 0, done |-> job[w].done \union {u}]
    BY <1>1, JobStored
  <2> HIDE DEF k
  <2> QED BY <2>1
<1> HIDE DEF k
<1>4. j.copied = 0 /\ j.done \subseteq job[w].done \union {u} BY <1>3 DEF Ready, Free
<1> HIDE DEF j
<1>5. job'[w] = j /\ \A x \in Workers \ {w} : job'[x] = job[x] BY <1>2 DEF IInv, JobsOK
<1>6. /\ UNCHANGED <<of, rows, seen, astray>>
      /\ box' = IF InFolder(u, job[w].sel) THEN Flagged(u, "gone", TRUE) ELSE box
  BY <1>1 DEF DoStore, cache, ghost
<1>7. Kept
  <2>1. "gone" \in Flags BY NamesFacts
  <2> QED BY <1>6, <2>1, FlaggedKept, StillKept DEF InFolder
<1>8. Excused(u)'
  <2>1. CASE InFolder(u, job[w].sel)
    <3>1. box[u] \in Copies /\ box[u] # None BY <1>1, <2>1 DEF InFolder, IInv, StoreOK
    <3>2. box' = Reflagged(u, box[u].flags \union {"gone"}) BY <1>6, <2>1 DEF Flagged, Reflagged
    <3>3. box[u].flags \union {"gone"} \in SUBSET Flags BY <3>1 DEF Copies, Flags
    <3>4. box'[u].flags = box[u].flags \union {"gone"} BY <1>1, <3>1, <3>2, <3>3, FlaggedBox DEF IInv
    <3> QED BY <3>4 DEF Excused, Alive
  <2>2. CASE ~InFolder(u, job[w].sel)
    BY <1>1, <1>6, <2>2 DEF HiddenInv, Holds, Excused, Alive
  <2> QED BY <2>1, <2>2
<1>9. ASSUME NEW x \in Workers PROVE Holds(job[x])'
  <2>1. CASE x = w BY <1>4, <1>5, <2>1 DEF Holds
  <2>2. CASE x # w
    <3>1. JobOK(job[x]) /\ Holds(job[x]) BY DEF HiddenInv, IInv, JobsOK
    <3>2. ASSUME NEW i, i = job[x] PROVE Holds(i)' BY <1>6, <1>7, <3>1, <3>2, KeptHolds
    <3> QED BY <1>5, <2>2, <3>2 DEF Holds
  <2> QED BY <2>1, <2>2
<1>10. \A x \in Workers : \A v \in job'[x].done : v \in job[x].done \/ v = u BY <1>4, <1>5
<1>11. Given(u)' BY <1>1, <1>6 DEF Given
<1>12. \A x \in Uids : Given(x) => Given(x)' /\ (Excused(x) => Excused(x)')
  BY <1>6, <1>7, KeptExcused DEF Kept
<1> QED BY <1>1, <1>6, <1>8, <1>9, <1>10, <1>11, <1>12, SameRows, SeenKeeps, HiddenKeeps

\* RENAME and DELETE take the folder that requests have selected along.
LEMMA FollowHides ==
  ASSUME HiddenInv, IInv, NEW w \in Workers, job[w].copied = 0, NEW f, NEW g, Follow(w, f, g),
         UNCHANGED <<of, rows, seen, astray>>, f # None,
         \A u \in Uids : \/ box'[u] = None
                         \/ /\ box[u] # None /\ box'[u].flags = box[u].flags
                            /\ box'[u].folder = IF box[u].folder = f THEN g ELSE box[u].folder
  PROVE  HiddenInv'
<1> DEFINE s(x) == IF job[x].sel = f THEN g ELSE job[x].sel
           at(x) == [job[x] EXCEPT !.sel = s(x)]
<1>1. job' = [x \in Workers |-> IF x = w THEN Ready([at(x) EXCEPT !.todo = Left(w)]) ELSE at(x)]
  BY DEF Follow
<1>2. ASSUME NEW x \in Workers
      PROVE  at(x) = [todo |-> job[x].todo, sel |-> s(x), copied |-> job[x].copied, done |-> job[x].done]
  <2>1. JobOK(job[x]) BY DEF IInv, JobsOK
  <2> HIDE DEF s
  <2> QED BY <2>1 DEF JobOK
<1>3. ASSUME NEW x \in Workers
      PROVE  /\ job'[x].done \subseteq job[x].done
             /\ job'[x].copied # 0 => job'[x].copied = job[x].copied /\ job'[x].sel = s(x)
  <2> HIDE DEF at, s
  <2>1. CASE x # w
    <3>1. job'[x] = at(x) BY <1>1, <2>1
    <3> QED BY <1>2, <3>1
  <2>2. CASE x = w
    <3> DEFINE k == [at(w) EXCEPT !.todo = Left(w)]
    <3>1. job'[x] = Ready(k) BY <1>1, <2>2
    <3>2. k = [todo |-> Left(w), sel |-> s(w), copied |-> 0, done |-> job[w].done] BY <1>2
    <3> HIDE DEF k
    <3>3. k.copied = 0 /\ k.done = job[w].done BY <3>2
    <3> QED BY <2>2, <3>1, <3>3 DEF Ready, Free
  <2> QED BY <2>1, <2>2
<1>4. ASSUME NEW x \in Workers PROVE Holds(job[x])'
  <2>1. SUFFICES ASSUME job'[x].copied # 0, job[x].copied \notin astray, box'[job[x].copied] # None
                 PROVE  box'[job[x].copied].folder = s(x)
    BY <1>3 DEF Holds, InFolder
  <2>2. job[x].copied \in Uids BY <1>3, <2>1, CopiedGiven DEF IInv, JobsOK
  <2>3. InFolder(job[x].copied, job[x].sel) BY <1>3, <2>1, <2>2 DEF HiddenInv, Holds
  <2> QED BY <2>1, <2>2, <2>3 DEF InFolder
<1>5. \A x \in Uids : Given(x) => Given(x)' /\ (Excused(x) => Excused(x)')
  BY DEF Given, Excused, Alive
<1> QED BY <1>3, <1>4, <1>5, SameRows, SeenKeeps, HiddenKeeps

\* RENAME and DELETE
LEMMA FoldersHide ==
  ASSUME HiddenInv, IInv, NEW w \in Workers, DoRename(w) \/ DoDelete(w)
  PROVE  HiddenInv'
<1> DEFINE f == Cmd(w).folder
           g == Cmd(w).to
           Refused == UNCHANGED box /\ \E t : Goes(w, t)
           Renamed == /\ f \in exists /\ Follow(w, f, g)
                      /\ box' = [u \in Uids |-> IF InFolder(u, f) THEN [box[u] EXCEPT !.folder = g] ELSE box[u]]
           Removed == /\ f \in exists /\ Follow(w, f, None)
                      /\ box' = [u \in Uids |-> IF InFolder(u, f) THEN None ELSE box[u]]
<1>1. job[w].copied = 0 BY AtCommand DEF DoRename, DoDelete
<1>2. UNCHANGED <<of, rows, seen, astray>> BY DEF DoRename, DoDelete, cache, ghost
<1>3. CASE Refused
  BY <1>1, <1>2, <1>3, GoesOnward, OnwardHides, StillKept, SameRows
<1>4. CASE Renamed
  <2>1. f # None BY <1>4, NoneAssumption DEF IInv, StoreOK
  <2>2. ASSUME NEW u \in Uids
        PROVE  \/ box'[u] = None
               \/ /\ box[u] # None /\ box'[u].flags = box[u].flags
                  /\ box'[u].folder = IF box[u].folder = f THEN g ELSE box[u].folder
    <3>1. box[u] \in Copies \union {None} BY DEF IInv, StoreOK
    <3> QED BY <1>4, <3>1 DEF InFolder, Copies
  <2> HIDE DEF f, g
  <2> QED BY <1>1, <1>2, <1>4, <2>1, <2>2, FollowHides
<1>5. CASE Removed
  <2>1. f # None BY <1>5, NoneAssumption DEF IInv, StoreOK
  <2>2. ASSUME NEW u \in Uids
        PROVE  \/ box'[u] = None
               \/ /\ box[u] # None /\ box'[u].flags = box[u].flags
                  /\ box'[u].folder = IF box[u].folder = f THEN None ELSE box[u].folder
    BY <1>5 DEF InFolder
  <2> HIDE DEF f, g
  <2> QED BY <1>1, <1>2, <1>5, <2>1, <2>2, FollowHides
<1>6. DoRename(w) => Refused \/ Renamed BY DEF DoRename
<1>7. DoDelete(w) => Refused \/ Removed BY DEF DoDelete
<1> QED BY <1>3, <1>4, <1>5, <1>6, <1>7

\* rename_folder_in_cache and delete_folder_in_cache treat rows and uidnext alike.
LEMMA NamesHide ==
  ASSUME HiddenInv, IInv, NEW w \in Workers, DoRenameRows(w) \/ DoDeleteRows(w)
  PROVE  HiddenInv'
<1> DEFINE f == Cmd(w).folder
<1>1. job[w].copied = 0 /\ Goes(w, Left(w)) BY AtCommand DEF DoRenameRows, DoDeleteRows
<1>2. UNCHANGED <<of, box, astray>> BY DEF DoRenameRows, DoDeleteRows, ghost
<1>3. \A u : (Given(u) => Given(u)') /\ (Excused(u) => Excused(u)') BY <1>2 DEF Given, Excused, Alive
<1>4. ASSUME DoRenameRows(w) PROVE SeenOK'
  <2> DEFINE name(x) == IF x = f THEN Cmd(w).to ELSE x
  <2>1. /\ rows' = {[r EXCEPT !.folder = name(@)] : r \in rows}
        /\ seen' = {<<name(k[1]), k[2]>> : k \in seen}
    BY <1>4 DEF DoRenameRows
  <2>2. \A x \in Folders : name(x) \in Folders BY <1>4, AtCommand DEF DoRenameRows, Sound
  <2> HIDE DEF name
  <2>3. ASSUME NEW r \in rows
        PROVE  \E s \in rows' : s.uid = r.uid /\ s.folder = name(r.folder)
    <3>1. r \in Rows BY RowFacts
    <3>2. [r EXCEPT !.folder = name(@)].uid = r.uid
          /\ [r EXCEPT !.folder = name(@)].folder = name(r.folder)
      BY <3>1 DEF Rows
    <3> QED BY <2>1, <3>2
  <2>4. ASSUME NEW k \in seen
        PROVE  /\ <<name(k[1]), k[2]>> \in Folders \X Uids /\ Given(k[2])'
               /\ Excused(k[2])' \/ \E s \in rows' : s.uid = k[2] /\ s.folder = name(k[1])
    <3>1. /\ k \in Folders \X Uids /\ Given(k[2])
          /\ Excused(k[2]) \/ \E r \in rows : r.uid = k[2] /\ r.folder = k[1]
      BY DEF HiddenInv, SeenOK
    <3> QED BY <1>3, <2>2, <2>3, <3>1
  <2>5. ASSUME NEW k \in seen'
        PROVE  /\ k \in Folders \X Uids /\ Given(k[2])'
               /\ Excused(k[2])' \/ \E s \in rows' : s.uid = k[2] /\ s.folder = k[1]
    <3>1. PICK i \in seen : k = <<name(i[1]), i[2]>> BY <2>1
    <3> QED BY <2>4, <3>1
  <2> QED BY <2>5 DEF SeenOK
<1>5. ASSUME DoDeleteRows(w) PROVE SeenOK'
  <2>1. rows' = {r \in rows : r.folder # f} /\ seen' = {k \in seen : k[1] # f}
    BY <1>5 DEF DoDeleteRows
  <2>2. ASSUME NEW k \in seen'
        PROVE  /\ k \in Folders \X Uids /\ Given(k[2])'
               /\ Excused(k[2])' \/ \E s \in rows' : s.uid = k[2] /\ s.folder = k[1]
    <3>1. /\ k \in Folders \X Uids /\ Given(k[2]) /\ k[1] # f
          /\ Excused(k[2]) \/ \E r \in rows : r.uid = k[2] /\ r.folder = k[1]
      BY <2>1 DEF HiddenInv, SeenOK
    <3> QED BY <1>3, <2>1, <3>1
  <2> QED BY <2>2 DEF SeenOK
<1>6. SeenOK' BY <1>4, <1>5
<1> QED BY <1>1, <1>2, <1>6, GoesOnward, CalmHides, StillKept

\* A sync of a folder: what it has seen of the folder's present mailbox has its
\* row, and what it has seen of another one is forgotten with its rows.
LEMMA RefreshHides ==
  ASSUME HiddenInv, IInv, NEW f \in Folders, Refresh(f)
  PROVE  HiddenInv'
<1> DEFINE stale == {k \in seen : k[1] = f /\ box[k[2]] # None /\ box[k[2]].folder # f}
           fresh == {u \in Uids : InFolder(u, f) /\ <<f, u>> \notin seen}
           known == {r.uid : r \in {y \in rows : y.folder = f}}
           now == fresh \union {u \in known : InFolder(u, f)}
<1>1. /\ UNCHANGED <<of, box, job, astray>>
      /\ rows' = {r \in rows : r.folder # f}
                 \union {[folder |-> f, uid |-> u, flags |-> box[u].flags] : u \in now}
      /\ seen' = (seen \ stale) \union {<<f, u>> : u \in fresh}
  BY DEF Refresh, ghost
<1>2. \A u : (Given(u) => Given(u)') /\ (Excused(u) => Excused(u)') BY <1>1 DEF Given, Excused, Alive
<1>3. ASSUME NEW u \in now PROVE \E s \in rows' : s.uid = u /\ s.folder = f
  <2> HIDE DEF now
  <2>1. [folder |-> f, uid |-> u, flags |-> box[u].flags] \in rows' BY <1>1
  <2> QED BY <2>1
<1>4. ASSUME NEW k \in seen'
      PROVE  /\ k \in Folders \X Uids /\ Given(k[2])'
             /\ Excused(k[2])' \/ \E s \in rows' : s.uid = k[2] /\ s.folder = k[1]
  <2>1. CASE \E u \in fresh : k = <<f, u>>
    <3>1. PICK u \in fresh : k = <<f, u>> BY <2>1
    <3>2. u \in Uids /\ Given(u) /\ u \in now BY <3>1 DEF InFolder, IInv, PlacedOK
    <3> HIDE DEF now, fresh
    <3> QED BY <1>2, <1>3, <3>1, <3>2
  <2>2. CASE k \in seen /\ k \notin stale
    <3>1. /\ k \in Folders \X Uids /\ Given(k[2])
          /\ Excused(k[2]) \/ \E r \in rows : r.uid = k[2] /\ r.folder = k[1]
      BY <2>2 DEF HiddenInv, SeenOK
    <3>2. CASE Excused(k[2]) BY <1>2, <3>1, <3>2
    <3>3. CASE ~Excused(k[2])
      <4>1. PICK r \in rows : r.uid = k[2] /\ r.folder = k[1] BY <3>1, <3>3
      <4>2. CASE k[1] # f
        <5>1. r \in rows' BY <1>1, <4>1, <4>2
        <5> QED BY <1>2, <3>1, <4>1, <5>1
      <4>3. CASE k[1] = f
        <5>1. InFolder(k[2], f) BY <2>2, <3>3, <4>3 DEF Excused, Alive, InFolder
        <5>2. k[2] \in now BY <4>1, <4>3, <5>1
        <5> HIDE DEF now
        <5> QED BY <1>2, <1>3, <3>1, <4>3, <5>2
      <4> QED BY <4>2, <4>3
    <3> QED BY <3>2, <3>3
  <2> HIDE DEF fresh, stale
  <2> QED BY <1>1, <2>1, <2>2
<1>5. SeenOK' BY <1>4 DEF SeenOK
<1> QED BY <1>1, <1>5, CalmHides, StillKept

\* A request that starts has moved nothing yet.
LEMMA StartsHide ==
  ASSUME HiddenInv, IInv, NEW w \in Workers, job[w] = Free, \E t : job' = [job EXCEPT ![w].todo = t],
         UNCHANGED <<of, box, seen, astray>>, RowsKept
  PROVE  HiddenInv'
<1>1. PICK t : job' = [job EXCEPT ![w].todo = t] BY DEF Starts
<1> DEFINE j == [job[w] EXCEPT !.todo = t]
<1>2. job' = [job EXCEPT ![w] = j] BY <1>1 DEF IInv, JobsOK
<1>3. j.copied = 0 /\ j.done = job[w].done BY DEF Free
<1> HIDE DEF j
<1>4. Onward(w) BY <1>2, <1>3 DEF Onward
<1> QED BY <1>4, OnwardHides, StillKept

\* A request that only starts.
Opens(w) ==
  /\ job[w] = Free /\ \E t : job' = [job EXCEPT ![w].todo = t]
  /\ UNCHANGED <<of, box, seen, astray, rows>>

\* Most requests are such.
LEMMA StartsOpen == \A w, t : Starts(w, t) => Opens(w)
BY DEF Starts, Takes, Opens, cache

\* Rows whose flags are written stay.
LEMMA FlagsHide ==
  ASSUME HiddenInv, IInv, NEW w \in Workers, NEW r \in rows, NEW g, NEW on,
         ApiUpdateFlags(w, r, g, on) \/ McpUpdateFlags(w, r, g, on)
  PROVE  HiddenInv'
<1>1. job[w] = Free /\ (\E t : job' = [job EXCEPT ![w].todo = t]) /\ UNCHANGED <<of, box, seen, astray>>
  BY DEF ApiUpdateFlags, McpUpdateFlags, Takes
<1>2. PICK F : rows' = (rows \ {r}) \union {[r EXCEPT !.flags = F]}
  <2> DEFINE F == IF on THEN r.flags \union {g} ELSE r.flags \ {g}
  <2>1. rows' = (rows \ {r}) \union {[r EXCEPT !.flags = F]}
    BY DEF ApiUpdateFlags, McpUpdateFlags
  <2> HIDE DEF F
  <2> QED BY <2>1
<1>3. [r EXCEPT !.flags = F].uid = r.uid /\ [r EXCEPT !.flags = F].folder = r.folder
  BY RowFacts DEF Rows
<1>4. RowsKept BY <1>2, <1>3 DEF RowsKept
<1> QED BY <1>1, <1>4, StartsHide

\* So do those of a bulk request.
LEMMA BulkFlagHides ==
  ASSUME HiddenInv, IInv, NEW S, NEW g, NEW on, ApiBulkFlag(S, g, on)
  PROVE  HiddenInv'
<1>1. UNCHANGED <<of, box, seen, astray, job>> BY DEF ApiBulkFlag, ghost
<1> DEFINE n(r) == IF r \in S THEN [r EXCEPT !.flags = IF on THEN @ \union {g} ELSE @ \ {g}] ELSE r
<1>2. rows' = {n(r) : r \in rows} BY DEF ApiBulkFlag
<1>3. ASSUME NEW r \in rows PROVE n(r).uid = r.uid /\ n(r).folder = r.folder
  BY RowFacts DEF Rows
<1> HIDE DEF n
<1>4. RowsKept BY <1>2, <1>3 DEF RowsKept
<1> QED BY <1>1, <1>4, OnwardHides, StillKept

\* The requests of the web client, the API and the tools.
LEMMA RequestHides ==
  ASSUME HiddenInv, IInv, NEW w \in Workers, WebRequest(w) \/ ApiRequest(w) \/ McpRequest(w)
  PROVE  HiddenInv'
<1> DEFINE Updates == \E r \in rows, g \in Guards, on \in BOOLEAN :
                        ApiUpdateFlags(w, r, g, on) \/ McpUpdateFlags(w, r, g, on)
           Flagging == \E S \in Selections, g \in Guards, on \in BOOLEAN : ApiBulkFlag(S, g, on)
<1>1. CASE Opens(w) BY <1>1, StartsHide, SameRows DEF Opens
<1>2. CASE Updates BY <1>2, FlagsHide
<1>3. CASE Flagging BY <1>3, BulkFlagHides
<1>4. WebRequest(w) => Opens(w)
  BY StartsOpen
     DEF WebRequest, MoveMessage, DeleteMessage, ArchiveMessage, JunkMessage, NotJunkMessage, WebMark,
         DiscardDraft, AutoSaveDraft, SaveDraft, BulkAction, UndoMessage, CreateFolder, DeleteFolder, RenameFolder
<1>5. ApiRequest(w) => Opens(w) \/ Updates \/ Flagging
  BY StartsOpen
     DEF ApiRequest, CreateFolder, ApiMove, ApiDelete, ApiReportSpam, ApiNotSpam, ApiCreateDraft,
         ApiDeleteDraft, ApiBulkDelete, ApiBulkMove, ApiCreateFolder, ApiDeleteFolder, ApiRenameFolder
<1>6. McpRequest(w) => Opens(w) \/ Updates \/ Flagging
  BY StartsOpen
     DEF McpRequest, CreateFolder, McpMove, ApiMove, McpDelete, McpReportSpam, ApiReportSpam, McpNotSpam,
         ApiNotSpam, McpSaveDraft, ApiCreateDraft, McpDeleteDraft, ApiDeleteDraft, McpBulkDelete,
         McpBulkMove, McpBulkFlag, McpCreateFolder, McpDeleteFolder, ApiDeleteFolder, McpRenameFolder,
         ApiRenameFolder
<1> QED BY <1>1, <1>2, <1>3, <1>4, <1>5, <1>6

\* Every step of the program.
LEMMA NextHides == HiddenInv /\ IInv /\ [Next]_vars => HiddenInv'
<1> SUFFICES ASSUME HiddenInv, IInv, [Next]_vars PROVE HiddenInv' OBVIOUS
<1>1. ASSUME NEW w \in Workers, Step(w) PROVE HiddenInv'
  BY <1>1, ReadsHide, WritesHide, MarksHide, NewHides, CopyHides, StoreHides, FoldersHide, NamesHide DEF Step
<1>2. CASE \E w \in Workers : WebRequest(w) \/ ApiRequest(w) \/ McpRequest(w) BY <1>2, RequestHides
<1>3. CASE \E m \in Msgs : Arrive(m) BY <1>3, NewHides
<1>4. CASE \E f \in Folders : Refresh(f) BY <1>4, RefreshHides
<1>5. CASE ShowUndo \/ RecoverSpam \/ (\E p \in {"on", "user_off"} : SetSpamAction(p)) \/ UNCHANGED vars
  <2>1. UNCHANGED <<of, box, job, rows, seen, astray>>
    BY <1>5 DEF ShowUndo, RecoverSpam, SetSpamAction, vars, cache, ghost
  <2> QED BY <2>1, OnwardHides, StillKept, SameRows
<1> QED BY <1>1, <1>2, <1>3, <1>4, <1>5 DEF Next

\* No message is hidden: whatever requests overlap and wherever one is cut off,
\* a message in a folder that no later sync fetches again has a row there,
\* unless a COPY did not find it or the composer dropped the row of its draft.
THEOREM NothingHidden == Spec => []NoHidden
<1>1. Init => HiddenInv
  BY DEF Init, HiddenInv, SeenOK, Holds, Drops, Free
<1>2. HiddenInv /\ IInv => NoHidden
  <2> SUFFICES ASSUME HiddenInv, NEW u \in Uids, Alive(u), u \notin astray, <<box[u].folder, u>> \in seen
               PROVE  \E r \in rows : r.uid = u /\ r.folder = box[u].folder
    BY DEF NoHidden
  <2> QED BY DEF HiddenInv, SeenOK, Excused
<1> QED BY <1>1, <1>2, NextHides, MovesInvariant, PTL DEF Spec

-----------------------------------------------------------------------------
(* Sending *)

Delivers(w) == thread[w].at \notin {"free", "waiting"}

\* No two workers deliver the same message.
Alone ==
  \A v, w \in Threads :
    Delivers(v) /\ Delivers(w) /\ thread[v].token = thread[w].token => v = w

\* The messages that are "sending" are those that some worker delivers.
Counted ==
  /\ \A w \in Threads : Delivers(w) => status[thread[w].token] = "sending"
  /\ \A t \in Tokens : status[t] = "sending" =>
       \E w \in Threads : Delivers(w) /\ thread[w].token = t

\* What the server confirmed of a message whose status is this, and whether
\* an attempt is left for a worker to make.
Ledger(t) ==
  /\ unheard[t] <= accepted[t] /\ accepted[t] <= unheard[t] + 1 /\ accepted[t] <= tries[t]
  /\ status[t] \in Claimable => accepted[t] = unheard[t] /\ accepted[t] < tries[t]
  /\ status[t] \in {"cancelled", "failed"} => accepted[t] = unheard[t]
  /\ status[t] = "sent" => accepted[t] = unheard[t] + 1

\* The same of a message that a worker delivers, by how far it got.
Account(w) ==
  LET t == thread[w].token
  IN  /\ thread[w].at = "smtp" => accepted[t] = unheard[t] /\ accepted[t] < tries[t]
      /\ thread[w].at = "failing" => accepted[t] = unheard[t]
      /\ thread[w].at \in {"draft", "done"} => accepted[t] = unheard[t] + 1

Books == (\A t \in Tokens : Ledger(t)) /\ (\A w \in Threads : Account(w))

SendInv == TypeOK /\ Alone /\ Counted /\ Books

-----------------------------------------------------------------------------
(* The helpers of the handlers *)

\* _start_send_worker leaves the workers alone and adds one that waits.
LEMMA StartAdds ==
  ASSUME TypeOK, NEW t \in Tokens, StartWorker(t)
  PROVE  \E w \in Threads :
           /\ thread[w].at = "free"
           /\ thread' = [thread EXCEPT ![w] = [token |-> t, at |-> "waiting"]]
BY DEF StartWorker

\* So it changes no worker that delivers.
LEMMA StartStill ==
  ASSUME TypeOK, NEW t \in Tokens, StartWorker(t)
  PROVE  /\ thread' \in [Threads -> [token : Tokens,
                           at : {"waiting", "smtp", "draft", "done", "failing"}] \union {Spare}]
         /\ \A w \in Threads : Delivers(w)' <=> Delivers(w)
         /\ \A w \in Threads : Delivers(w) => thread'[w] = thread[w]
<1>1. PICK w \in Threads :
           /\ thread[w].at = "free"
           /\ thread' = [thread EXCEPT ![w] = [token |-> t, at |-> "waiting"]]
  BY StartAdds
<1> QED BY <1>1 DEF TypeOK, Delivers

\* _cleanup_pending_sends only forgets finished messages.
LEMMA CleanedForgets ==
  ASSUME NEW s \in [Tokens -> Finished \union Claimable \union {"sending", "none"}],
         NEW n \in Tokens \union {NoMail}, Cleaned(s, n)
  PROVE  /\ status' \in [Tokens -> Finished \union Claimable \union {"sending", "none"}]
         /\ notice' \in Tokens \union {NoMail}
         /\ \A t \in Tokens : status'[t] = s[t] \/ (s[t] \in Finished /\ status'[t] = "none")
<1>1. PICK gone \in SUBSET {t \in Tokens : s[t] \in Finished} :
    /\ status' = [t \in Tokens |-> IF t \in gone THEN "none" ELSE s[t]]
    /\ notice' = IF n \in gone THEN NoMail ELSE n
  BY DEF Cleaned
<1> QED BY <1>1

-----------------------------------------------------------------------------
(* Steps that no delivering worker takes *)

\* Workers that deliver stay as they are, and so do the messages they deliver;
\* what changes of the others agrees with the books.
LEMMA StillSends ==
  ASSUME SendInv, TypeOK',
         \A w \in Threads : Delivers(w)' <=> Delivers(w),
         \A w \in Threads : Delivers(w) => thread'[w] = thread[w],
         \A t \in Tokens : status'[t] = "sending" <=> status[t] = "sending",
         \A t \in Tokens : tries[t] <= tries'[t],
         accepted' = accepted, unheard' = unheard,
         \A t \in Tokens : Ledger(t)'
  PROVE  SendInv'
<1>1. Alone'
  BY DEF SendInv, Alone, Delivers
<1>2. Counted'
  <2>1. \A w \in Threads : Delivers(w) => thread[w].token \in Tokens
    BY DEF SendInv, TypeOK, Delivers, Spare
  <2> QED BY <2>1 DEF SendInv, Counted, Delivers
<1>3. ASSUME NEW w \in Threads PROVE Account(w)'
  <2>1. CASE Delivers(w)
    <3>1. thread[w].token \in Tokens /\ thread'[w] = thread[w]
      BY <2>1 DEF SendInv, TypeOK, Delivers, Spare
    <3>2. /\ accepted[thread[w].token] \in Nat
          /\ tries[thread[w].token] \in Nat /\ tries'[thread[w].token] \in Nat
      BY <3>1, SendAssumption DEF SendInv, TypeOK
    <3> QED BY <3>1, <3>2 DEF SendInv, Books, Account
  <2>2. CASE ~Delivers(w)
    BY <2>2 DEF Account, Delivers
  <2> QED BY <2>1, <2>2
<1> QED BY <1>1, <1>2, <1>3 DEF SendInv, Books

\* send_mail: a token never sent before, of which nothing was accepted.
LEMMA SendKeeps == ASSUME SendInv, NEW t \in Tokens, Send(t) PROVE SendInv'
<1> DEFINE s == [status EXCEPT ![t] = "countdown"]
<1>1. s \in [Tokens -> Finished \union Claimable \union {"sending", "none"}] /\ Cleaned(s, notice)
  BY DEF SendInv, TypeOK, Send, Claimable
<1>2. /\ status' \in [Tokens -> Finished \union Claimable \union {"sending", "none"}]
      /\ notice' \in Tokens \union {NoMail}
      /\ \A u \in Tokens : status'[u] = s[u] \/ (s[u] \in Finished /\ status'[u] = "none")
  BY <1>1, CleanedForgets DEF SendInv, TypeOK
<1>3. TypeOK /\ StartWorker(t)
  BY DEF SendInv, Send
<1>4. TypeOK'
  BY <1>2, <1>3, StartStill, SendAssumption DEF SendInv, TypeOK, Send
<1>5. \A u \in Tokens : status'[u] = "sending" <=> status[u] = "sending"
  BY <1>2 DEF SendInv, TypeOK, Send, Finished
<1>6. \A u \in Tokens : tries[u] <= tries'[u]
  BY SendAssumption DEF SendInv, TypeOK, Send
<1>7. ASSUME NEW u \in Tokens PROVE Ledger(u)'
  <2>1. tries[u] \in Nat /\ accepted[u] \in Nat /\ unheard[u] \in Nat
    BY SendAssumption DEF SendInv, TypeOK
  <2>2. CASE u = t
    BY <1>2, <2>1, <2>2 DEF SendInv, TypeOK, Books, Ledger, Send, Finished, Claimable
  <2>3. CASE u # t
    BY <1>2, <2>1, <2>3 DEF SendInv, TypeOK, Books, Ledger, Send, Finished, Claimable
  <2> QED BY <2>2, <2>3
<1>8. accepted' = accepted /\ unheard' = unheard
  BY DEF Send
<1> QED BY <1>3, <1>4, <1>5, <1>6, <1>7, <1>8, StartStill, StillSends

\* send_now, retry_send, undo_send, send_status and a mailbox page.
LEMMA RequestKeeps ==
  ASSUME SendInv, NEW t \in Tokens, SendNow(t) \/ Retry(t) \/ Undo(t) \/ Status(t) \/ Mailbox
  PROVE  SendInv'
<1>1. \/ StartWorker(t)
      \/ thread' = thread
  BY DEF SendNow, Retry, Undo, Status, Mailbox
<1>2. /\ thread' \in [Threads -> [token : Tokens,
                        at : {"waiting", "smtp", "draft", "done", "failing"}] \union {Spare}]
      /\ \A w \in Threads : Delivers(w)' <=> Delivers(w)
      /\ \A w \in Threads : Delivers(w) => thread'[w] = thread[w]
  <2>1. CASE StartWorker(t)
    BY <2>1, StartStill DEF SendInv
  <2>2. CASE thread' = thread
    BY <2>2 DEF SendInv, TypeOK, Delivers
  <2> QED BY <1>1, <2>1, <2>2
<1>3. /\ status' \in [Tokens -> Finished \union Claimable \union {"sending", "none"}]
      /\ notice' \in Tokens \union {NoMail}
      /\ \A u \in Tokens : \/ status'[u] = status[u]
                           \/ status[u] \in Finished /\ status'[u] = "none"
                           \/ status[u] \in Claimable /\ status'[u] \in {"queued", "cancelled"}
                           \/ status[u] = "failed" /\ status'[u] = "queued"
                                /\ tries'[u] = tries[u] + 1
  <2>1. CASE SendNow(t) \/ Retry(t) \/ Undo(t) \/ Mailbox
    BY <2>1 DEF SendInv, TypeOK, SendNow, Retry, Undo, Mailbox, Finished, Claimable
  <2>2. CASE Status(t)
    BY <2>2, CleanedForgets DEF SendInv, TypeOK, Status
  <2> QED BY <2>1, <2>2
<1>4. /\ tries' \in [Tokens -> 0..MaxTries] /\ shown' \subseteq Tokens
      /\ \A u \in Tokens : tries[u] <= tries'[u]
      /\ accepted' = accepted /\ unheard' = unheard /\ draft' = draft
  <2>1. CASE Retry(t)
    BY <2>1, SendAssumption DEF SendInv, TypeOK, Retry
  <2>2. CASE SendNow(t) \/ Undo(t) \/ Status(t) \/ Mailbox
    <3>1. tries' = tries /\ shown' \subseteq Tokens
      BY <2>2 DEF SendInv, TypeOK, SendNow, Undo, Status, Mailbox
    <3> QED BY <2>2, <3>1, SendAssumption DEF SendInv, TypeOK, SendNow, Undo, Status, Mailbox
  <2> QED BY <2>1, <2>2
<1>5. TypeOK'
  BY <1>2, <1>3, <1>4 DEF SendInv, TypeOK
<1>6. ASSUME NEW u \in Tokens PROVE Ledger(u)'
  <2>1. /\ tries[u] \in Nat /\ tries'[u] \in Nat
        /\ accepted[u] \in Nat /\ unheard[u] \in Nat
    BY <1>4, SendAssumption DEF SendInv, TypeOK
  <2> QED BY <1>3, <1>4, <2>1 DEF SendInv, Books, Ledger, Finished, Claimable
<1>7. \A u \in Tokens : status'[u] = "sending" <=> status[u] = "sending"
  BY <1>3 DEF Finished, Claimable
<1> QED BY <1>2, <1>4, <1>5, <1>6, <1>7, StillSends

-----------------------------------------------------------------------------
(* Steps of a worker *)

\* A worker that is neither free nor waiting has a message, which is "sending"
\* and nobody else's.
LEMMA Own ==
  ASSUME SendInv, NEW w \in Threads, Delivers(w)
  PROVE  /\ thread[w].token \in Tokens
         /\ status[thread[w].token] = "sending"
         /\ \A v \in Threads \ {w} : Delivers(v) => thread[v].token # thread[w].token
BY DEF SendInv, TypeOK, Delivers, Spare, Counted, Alone

\* The claim: nobody delivers a message that is counting down or queued.
LEMMA ClaimKeeps == ASSUME SendInv, NEW w \in Threads, Claim(w) PROVE SendInv'
<1> DEFINE t == thread[w].token
<1>0. t \in Tokens /\ ~Delivers(w)
  BY DEF SendInv, TypeOK, Claim, Spare, Delivers
<1>1. CASE status[t] \in Claimable
  <2>1. /\ thread' = [thread EXCEPT ![w].at = "smtp"]
        /\ status' = [status EXCEPT ![t] = "sending"]
        /\ UNCHANGED <<notice, tries, accepted, unheard, draft, shown>>
    BY <1>1 DEF Claim, Reaches
  <2>2. TypeOK'
    BY <1>0, <2>1 DEF SendInv, TypeOK, Claim, Spare
  <2>3. \A v \in Threads : Delivers(v) => thread[v].token # t
    BY <1>1 DEF SendInv, Counted, Claimable
  <2>4. /\ thread'[w] = [token |-> t, at |-> "smtp"]
        /\ \A v \in Threads \ {w} : thread'[v] = thread[v]
    BY <1>0, <2>1 DEF SendInv, TypeOK, Claim, Spare
  <2>5. Alone'
    BY <2>3, <2>4 DEF SendInv, Alone, Delivers
  <2>6. Counted'
    <3>1. ASSUME NEW v \in Threads, Delivers(v)' PROVE status'[thread'[v].token] = "sending"
      <4>1. CASE v = w
        BY <1>0, <2>1, <2>4, <4>1 DEF SendInv, TypeOK
      <4>2. CASE v # w
        <5>1. thread'[v] = thread[v] /\ Delivers(v)
          BY <2>4, <3>1, <4>2 DEF Delivers
        <5> QED BY <2>1, <2>3, <5>1, Own DEF SendInv, TypeOK
      <4> QED BY <4>1, <4>2
    <3>2. ASSUME NEW u \in Tokens, status'[u] = "sending"
          PROVE  \E v \in Threads : Delivers(v)' /\ thread'[v].token = u
      <4>1. CASE u = t
        BY <2>4, <4>1 DEF Delivers
      <4>2. CASE u # t
        <5>1. PICK v \in Threads : Delivers(v) /\ thread[v].token = u
          BY <2>1, <3>2, <4>2 DEF SendInv, TypeOK, Counted
        <5>2. v # w
          BY <1>0, <5>1
        <5> QED BY <2>4, <5>1, <5>2 DEF Delivers
      <4> QED BY <4>1, <4>2
    <3> QED BY <3>1, <3>2 DEF Counted
  <2>7. Books'
    <3>1. ASSUME NEW u \in Tokens PROVE Ledger(u)'
      BY <1>0, <2>1 DEF SendInv, TypeOK, Books, Ledger, Claimable
    <3>2. ASSUME NEW v \in Threads PROVE Account(v)'
      <4>1. CASE v = w
        BY <1>0, <1>1, <2>1, <2>4, <4>1 DEF SendInv, Books, Ledger, Account
      <4>2. CASE v # w
        BY <2>1, <2>4, <4>2 DEF SendInv, Books, Account
      <4> QED BY <4>1, <4>2
    <3> QED BY <3>1, <3>2 DEF Books
  <2> QED BY <2>2, <2>5, <2>6, <2>7 DEF SendInv
<1>2. CASE status[t] \notin Claimable
  <2>1. /\ thread' = [thread EXCEPT ![w] = Spare]
        /\ UNCHANGED <<status, notice, tries, accepted, unheard, draft, shown>>
    BY <1>2 DEF Claim, Ends
  <2>2. TypeOK'
    BY <2>1 DEF SendInv, TypeOK
  <2>3. /\ \A v \in Threads : Delivers(v)' <=> Delivers(v)
        /\ \A v \in Threads : Delivers(v) => thread'[v] = thread[v]
    BY <1>0, <2>1 DEF SendInv, TypeOK, Delivers, Spare
  <2>4. \A u \in Tokens : Ledger(u)' /\ tries[u] <= tries'[u]
    BY <2>1, SendAssumption DEF SendInv, TypeOK, Books, Ledger
  <2> QED BY <2>1, <2>2, <2>3, <2>4, StillSends
<1> QED BY <1>1, <1>2

\* A worker that delivers gets on with its message: what it now knows of it
\* agrees with the books, which change for that message only.
LEMMA OnwardKeeps ==
  ASSUME SendInv, TypeOK', NEW w \in Threads, Delivers(w),
         NEW at \in {"draft", "done", "failing"},
         thread' = [thread EXCEPT ![w].at = at], status' = status, tries' = tries,
         \A t \in Tokens : t # thread[w].token =>
                            accepted'[t] = accepted[t] /\ unheard'[t] = unheard[t],
         Ledger(thread[w].token)', Account(w)'
  PROVE  SendInv'
<1>1. /\ thread'[w].token = thread[w].token /\ thread'[w].at = at
      /\ \A v \in Threads \ {w} : thread'[v] = thread[v]
  BY DEF SendInv, TypeOK, Delivers, Spare
<1>2. /\ \A v \in Threads : Delivers(v)' <=> Delivers(v)
      /\ \A v \in Threads : thread'[v].token = thread[v].token
  BY <1>1 DEF Delivers
<1>3. Alone' /\ Counted'
  BY <1>2 DEF SendInv, Alone, Counted
<1>4. ASSUME NEW t \in Tokens PROVE Ledger(t)'
  BY DEF SendInv, Books, Ledger
<1>5. ASSUME NEW v \in Threads PROVE Account(v)'
  <2>1. CASE v # w /\ Delivers(v)
    <3>1. /\ thread'[v] = thread[v] /\ thread[v].token \in Tokens
          /\ thread[v].token # thread[w].token
      BY <1>1, <2>1, Own
    <3> QED BY <3>1 DEF SendInv, Books, Account
  <2>2. CASE ~Delivers(v)
    BY <1>2, <2>2 DEF Account, Delivers
  <2> QED BY <2>1, <2>2
<1> QED BY <1>3, <1>4, <1>5 DEF SendInv, Books

\* smtp_send returns or raises, and the clean-up after it.
LEMMA DeliveryKeeps ==
  ASSUME SendInv, NEW w \in Threads,
         Accept(w) \/ Refuse(w) \/ LoseAnswer(w) \/ DropDraft(w)
  PROVE  SendInv'
<1> DEFINE t == thread[w].token
<1>1. Delivers(w)
  BY DEF Accept, Refuse, LoseAnswer, DropDraft, Delivers
<1>2. t \in Tokens /\ status[t] = "sending"
  BY <1>1, Own
<1>3. /\ accepted[t] \in Nat /\ unheard[t] \in Nat /\ tries[t] \in 0..MaxTries
      /\ accepted[t] <= tries[t] /\ unheard[t] <= accepted[t] /\ Account(w)
  BY <1>2, SendAssumption DEF SendInv, TypeOK, Books, Ledger
<1>4. CASE Accept(w)
  <2>1. /\ thread[w].at = "smtp" /\ thread' = [thread EXCEPT ![w].at = "draft"]
        /\ accepted' = [accepted EXCEPT ![t] = @ + 1]
        /\ UNCHANGED <<status, notice, tries, unheard, draft, shown>>
    BY <1>4 DEF Accept, Reaches
  <2>2. accepted[t] = unheard[t] /\ accepted[t] < tries[t]
    BY <1>3, <2>1 DEF Account
  <2>3. accepted[t] + 1 \in 0..MaxTries
    BY <1>3, <2>2, SendAssumption
  <2>4. accepted' \in [Tokens -> 0..MaxTries] /\ accepted'[t] = unheard[t] + 1
    BY <1>2, <2>1, <2>2, <2>3 DEF SendInv, TypeOK
  <2>5. TypeOK'
    BY <2>1, <2>4 DEF SendInv, TypeOK, Spare
  <2>6. thread'[w].token = t /\ thread'[w].at = "draft"
    BY <1>2, <2>1 DEF SendInv, TypeOK, Spare
  <2>7. Ledger(t)' /\ Account(w)'
    BY <1>2, <1>3, <2>1, <2>2, <2>4, <2>6 DEF Ledger, Account, Claimable
  <2>8. \A u \in Tokens : u # t => accepted'[u] = accepted[u] /\ unheard'[u] = unheard[u]
    BY <2>1 DEF SendInv, TypeOK
  <2> QED BY <1>1, <2>1, <2>5, <2>7, <2>8, OnwardKeeps
<1>5. CASE Refuse(w)
  <2>1. /\ thread[w].at = "smtp" /\ thread' = [thread EXCEPT ![w].at = "failing"]
        /\ UNCHANGED <<status, notice, tries, accepted, unheard, draft, shown>>
    BY <1>5 DEF Refuse, Reaches
  <2>2. TypeOK'
    BY <2>1 DEF SendInv, TypeOK, Spare
  <2>3. thread'[w].token = t /\ thread'[w].at = "failing"
    BY <1>2, <2>1 DEF SendInv, TypeOK, Spare
  <2>4. Ledger(t)' /\ Account(w)'
    BY <1>2, <1>3, <2>1, <2>3 DEF SendInv, Books, Ledger, Account
  <2> QED BY <1>1, <2>1, <2>2, <2>4, OnwardKeeps
<1>6. CASE LoseAnswer(w)
  <2>1. /\ thread[w].at = "smtp" /\ thread' = [thread EXCEPT ![w].at = "failing"]
        /\ accepted' = [accepted EXCEPT ![t] = @ + 1]
        /\ unheard' = [unheard EXCEPT ![t] = @ + 1]
        /\ UNCHANGED <<status, notice, tries, draft, shown>>
    BY <1>6 DEF LoseAnswer, Reaches
  <2>2. accepted[t] = unheard[t] /\ accepted[t] < tries[t]
    BY <1>3, <2>1 DEF Account
  <2>3. accepted[t] + 1 \in 0..MaxTries /\ unheard[t] + 1 \in 0..MaxTries
    BY <1>3, <2>2, SendAssumption
  <2>4. /\ accepted' \in [Tokens -> 0..MaxTries] /\ unheard' \in [Tokens -> 0..MaxTries]
        /\ accepted'[t] = accepted[t] + 1 /\ unheard'[t] = unheard[t] + 1
    BY <1>2, <2>1, <2>3 DEF SendInv, TypeOK
  <2>5. TypeOK'
    BY <2>1, <2>4 DEF SendInv, TypeOK, Spare
  <2>6. thread'[w].token = t /\ thread'[w].at = "failing"
    BY <1>2, <2>1 DEF SendInv, TypeOK, Spare
  <2>7. Ledger(t)' /\ Account(w)'
    BY <1>2, <1>3, <2>1, <2>2, <2>4, <2>6 DEF Ledger, Account, Claimable
  <2>8. \A u \in Tokens : u # t => accepted'[u] = accepted[u] /\ unheard'[u] = unheard[u]
    BY <2>1 DEF SendInv, TypeOK
  <2> QED BY <1>1, <2>1, <2>5, <2>7, <2>8, OnwardKeeps
<1>7. CASE DropDraft(w)
  <2>1. /\ thread[w].at = "draft" /\ thread' = [thread EXCEPT ![w].at = "done"]
        /\ draft' \in {draft, draft \ {t}}
        /\ UNCHANGED <<status, notice, tries, accepted, unheard, shown>>
    BY <1>7 DEF DropDraft, Reaches
  <2>2. TypeOK'
    BY <2>1 DEF SendInv, TypeOK, Spare
  <2>3. thread'[w].token = t /\ thread'[w].at = "done"
    BY <1>2, <2>1 DEF SendInv, TypeOK, Spare
  <2>4. Ledger(t)' /\ Account(w)'
    BY <1>2, <1>3, <2>1, <2>3 DEF SendInv, Books, Ledger, Account
  <2> QED BY <1>1, <2>1, <2>2, <2>4, OnwardKeeps
<1> QED BY <1>4, <1>5, <1>6, <1>7

\* The worker reports "sent" or "failed" and ends: it was the only one.
LEMMA ReportKeeps ==
  ASSUME SendInv, NEW w \in Threads, Finish(w) \/ Fails(w)
  PROVE  SendInv'
<1> DEFINE t == thread[w].token
           said == IF thread[w].at = "done" THEN "sent" ELSE "failed"
           s == [status EXCEPT ![t] = said]
<1>1. Delivers(w) /\ thread[w].at \in {"done", "failing"}
  BY DEF Finish, Fails, Delivers
<1>2. /\ t \in Tokens /\ status[t] = "sending"
      /\ \A v \in Threads \ {w} : Delivers(v) => thread[v].token # t
  BY <1>1, Own
<1>3. /\ thread' = [thread EXCEPT ![w] = Spare]
      /\ UNCHANGED <<tries, accepted, unheard, draft, shown>>
      /\ \E n \in Tokens \union {NoMail} : Cleaned(s, n)
  <2>1. CASE Finish(w)
    BY <1>2, <2>1 DEF Finish, Ends, SendInv, TypeOK
  <2>2. CASE Fails(w)
    BY <1>2, <2>2 DEF Fails, Ends
  <2> QED BY <2>1, <2>2
<1>4. s \in [Tokens -> Finished \union Claimable \union {"sending", "none"}]
  BY DEF SendInv, TypeOK, Finished
<1>5. /\ status' \in [Tokens -> Finished \union Claimable \union {"sending", "none"}]
      /\ notice' \in Tokens \union {NoMail}
      /\ \A u \in Tokens : status'[u] = s[u] \/ (s[u] \in Finished /\ status'[u] = "none")
  BY <1>3, <1>4, CleanedForgets
<1>6. /\ status'[t] \in {said, "none"}
      /\ \A u \in Tokens \ {t} :
           status'[u] = status[u] \/ (status[u] \in Finished /\ status'[u] = "none")
  BY <1>2, <1>5 DEF SendInv, TypeOK
<1>7. /\ thread'[w] = Spare
      /\ \A v \in Threads \ {w} : thread'[v] = thread[v]
  BY <1>3 DEF SendInv, TypeOK
<1>8. TypeOK'
  BY <1>3, <1>5 DEF SendInv, TypeOK
<1>9. ASSUME NEW v \in Threads, Delivers(v)'
      PROVE  /\ v # w /\ Delivers(v) /\ thread'[v] = thread[v]
             /\ thread[v].token \in Tokens /\ thread[v].token # t
  <2>1. v # w
    BY <1>7, <1>9 DEF Delivers, Spare
  <2>2. thread'[v] = thread[v] /\ Delivers(v)
    BY <1>7, <1>9, <2>1 DEF Delivers
  <2> QED BY <1>2, <2>1, <2>2, Own
<1>10. Alone'
  BY <1>9 DEF SendInv, Alone
<1>11. Counted'
  <2>1. ASSUME NEW v \in Threads, Delivers(v)' PROVE status'[thread'[v].token] = "sending"
    BY <1>6, <1>9, <2>1, Own DEF Finished
  <2>2. ASSUME NEW u \in Tokens, status'[u] = "sending"
        PROVE  \E v \in Threads : Delivers(v)' /\ thread'[v].token = u
    <3>1. u # t /\ status[u] = "sending"
      BY <1>6, <2>2
    <3>2. PICK v \in Threads : Delivers(v) /\ thread[v].token = u
      BY <3>1 DEF SendInv, Counted
    <3>3. v # w
      BY <3>1, <3>2
    <3> QED BY <1>7, <3>2, <3>3 DEF Delivers
  <2> QED BY <2>1, <2>2 DEF Counted
<1>12. ASSUME NEW u \in Tokens PROVE Ledger(u)'
  <2>1. CASE u = t
    <3>1. /\ thread[w].at = "done" => accepted[t] = unheard[t] + 1
          /\ thread[w].at = "failing" => accepted[t] = unheard[t]
      BY DEF SendInv, Books, Account
    <3> QED BY <1>1, <1>2, <1>3, <1>6, <2>1, <3>1 DEF SendInv, Books, Ledger, Claimable
  <2>2. CASE u # t
    BY <1>3, <1>6, <2>2 DEF SendInv, Books, Ledger, Claimable
  <2> QED BY <2>1, <2>2
<1>13. ASSUME NEW v \in Threads PROVE Account(v)'
  <2>1. CASE Delivers(v)'
    BY <1>3, <1>9, <2>1 DEF SendInv, Books, Account
  <2>2. CASE ~Delivers(v)'
    BY <2>2 DEF Account, Delivers
  <2> QED BY <2>1, <2>2
<1> QED BY <1>8, <1>10, <1>11, <1>12, <1>13 DEF SendInv, Books

\* The process ends: nobody delivers, nothing has a status.
LEMMA CrashKeeps == ASSUME SendInv, Crash PROVE SendInv'
<1>1. /\ \A t \in Tokens : status'[t] = "none"
      /\ \A w \in Threads : thread'[w] = Spare
      /\ UNCHANGED <<tries, accepted, unheard, draft, shown>>
  BY DEF Crash
<1>2. TypeOK'
  BY DEF SendInv, TypeOK, Crash
<1>3. Alone' /\ Counted'
  BY <1>1 DEF Alone, Counted, Delivers, Spare
<1>4. Books'
  BY <1>1 DEF SendInv, Books, Ledger, Account, Spare, Claimable
<1> QED BY <1>2, <1>3, <1>4 DEF SendInv

-----------------------------------------------------------------------------
(* The theorems *)

\* The invariant holds at first.
LEMMA InitInv == SendInit => SendInv
<1> SUFFICES ASSUME SendInit PROVE SendInv
  OBVIOUS
<1>1. TypeOK
  BY SendAssumption DEF SendInit, TypeOK
<1>2. Alone /\ Counted
  BY DEF SendInit, Alone, Counted, Delivers, Spare
<1>3. Books
  BY DEF SendInit, Books, Ledger, Account, Spare, Claimable
<1> QED BY <1>1, <1>2, <1>3 DEF SendInv

\* Every step keeps it.
LEMMA StepInv == SendInv /\ [SendNext]_sendVars => SendInv'
<1> SUFFICES ASSUME SendInv, [SendNext]_sendVars PROVE SendInv'
  OBVIOUS
<1>1. ASSUME NEW t \in Tokens, Send(t) PROVE SendInv'
  BY <1>1, SendKeeps
<1>2. ASSUME NEW t \in Tokens, SendNow(t) \/ Retry(t) \/ Undo(t) \/ Status(t) PROVE SendInv'
  BY <1>2, RequestKeeps
<1>3. CASE Mailbox
  <2>1. PICK t \in Tokens : TRUE
    BY <1>3 DEF Mailbox, SendInv, TypeOK
  <2> QED BY <1>3, <2>1, RequestKeeps
<1>4. ASSUME NEW w \in Threads, Work(w) PROVE SendInv'
  BY <1>4, ClaimKeeps, DeliveryKeeps, ReportKeeps DEF Work
<1>5. CASE Crash
  BY <1>5, CrashKeeps
<1>6. CASE UNCHANGED sendVars
  BY <1>6 DEF sendVars, SendInv, TypeOK, Alone, Counted, Delivers, Books, Ledger, Account
<1> QED BY <1>1, <1>2, <1>3, <1>4, <1>5, <1>6 DEF SendNext

\* The invariant of every behaviour.
THEOREM Invariance == SendSpec => []SendInv
BY InitInv, StepInv, PTL DEF SendSpec

\* A message's status, worker and counters always have their types; no
\* message is given to the server more often than it was asked for.
THEOREM TypeCorrect == SendSpec => []TypeOK
<1>1. SendInv => TypeOK
  BY DEF SendInv
<1> QED BY <1>1, Invariance, PTL

\* OneSender: the worker that delivers a message is one, and there is one
\* exactly while the message is "sending".
THEOREM DeliveredByOne == SendSpec => []OneSender
<1>1. SendInv => OneSender
  <2> SUFFICES ASSUME SendInv, NEW t \in Tokens
               PROVE  Cardinality(Working(t)) = IF status[t] = "sending" THEN 1 ELSE 0
    BY DEF OneSender
  <2>1. Working(t) = {w \in Threads : Delivers(w) /\ thread[w].token = t}
    BY SendAssumption DEF SendInv, TypeOK, Working, Delivers, Spare
  <2>2. CASE status[t] = "sending"
    <3>1. PICK w \in Threads : Delivers(w) /\ thread[w].token = t
      BY <2>2 DEF SendInv, Counted
    <3>2. Working(t) = {w}
      BY <2>1, <3>1 DEF SendInv, Alone
    <3> QED BY <2>2, <3>2, FS_Singleton
  <2>3. CASE status[t] # "sending"
    <3>1. Working(t) = {}
      BY <2>1, <2>3 DEF SendInv, Counted
    <3> QED BY <2>3, <3>1, FS_EmptySet
  <2> QED BY <2>2, <2>3
<1> QED BY <1>1, Invariance, PTL

\* TruthTold: what the status says of a message is what the server confirmed.
THEOREM StatusIsTrue == SendSpec => []TruthTold
<1>1. SendInv => TruthTold
  BY DEF SendInv, Books, Ledger, TruthTold
<1> QED BY <1>1, Invariance, PTL

\* DraftOutlivesDoubt: only a worker whose message was confirmed deletes the
\* draft of it.
THEOREM DraftIsKept == SendSpec => DraftOutlivesDoubt
<1> DEFINE Justified == \A t \in Tokens : t \in draft /\ t \notin draft' => Confirmed(t) = 1
<1>1. SendInv /\ [SendNext]_sendVars => [Justified]_sendVars
  <2> SUFFICES ASSUME SendInv, SendNext, NEW t \in Tokens, t \in draft, t \notin draft'
               PROVE  Confirmed(t) = 1
    OBVIOUS
  <2>1. PICK w \in Threads : DropDraft(w) /\ thread[w].token = t
    BY DEF SendNext, Work, Send, SendNow, Retry, Undo, Status, Mailbox, Crash,
           Claim, Accept, Refuse, LoseAnswer, DropDraft, Finish, Fails
  <2>2. accepted[t] = unheard[t] + 1
    BY <2>1 DEF SendInv, Books, Account, DropDraft
  <2> QED BY <2>2, SendAssumption DEF Confirmed, SendInv, TypeOK
<1> QED BY <1>1, Invariance, PTL DEF SendSpec, DraftOutlivesDoubt

=============================================================================
