--------------------------- MODULE CalendarProof ---------------------------
(***************************************************************************)
(* SyncMirrors, NeverNowhere and PushedOnce hold in every state of         *)
(* Calendar, for any calendars, addresses, events, requests and bounds.    *)
(*                                                                         *)
(* PushedOnce is about the reminder worker, which rings first and marks    *)
(* the reminder afterwards. RingOK counts: a reminder rang at most once    *)
(* for every mark that was lost, and once more if it is marked or its mark *)
(* is the next thing the worker makes.                                     *)
(*                                                                         *)
(* NeverNowhere is about a change of calendar, a PUT into the new one and  *)
(* then a DELETE in the old one. MovesOK says that for an event that is    *)
(* kept the two differ, that before the DELETE the copy is there, and that *)
(* no other change of calendar of it is under way; RowsOK that its rows    *)
(* are where its hrefs are, since the pages take from the row which        *)
(* calendar to delete it from.                                             *)
(*                                                                         *)
(* SyncMirrors is about syncs, which ask the server for one thing after    *)
(* another while requests and others write. Follows says what a sync that  *)
(* nobody wrote beside has right at each of its points: the titles it was  *)
(* told are the server's, a collection it is done with is shown as the     *)
(* server has it, and the listing it applies is the server's.              *)
(***************************************************************************)
EXTENDS Calendar, TLAPS

-----------------------------------------------------------------------------
(* The inductive invariant *)

\* Titles a sync was told.
Knowns == {<<>>} \union UNION {[S -> Nat] : S \in SUBSET Cals}
\* What requests do, and where one may be between two calls.
WriteOps == {"put", "edit", "move", "delete", "reply", "make", "retitle", "tell", "unmake"}
Places == {"put", "replace", "copy", "drop", "store", "mkcol", "props", "rmcol"}
\* What an actor may be doing: a sync, a request, a round of reminders.
SyncJobs ==
  [op : {"sync"}, at : {"discover", "make", "next", "list", "apply"}, left : SUBSET Cals,
   known : Knowns, cur : Cals, seen : Events, first : BOOLEAN, good : BOOLEAN]
WriteJobs ==
  [op : WriteOps, at : Places, uid : Uids \union {None}, cal : Cals, to : Cals,
   full : BOOLEAN, text : Texts \union {None}]
RingJobs ==
  [op : {"ring"}, at : {"next", "mark"}, left : SUBSET (Cals \X Uids), uid : Uids \union {None}]
Jobs == {Idle} \union SyncJobs \union WriteJobs \union RingJobs

\* A write of an event names the event, one of a text has the text, the mark
\* that is to be made is of an event, and a sync knows titles for what is left.
Whole(j) ==
  /\ j.op \in {"put", "edit", "move", "delete", "reply"} => j.uid \in Uids
  /\ j.op \in {"put", "edit", "move", "reply", "retitle", "tell"} => j.text \in Texts
  /\ j.op = "ring" /\ j.at = "mark" => j.uid \in Uids
  /\ j.op = "sync" => \A c \in j.left : j.known[c] \in Nat

\* Requests write, the worker rings, either syncs.
Fits(t, j) ==
  /\ j \in Jobs /\ Whole(j)
  /\ t = Worker => j \notin WriteJobs
  /\ t # Worker => j \notin RingJobs
\* Everybody has a job that fits.
JobsOK == job = [t \in Actors |-> job[t]] /\ \A t \in Actors : Fits(t, job[t])

\* The server, the caches, the bell and the ghosts are of their types.
DavOK == dav \in [Cals -> Collections \union {None}]
CalOK == cal \in [Caches -> [Cals -> CalendarRows \union {None}]]
RowOK == row \in [Caches -> [Cals -> [Uids -> EventRows \union {None}]]]
BellOK == rang \in [Uids -> Nat] /\ breaks \in Nat
GhostOK == kept \subseteq Uids /\ mirror \subseteq Caches
TypeOK == JobsOK /\ DavOK /\ CalOK /\ RowOK /\ BellOK /\ GhostOK

\* A reminder that rang has its mark, or will get it next, or lost it.
Marking(u) == job[Worker].op = "ring" /\ job[Worker].at = "mark" /\ job[Worker].uid = u
RingOK == \A u \in Uids : rang[u] <= breaks + IF u \in fired \/ Marking(u) THEN 1 ELSE 0

\* A change of calendar goes from one calendar to another, and when the event
\* is to go from the one it is in the other.
MovesOK ==
  \A t \in Threads : job[t].op = "move" /\ job[t].uid \in kept =>
    /\ job[t].cal # job[t].to
    /\ job[t].at = "drop" => Has(job[t].to, job[t].uid)
    /\ ~Moving(t, job[t].uid)
\* The rows of an event that is kept are where their hrefs are.
RowsOK == \A u \in kept : ~Misplaced(u)
\* Together, what keeps an event from being lost.
KeptOK == NeverNowhere /\ MovesOK /\ RowsOK

\* The cache shows the calendar as the server has it.
SameEvent(k, c, u) ==
  /\ Held(k, c, u) <=> Has(c, u)
  /\ Held(k, c, u) => row[k][c][u].text = dav[c].events[u]
\* It shows all of a calendar so.
Same(k, c) ==
  /\ Shown(k, c) /\ ~cal[k][c].own /\ cal[k][c].title = dav[c].title
  /\ \A u \in Uids : SameEvent(k, c, u)

\* What an undisturbed sync knows is so on the server, and what it has done
\* is so in the cache.
Knows(t) ==
  /\ DOMAIN job[t].known = {c \in Cals : Listed(c)}
  /\ \A c \in DOMAIN job[t].known : job[t].known[c] = dav[c].title
  /\ job[t].left \subseteq DOMAIN job[t].known
  /\ job[t].good => \A c \in DOMAIN job[t].known \ job[t].left : Same(CacheOf(t), c)
\* Its present collection is one to do and is shown under its title.
IsAt(t, k, c) ==
  /\ c \in job[t].left
  /\ Shown(k, c) /\ ~cal[k][c].own /\ cal[k][c].title = dav[c].title
\* What an undisturbed sync has right wherever it is.
Follows(t) ==
  job[t].op = "sync" /\ t \notin stir =>
    /\ job[t].at = "make" => \A c \in Cals : ~Listed(c)
    /\ job[t].at \in {"next", "list", "apply"} => Knows(t)
    /\ job[t].at \in {"list", "apply"} => IsAt(t, CacheOf(t), job[t].cur)
    /\ job[t].at = "apply" => job[t].seen = dav[job[t].cur].events
\* Together, what makes a completed sync a mirror.
MirrorOK == SyncMirrors /\ \A t \in Actors : Follows(t)

\* The inductive invariant.
IInv == TypeOK /\ RingOK /\ KeptOK /\ MirrorOK

-----------------------------------------------------------------------------
(* Jobs *)

\* The idle job is one that fits everybody.
LEMMA IsIdle == Idle \in Jobs /\ Whole(Idle) /\ Idle \notin WriteJobs /\ Idle \notin RingJobs /\ Idle.op = "idle"
BY DEF Idle, Jobs, Whole, WriteJobs, RingJobs

\* A job of each kind has the fields and the facts of its kind.
LEMMA IsSync ==
  ASSUME JobsOK, NEW t \in Actors, job[t].op = "sync"
  PROVE  job[t] \in SyncJobs /\ \A c \in job[t].left : job[t].known[c] \in Nat
<1>1. Fits(t, job[t])
  BY DEF JobsOK
<1>2. job[t] \in SyncJobs
  BY <1>1 DEF Fits, Jobs, Idle, WriteJobs, RingJobs, WriteOps
<1> QED BY <1>1, <1>2 DEF Fits, Whole

\* A request's job is a thread's.
LEMMA IsWrite ==
  ASSUME JobsOK, NEW t \in Actors, job[t].op \in WriteOps
  PROVE  job[t] \in WriteJobs /\ Whole(job[t]) /\ t \in Threads
<1>1. Fits(t, job[t])
  BY DEF JobsOK
<1>2. job[t] \in WriteJobs
  BY <1>1 DEF Fits, Jobs, Idle, SyncJobs, RingJobs, WriteOps
<1> QED BY <1>1, <1>2 DEF Fits, Actors

\* A round of reminders is the worker's.
LEMMA IsRing ==
  ASSUME JobsOK, NEW t \in Actors, job[t].op = "ring"
  PROVE  job[t] \in RingJobs /\ Whole(job[t]) /\ t = Worker
<1>1. Fits(t, job[t])
  BY DEF JobsOK
<1>2. job[t] \in RingJobs
  BY <1>1 DEF Fits, Jobs, Idle, SyncJobs, WriteJobs, WriteOps
<1> QED BY <1>1, <1>2 DEF Fits

\* One actor goes on with another job.
LEMMA JobStep ==
  ASSUME JobsOK, NEW t \in Actors, NEW j, Fits(t, j), job' = [job EXCEPT ![t] = j]
  PROVE  JobsOK' /\ job'[t] = j /\ \A s \in Actors \ {t} : job'[s] = job[s]
<1>1. job = [s \in Actors |-> job[s]] /\ \A s \in Actors : Fits(s, job[s])
  BY DEF JobsOK
<1>2. job' = [s \in Actors |-> IF s = t THEN j ELSE job[s]]
  BY <1>1
<1>3. job' = [s \in Actors |-> job'[s]]
  BY <1>2
<1>4. \A s \in Actors : job'[s] = IF s = t THEN j ELSE job[s]
  BY <1>2
<1>5. ASSUME NEW s \in Actors PROVE Fits(s, job'[s])
  <2>1. CASE s = t
    BY <2>1, <1>4
  <2>2. CASE s # t
    BY <2>2, <1>1, <1>4
  <2> QED BY <2>1, <2>2
<1>6. JobsOK'
  BY <1>3, <1>5 DEF JobsOK, Fits, Whole
<1> QED BY <1>4, <1>6

\* One actor is done.
LEMMA StopStep ==
  ASSUME JobsOK, NEW t \in Actors, Stop(t)
  PROVE  JobsOK' /\ job'[t] = Idle /\ \A s \in Actors \ {t} : job'[s] = job[s]
<1>1. Fits(t, Idle)
  BY IsIdle DEF Fits
<1>2. job' = [job EXCEPT ![t] = Idle]
  BY DEF Stop
<1> QED BY <1>1, <1>2, JobStep

\* What a request's job is at another place.
LEMMA GoesWrite ==
  ASSUME NEW j \in WriteJobs, NEW at
  PROVE  [j EXCEPT !.at = at] =
           [op |-> j.op, at |-> at, uid |-> j.uid, cal |-> j.cal, to |-> j.to, full |-> j.full, text |-> j.text]
BY DEF WriteJobs

\* What a sync's is.
LEMMA GoesSync ==
  ASSUME NEW j \in SyncJobs, NEW at
  PROVE  [j EXCEPT !.at = at] =
           [op |-> j.op, at |-> at, left |-> j.left, known |-> j.known, cur |-> j.cur, seen |-> j.seen,
            first |-> j.first, good |-> j.good]
BY DEF SyncJobs

\* A write goes to another place, and nothing else of it changes.
LEMMA WriteGoes ==
  ASSUME JobsOK, NEW t \in Actors, job[t].op \in WriteOps, NEW at \in Places, Goes(t, at)
  PROVE  /\ JobsOK'
         /\ job'[t] = [op |-> job[t].op, at |-> at, uid |-> job[t].uid, cal |-> job[t].cal,
                       to |-> job[t].to, full |-> job[t].full, text |-> job[t].text]
         /\ \A s \in Actors \ {t} : job'[s] = job[s]
<1> DEFINE j == [op |-> job[t].op, at |-> at, uid |-> job[t].uid, cal |-> job[t].cal,
                 to |-> job[t].to, full |-> job[t].full, text |-> job[t].text]
<1>1. job[t] \in WriteJobs /\ Whole(job[t]) /\ t \in Threads
  BY IsWrite
<1>2. j \in WriteJobs
  BY <1>1 DEF WriteJobs
<1>3. Whole(j)
  BY <1>1 DEF Whole, WriteOps
<1>4. j \notin RingJobs /\ t # Worker
  BY <1>1, CalendarAssumption DEF RingJobs, WriteOps
<1>5. Fits(t, j)
  BY <1>2, <1>3, <1>4 DEF Fits, Jobs
<1>6. job' = [job EXCEPT ![t] = [job[t] EXCEPT !.at = at]]
  BY DEF Goes
<1>7. [job[t] EXCEPT !.at = at] = j
  BY <1>1, GoesWrite
<1>8. job' = [job EXCEPT ![t] = j]
  BY <1>6, <1>7
<1> HIDE DEF j
<1>9. JobsOK' /\ job'[t] = j /\ \A s \in Actors \ {t} : job'[s] = job[s]
  BY <1>5, <1>8, JobStep
<1> QED BY <1>9 DEF j

\* A write begins.
LEMMA WriteBegins ==
  ASSUME JobsOK, NEW t \in Threads, NEW op \in WriteOps, NEW at \in Places, NEW u, NEW c \in Cals,
         NEW to \in Cals, NEW full \in BOOLEAN, NEW text,
         u \in Uids \/ (u = None /\ op \in {"make", "retitle", "tell", "unmake"}),
         text \in Texts \/ (text = None /\ op \in {"delete", "make", "unmake"}),
         Begins(t, Write(op, at, u, c, to, full, text))
  PROVE  /\ JobsOK'
         /\ job'[t] = [op |-> op, at |-> at, uid |-> u, cal |-> c, to |-> to, full |-> full, text |-> text]
         /\ \A s \in Actors \ {t} : job'[s] = job[s]
<1> DEFINE j == [op |-> op, at |-> at, uid |-> u, cal |-> c, to |-> to, full |-> full, text |-> text]
<1>1. j \in WriteJobs
  BY DEF WriteJobs
<1>2. Whole(j)
  BY DEF Whole, WriteOps
<1>3. j \notin RingJobs /\ t # Worker /\ t \in Actors
  BY CalendarAssumption DEF RingJobs, WriteOps, Actors
<1>4. Fits(t, j)
  BY <1>1, <1>2, <1>3 DEF Fits, Jobs
<1>5. job' = [job EXCEPT ![t] = j]
  BY DEF Begins, Write
<1> HIDE DEF j
<1>6. JobsOK' /\ job'[t] = j /\ \A s \in Actors \ {t} : job'[s] = job[s]
  BY <1>3, <1>4, <1>5, JobStep
<1> QED BY <1>6 DEF j

\* A sync goes on as a sync.
LEMMA SyncStepJob ==
  ASSUME JobsOK, NEW t \in Actors, NEW j \in SyncJobs, \A c \in j.left : j.known[c] \in Nat,
         job' = [job EXCEPT ![t] = j]
  PROVE  JobsOK' /\ job'[t] = j /\ \A s \in Actors \ {t} : job'[s] = job[s]
<1>1. Whole(j) /\ j \notin WriteJobs /\ j \notin RingJobs
  BY DEF SyncJobs, Whole, WriteJobs, RingJobs, WriteOps
<1>2. Fits(t, j)
  BY <1>1 DEF Fits, Jobs
<1> QED BY <1>2, JobStep

\* A sync goes to another place and keeps the rest.
LEMMA SyncGoes ==
  ASSUME JobsOK, NEW t \in Actors, job[t].op = "sync", NEW at \in {"discover", "make", "next", "list", "apply"},
         Goes(t, at)
  PROVE  /\ JobsOK'
         /\ job'[t] = [op |-> "sync", at |-> at, left |-> job[t].left, known |-> job[t].known, cur |-> job[t].cur,
                       seen |-> job[t].seen, first |-> job[t].first, good |-> job[t].good]
         /\ \A s \in Actors \ {t} : job'[s] = job[s]
<1> DEFINE j == [op |-> "sync", at |-> at, left |-> job[t].left, known |-> job[t].known, cur |-> job[t].cur,
                 seen |-> job[t].seen, first |-> job[t].first, good |-> job[t].good]
<1>1. job[t] \in SyncJobs /\ \A c \in job[t].left : job[t].known[c] \in Nat
  BY IsSync
<1>2. j \in SyncJobs
  BY <1>1 DEF SyncJobs
<1>titles. \A c \in j.left : j.known[c] \in Nat
  BY <1>1
<1>3. [job[t] EXCEPT !.at = at] = j
  BY <1>1, GoesSync DEF SyncJobs
<1>4. job' = [job EXCEPT ![t] = [job[t] EXCEPT !.at = at]]
  BY DEF Goes
<1>5. job' = [job EXCEPT ![t] = j]
  BY <1>3, <1>4
<1> HIDE DEF j
<1>6. JobsOK' /\ job'[t] = j /\ \A s \in Actors \ {t} : job'[s] = job[s]
  BY <1>2, <1>5, <1>titles, SyncStepJob
<1> QED BY <1>6 DEF j

\* The same of a job that is given by its fields.
LEMMA SyncJobStep ==
  ASSUME JobsOK, NEW t \in Actors, NEW j \in SyncJobs, \A c \in j.left : j.known[c] \in Nat, job'[t] = j, job' = [s \in Actors |-> job'[s]],
         \A s \in Actors \ {t} : job'[s] = job[s]
  PROVE  JobsOK'
<1>1. Whole(j) /\ j \notin WriteJobs /\ j \notin RingJobs
  BY DEF SyncJobs, Whole, WriteJobs, RingJobs, WriteOps
<1>2. Fits(t, job'[t])
  BY <1>1 DEF Fits, Jobs
<1>3. ASSUME NEW s \in Actors PROVE Fits(s, job'[s])
  <2>1. CASE s = t
    BY <1>2, <2>1
  <2>2. CASE s # t
    BY <2>2 DEF JobsOK
  <2> QED BY <2>1, <2>2
<1> QED BY <1>3 DEF JobsOK, Fits, Whole

\* It has discovered collections.
LEMMA SyncFound ==
  ASSUME JobsOK, NEW t \in Actors, job[t].op = "sync", NEW S \in SUBSET Cals, NEW known \in [S -> Nat],
         Found(t, known)
  PROVE  /\ JobsOK'
         /\ job'[t] = [op |-> "sync", at |-> "next", left |-> S, known |-> known, cur |-> job[t].cur,
                       seen |-> job[t].seen, first |-> job[t].first, good |-> job[t].good]
         /\ \A s \in Actors \ {t} : job'[s] = job[s]
<1> DEFINE j == [op |-> "sync", at |-> "next", left |-> S, known |-> known, cur |-> job[t].cur,
                 seen |-> job[t].seen, first |-> job[t].first, good |-> job[t].good]
<1>1. job[t] \in SyncJobs /\ \A c \in job[t].left : job[t].known[c] \in Nat
  BY IsSync
<1>2. known \in Knowns
  BY DEF Knowns
<1>3. j \in SyncJobs
  BY <1>1, <1>2 DEF SyncJobs
<1>titles. \A c \in j.left : j.known[c] \in Nat
  BY <1>1
<1>4. job' = [job EXCEPT ![t].at = "next", ![t].left = S, ![t].known = known]
  BY DEF Found
<1>5. job = [s \in Actors |-> job[s]]
  BY DEF JobsOK
<1>6. job' = [s \in Actors |-> job'[s]]
  BY <1>4, <1>5
<1>7. \A s \in Actors \ {t} : job'[s] = job[s]
  BY <1>4, <1>5
<1>8. job'[t] = j
  BY <1>1, <1>4, <1>5 DEF SyncJobs
<1> HIDE DEF j
<1>9. JobsOK'
  BY <1>2, <1>3, <1>6, <1>7, <1>8, <1>titles, SyncJobStep
<1> QED BY <1>7, <1>8, <1>9 DEF j

\* What its job is then.
LEMMA BeginsSync ==
  ASSUME NEW j \in SyncJobs, NEW c \in Cals
  PROVE  [j EXCEPT !.at = "list", !.cur = c, !.first = FALSE] =
           [op |-> "sync", at |-> "list", left |-> j.left, known |-> j.known, cur |-> c, seen |-> j.seen,
            first |-> FALSE, good |-> j.good]
<1> DEFINE k == [j EXCEPT !.at = "list", !.cur = c, !.first = FALSE]
<1>1. k \in SyncJobs
  BY DEF SyncJobs
<1>2. /\ k.at = "list" /\ k.cur = c /\ k.first = FALSE
      /\ k.left = j.left /\ k.known = j.known /\ k.seen = j.seen /\ k.good = j.good
  BY DEF SyncJobs
<1> HIDE DEF k
<1>3. k = [op |-> "sync", at |-> k.at, left |-> k.left, known |-> k.known, cur |-> k.cur, seen |-> k.seen,
            first |-> k.first, good |-> k.good]
  BY <1>1 DEF SyncJobs
<1>4. k = [op |-> "sync", at |-> "list", left |-> j.left, known |-> j.known, cur |-> c, seen |-> j.seen,
            first |-> FALSE, good |-> j.good]
  BY <1>2, <1>3
<1> QED BY <1>4 DEF k

\* It begins with a collection.
LEMMA SyncBegins ==
  ASSUME JobsOK, NEW t \in Actors, job[t].op = "sync", NEW c \in Cals,
         job' = [job EXCEPT ![t].at = "list", ![t].cur = c, ![t].first = FALSE]
  PROVE  /\ JobsOK'
         /\ job'[t] = [op |-> "sync", at |-> "list", left |-> job[t].left, known |-> job[t].known, cur |-> c,
                       seen |-> job[t].seen, first |-> FALSE, good |-> job[t].good]
         /\ \A s \in Actors \ {t} : job'[s] = job[s]
<1> DEFINE j == [op |-> "sync", at |-> "list", left |-> job[t].left, known |-> job[t].known, cur |-> c,
                 seen |-> job[t].seen, first |-> FALSE, good |-> job[t].good]
<1>1. job[t] \in SyncJobs /\ \A d \in job[t].left : job[t].known[d] \in Nat
  BY IsSync
<1>2. j \in SyncJobs
  BY <1>1 DEF SyncJobs
<1>titles. \A d \in j.left : j.known[d] \in Nat
  BY <1>1
<1>3. job' = [job EXCEPT ![t].at = "list", ![t].cur = c, ![t].first = FALSE]
  OBVIOUS
<1>4. job = [s \in Actors |-> job[s]]
  BY DEF JobsOK
<1>5. job' = [s \in Actors |-> job'[s]]
  BY <1>3, <1>4
<1>6. \A s \in Actors \ {t} : job'[s] = job[s]
  BY <1>3, <1>4
<1>7. job'[t] = j
  <2>1. job'[t] = [job[t] EXCEPT !.at = "list", !.cur = c, !.first = FALSE]
    BY <1>3, <1>4
  <2> QED BY <1>1, <2>1, BeginsSync
<1> HIDE DEF j
<1>8. JobsOK'
  BY <1>2, <1>3, <1>5, <1>6, <1>7, <1>titles, SyncJobStep
<1> QED BY <1>6, <1>7, <1>8 DEF j

\* It has the events of a collection.
LEMMA SyncLists ==
  ASSUME JobsOK, NEW t \in Actors, job[t].op = "sync", NEW seen \in Events,
         job' = [job EXCEPT ![t].at = "apply", ![t].seen = seen]
  PROVE  /\ JobsOK'
         /\ job'[t] = [op |-> "sync", at |-> "apply", left |-> job[t].left, known |-> job[t].known,
                       cur |-> job[t].cur, seen |-> seen, first |-> job[t].first, good |-> job[t].good]
         /\ \A s \in Actors \ {t} : job'[s] = job[s]
<1> DEFINE j == [op |-> "sync", at |-> "apply", left |-> job[t].left, known |-> job[t].known,
                 cur |-> job[t].cur, seen |-> seen, first |-> job[t].first, good |-> job[t].good]
<1>1. job[t] \in SyncJobs /\ \A c \in job[t].left : job[t].known[c] \in Nat
  BY IsSync
<1>2. j \in SyncJobs
  BY <1>1 DEF SyncJobs
<1>titles. \A c \in j.left : j.known[c] \in Nat
  BY <1>1
<1>3. job' = [job EXCEPT ![t].at = "apply", ![t].seen = seen]
  OBVIOUS
<1>4. job = [s \in Actors |-> job[s]]
  BY DEF JobsOK
<1>5. job' = [s \in Actors |-> job'[s]]
  BY <1>3, <1>4
<1>6. \A s \in Actors \ {t} : job'[s] = job[s]
  BY <1>3, <1>4
<1>7. job'[t] = j
  BY <1>1, <1>3, <1>4 DEF SyncJobs
<1> HIDE DEF j
<1>8. JobsOK'
  BY <1>2, <1>3, <1>5, <1>6, <1>7, <1>titles, SyncJobStep
<1> QED BY <1>6, <1>7, <1>8 DEF j

\* A new collection has no events, which is a set of events.
LEMMA NoEventsType == NoEvents \in Events
BY DEF NoEvents, Events

\* It is done with a collection, with success or without.
LEMMA SyncGoesOn ==
  ASSUME JobsOK, NEW t \in Actors, job[t].op = "sync", NEW good \in BOOLEAN, NextCalendar(t, good)
  PROVE  /\ JobsOK'
         /\ job'[t].op = "sync" /\ job'[t].at = "next"
         /\ job'[t].left = job[t].left \ {job[t].cur} /\ job'[t].known = job[t].known
         /\ job'[t].good <=> job[t].good /\ good
         /\ \A s \in Actors \ {t} : job'[s] = job[s]
<1> DEFINE j == [op |-> "sync", at |-> "next", left |-> job[t].left \ {job[t].cur}, known |-> job[t].known,
                 cur |-> Home, seen |-> NoEvents, first |-> job[t].first, good |-> job[t].good /\ good]
<1>1. job[t] \in SyncJobs /\ \A c \in job[t].left : job[t].known[c] \in Nat
  BY IsSync
<1>2. j \in SyncJobs
  BY <1>1, NoEventsType, CalendarAssumption DEF SyncJobs
<1>titles. \A c \in j.left : j.known[c] \in Nat
  BY <1>1
<1>3. job' = [job EXCEPT ![t].at = "next", ![t].left = @ \ {job[t].cur}, ![t].good = @ /\ good,
                       ![t].cur = Home, ![t].seen = NoEvents]
  BY DEF NextCalendar
<1>4. job = [s \in Actors |-> job[s]]
  BY DEF JobsOK
<1>5. job' = [s \in Actors |-> job'[s]]
  BY <1>3, <1>4
<1>6. \A s \in Actors \ {t} : job'[s] = job[s]
  BY <1>3, <1>4
<1>7. job'[t] = j
  BY <1>1, <1>3, <1>4 DEF SyncJobs
<1>9. /\ job'[t].op = "sync" /\ job'[t].at = "next"
      /\ job'[t].left = job[t].left \ {job[t].cur} /\ job'[t].known = job[t].known
  BY <1>7
<1>10. job'[t].good <=> job[t].good /\ good
  BY <1>1, <1>3, <1>4 DEF SyncJobs
<1> HIDE DEF j
<1>8. JobsOK'
  BY <1>2, <1>3, <1>5, <1>6, <1>7, <1>titles, SyncJobStep
<1> QED BY <1>6, <1>8, <1>9, <1>10

\* A sync starts.
LEMMA SyncStarts ==
  ASSUME JobsOK, NEW t \in Actors, Sync(t)
  PROVE  JobsOK' /\ job'[t].op = "sync" /\ job'[t].at = "discover" /\ \A s \in Actors \ {t} : job'[s] = job[s]
<1> DEFINE j == [op |-> "sync", at |-> "discover", left |-> {}, known |-> <<>>,
                 cur |-> Home, seen |-> NoEvents, first |-> TRUE, good |-> TRUE]
<1>1. j \in SyncJobs
  BY NoEventsType, CalendarAssumption DEF SyncJobs, Knowns
<1>titles. \A c \in j.left : j.known[c] \in Nat
  OBVIOUS
<1>2. job' = [job EXCEPT ![t] = j]
  BY DEF Sync
<1>3. j.op = "sync" /\ j.at = "discover"
  OBVIOUS
<1> HIDE DEF j
<1> QED BY <1>1, <1>2, <1>3, <1>titles, SyncStepJob

\* The worker goes on with a turn of reminders.
LEMMA RingStep ==
  ASSUME JobsOK, NEW at \in {"next", "mark"}, NEW left \in SUBSET (Cals \X Uids), NEW u,
         u \in Uids \/ (u = None /\ at = "next"),
         Begins(Worker, [op |-> "ring", at |-> at, left |-> left, uid |-> u])
  PROVE  /\ JobsOK'
         /\ job'[Worker] = [op |-> "ring", at |-> at, left |-> left, uid |-> u]
         /\ \A s \in Actors \ {Worker} : job'[s] = job[s]
<1> DEFINE j == [op |-> "ring", at |-> at, left |-> left, uid |-> u]
<1>1. j \in RingJobs
  BY DEF RingJobs
<1>2. Whole(j)
  BY DEF Whole
<1>3. j \notin WriteJobs
  BY DEF WriteJobs, WriteOps
<1>4. Fits(Worker, j)
  BY <1>1, <1>2, <1>3 DEF Fits, Jobs
<1>5. job' = [job EXCEPT ![Worker] = j]
  BY DEF Begins
<1>6. Worker \in Actors
  BY DEF Actors
<1> HIDE DEF j
<1>7. JobsOK' /\ job'[Worker] = j /\ \A s \in Actors \ {Worker} : job'[s] = job[s]
  BY <1>4, <1>5, <1>6, JobStep
<1> QED BY <1>7 DEF j

-----------------------------------------------------------------------------
(* The server and the caches *)

\* None is no row, collection or text.
LEMMA NoneIsNothing ==
  /\ None \notin Texts /\ None \notin Collections
  /\ None \notin CalendarRows /\ None \notin EventRows
BY NoneAssumption

\* An event is put into a collection.
LEMMA StoredDav ==
  ASSUME DavOK, NEW c \in Cals, NEW u \in Uids, NEW text \in Texts \union {None}, Listed(c), Stored(c, u, text)
  PROVE  /\ DavOK'
         /\ \A d \in Cals : Listed(d)' <=> Listed(d)
         /\ \A d \in Cals, v \in Uids : Has(d, v)' <=> IF d = c /\ v = u THEN text # None ELSE Has(d, v)
<1>1. dav[c] \in Collections
  BY DEF DavOK, Listed
<1>2. dav' = [dav EXCEPT ![c] = [dav[c] EXCEPT !.events[u] = text]]
  BY DEF Stored
<1> DEFINE new == [title |-> dav[c].title, events |-> [dav[c].events EXCEPT ![u] = text]]
<1>3. [dav[c] EXCEPT !.events[u] = text] = new
  BY <1>1 DEF Collections
<1>4. dav[c].events \in Events
  BY <1>1 DEF Collections
<1>5. new.events = [dav[c].events EXCEPT ![u] = text] /\ new.events \in Events
  BY <1>4 DEF Events
<1>6. new \in Collections
  BY <1>1, <1>5 DEF Collections
<1>7. dav' = [dav EXCEPT ![c] = new]
  BY <1>2, <1>3
<1>8. \A v \in Uids : new.events[v] = IF v = u THEN text ELSE dav[c].events[v]
  BY <1>4, <1>5 DEF Events
<1> HIDE DEF new
<1>9. DavOK'
  BY <1>6, <1>7 DEF DavOK
<1>10. \A d \in Cals : dav'[d] = IF d = c THEN new ELSE dav[d]
  BY <1>7 DEF DavOK
<1>11. new # None /\ dav[c] # None
  BY <1>1, <1>6, NoneIsNothing
<1>12. \A d \in Cals : Listed(d)' <=> Listed(d)
  BY <1>10, <1>11 DEF Listed
<1>13. ASSUME NEW d \in Cals, NEW v \in Uids
       PROVE Has(d, v)' <=> IF d = c /\ v = u THEN text # None ELSE Has(d, v)
  <2>1. CASE d = c
    BY <2>1, <1>8, <1>10, <1>11 DEF Has, Listed
  <2>2. CASE d # c
    BY <2>2, <1>10 DEF Has, Listed
  <2> QED BY <2>1, <2>2
<1> QED BY <1>9, <1>12, <1>13

\* MKCOL adds a collection, and changes none that is there.
LEMMA CollectionDav ==
  ASSUME DavOK, NEW c \in Cals, dav' = Collection(c)
  PROVE  /\ DavOK'
         /\ \A d \in Cals : dav'[d] = IF d = c /\ ~Listed(c) THEN [title |-> 0, events |-> NoEvents] ELSE dav[d]
         /\ \A d \in Cals : Listed(d)' <=> d = c \/ Listed(d)
         /\ \A d \in Cals, u \in Uids : Has(d, u)' <=> Has(d, u)
<1> DEFINE new == [title |-> 0, events |-> NoEvents]
<1>1. new \in Collections
  BY NoEventsType DEF Collections
<1>2. new # None /\ new.events = NoEvents
  BY <1>1, NoneIsNothing
<1>3. dav' = [dav EXCEPT ![c] = IF Listed(c) THEN dav[c] ELSE new]
  BY DEF Collection
<1> HIDE DEF new
<1>4. DavOK'
  BY <1>1, <1>3 DEF DavOK
<1>5. \A d \in Cals : dav'[d] = IF d = c /\ ~Listed(c) THEN new ELSE dav[d]
  BY <1>3 DEF DavOK
<1>6. \A d \in Cals : Listed(d)' <=> d = c \/ Listed(d)
  BY <1>2, <1>5 DEF Listed
<1>7. \A d \in Cals, u \in Uids : Has(d, u)' <=> Has(d, u)
  BY <1>2, <1>5 DEF Listed, Has, NoEvents
<1> QED BY <1>4, <1>5, <1>6, <1>7 DEF new

\* A collection goes with its events, and others keep theirs.
LEMMA RemovedDav ==
  ASSUME DavOK, NEW c \in Cals, dav' = [dav EXCEPT ![c] = None]
  PROVE  /\ DavOK'
         /\ \A d \in Cals : dav'[d] = IF d = c THEN None ELSE dav[d]
         /\ \A d \in Cals, u \in Uids : Has(d, u)' <=> d # c /\ Has(d, u)
<1>1. DavOK'
  BY DEF DavOK
<1>2. \A d \in Cals : dav'[d] = IF d = c THEN None ELSE dav[d]
  BY DEF DavOK
<1>3. \A d \in Cals, u \in Uids : Has(d, u)' <=> d # c /\ Has(d, u)
  BY <1>2 DEF Has, Listed
<1> QED BY <1>1, <1>2, <1>3

\* A new title leaves the events.
LEMMA TitledDav ==
  ASSUME DavOK, NEW c \in Cals, NEW text \in Texts, Listed(c), dav' = [dav EXCEPT ![c].title = text.n]
  PROVE  /\ DavOK'
         /\ \A d \in Cals, u \in Uids : Has(d, u)' <=> Has(d, u)
<1>1. dav[c] \in Collections
  BY DEF DavOK, Listed
<1> DEFINE new == [title |-> text.n, events |-> dav[c].events]
<1>2. text.n \in Nat
  BY CalendarAssumption DEF Texts
<1>3. new \in Collections
  BY <1>1, <1>2 DEF Collections
<1>4. [dav[c] EXCEPT !.title = text.n] = new
  BY <1>1 DEF Collections
<1>5. dav' = [dav EXCEPT ![c] = [dav[c] EXCEPT !.title = text.n]]
  OBVIOUS
<1>6. dav' = [dav EXCEPT ![c] = new]
  BY <1>4, <1>5
<1>7. new.events = dav[c].events /\ new # None
  BY <1>3, NoneIsNothing
<1> HIDE DEF new
<1>8. DavOK'
  BY <1>3, <1>6 DEF DavOK
<1>9. \A d \in Cals : dav'[d] = IF d = c THEN new ELSE dav[d]
  BY <1>6 DEF DavOK
<1>10. \A d \in Cals, u \in Uids : Has(d, u)' <=> Has(d, u)
  BY <1>7, <1>9 DEF Has, Listed
<1> QED BY <1>8, <1>10

\* A stored row is a row.
LEMMA RowType ==
  ASSUME NEW text \in Texts, NEW full \in BOOLEAN, NEW of \in Cals
  PROVE  /\ Row(text, full, of) \in EventRows
         /\ Row(text, full, of) # None
         /\ Row(text, full, of).text = text
         /\ Row(text, full, of).of = of
<1>1. text.off \in BOOLEAN
  BY DEF Texts
<1>2. Row(text, full, of) = [text |-> text, full |-> full, of |-> of, live |-> ~text.off]
  BY DEF Row
<1>3. Row(text, full, of) \in EventRows
  BY <1>1, <1>2 DEF EventRows
<1>4. Row(text, full, of) # None
  BY <1>3, NoneIsNothing
<1> QED BY <1>2, <1>3, <1>4

\* One row of one cache.
SetsRow(k, c, u, r) == row' = [row EXCEPT ![k][c][u] = r]

\* It changes that row and no other.
LEMMA OneRow ==
  ASSUME RowOK, NEW k \in Caches, NEW c \in Cals, NEW u \in Uids, NEW r \in EventRows \union {None},
         SetsRow(k, c, u, r)
  PROVE  /\ RowOK'
         /\ \A l \in Caches, d \in Cals, v \in Uids :
              row'[l][d][v] = IF l = k /\ d = c /\ v = u THEN r ELSE row[l][d][v]
         /\ \A l \in Caches \ {k} : row'[l] = row[l]
<1>1. row' = [row EXCEPT ![k][c][u] = r]
  BY DEF SetsRow
<1>2. RowOK'
  BY <1>1 DEF RowOK
<1>3. \A l \in Caches, d \in Cals, v \in Uids :
              row'[l][d][v] = IF l = k /\ d = c /\ v = u THEN r ELSE row[l][d][v]
  BY <1>1 DEF RowOK
<1>4. \A l \in Caches \ {k} : row'[l] = row[l]
  BY <1>1 DEF RowOK
<1> QED BY <1>2, <1>3, <1>4

\* The rows of one calendar of one cache.
SetsRows(k, c, rs) == row' = [row EXCEPT ![k][c] = rs]

\* They change those rows and no others.
LEMMA OneCalendar ==
  ASSUME RowOK, NEW k \in Caches, NEW c \in Cals, NEW rs \in [Uids -> EventRows \union {None}], SetsRows(k, c, rs)
  PROVE  /\ RowOK'
         /\ \A l \in Caches, d \in Cals : row'[l][d] = IF l = k /\ d = c THEN rs ELSE row[l][d]
         /\ \A l \in Caches \ {k} : row'[l] = row[l]
<1>1. row' = [row EXCEPT ![k][c] = rs]
  BY DEF SetsRows
<1>2. RowOK'
  BY <1>1 DEF RowOK
<1>3. \A l \in Caches, d \in Cals : row'[l][d] = IF l = k /\ d = c THEN rs ELSE row[l][d]
  BY <1>1 DEF RowOK
<1>4. \A l \in Caches \ {k} : row'[l] = row[l]
  BY <1>1 DEF RowOK
<1> QED BY <1>2, <1>3, <1>4

\* The row of one calendar in one cache.
SetsCalendar(k, c, r) == cal' = [cal EXCEPT ![k][c] = r]

\* It changes that calendar and no other.
LEMMA OneCalendarRow ==
  ASSUME CalOK, NEW k \in Caches, NEW c \in Cals, NEW r \in CalendarRows \union {None}, SetsCalendar(k, c, r)
  PROVE  /\ CalOK'
         /\ \A l \in Caches, d \in Cals : cal'[l][d] = IF l = k /\ d = c THEN r ELSE cal[l][d]
         /\ \A l \in Caches \ {k} : cal'[l] = cal[l]
<1>1. cal' = [cal EXCEPT ![k][c] = r]
  BY DEF SetsCalendar
<1>2. CalOK'
  BY <1>1 DEF CalOK
<1>3. \A l \in Caches, d \in Cals : cal'[l][d] = IF l = k /\ d = c THEN r ELSE cal[l][d]
  BY <1>1 DEF CalOK
<1>4. \A l \in Caches \ {k} : cal'[l] = cal[l]
  BY <1>1 DEF CalOK
<1> QED BY <1>2, <1>3, <1>4

\* A cache that is dropped shows nothing.
LEMMA DroppedCache ==
  ASSUME CalOK, RowOK, NEW k \in Caches, NEW cs, Dropped(k, cs)
  PROVE  /\ CalOK' /\ RowOK'
         /\ \A l \in Caches \ {k} : row'[l] = row[l] /\ cal'[l] = cal[l]
         /\ \A c \in Cals, u \in Uids : row'[k][c][u] \in {None, row[k][c][u]}
<1> DEFINE c1 == [c \in Cals |-> IF c \in cs THEN None ELSE cal[k][c]]
<1> DEFINE r1 == [c \in Cals |-> IF c \in cs THEN NoEvents ELSE row[k][c]]
<1>1. cal' = [cal EXCEPT ![k] = c1] /\ row' = [row EXCEPT ![k] = r1]
  BY DEF Dropped
<1>2. c1 \in [Cals -> CalendarRows \union {None}]
  BY DEF CalOK
<1>3. NoEvents \in [Uids -> EventRows \union {None}]
  BY DEF NoEvents
<1>4. r1 \in [Cals -> [Uids -> EventRows \union {None}]]
  BY <1>3 DEF RowOK
<1>5. \A c \in Cals, u \in Uids : r1[c][u] \in {None, row[k][c][u]}
  BY DEF NoEvents
<1> HIDE DEF c1, r1
<1>6. CalOK' /\ \A l \in Caches \ {k} : cal'[l] = cal[l]
  BY <1>1, <1>2 DEF CalOK
<1>7. RowOK' /\ \A l \in Caches \ {k} : row'[l] = row[l]
  BY <1>1, <1>4 DEF RowOK
<1>8. row'[k] = r1
  BY <1>1 DEF RowOK
<1> QED BY <1>5, <1>6, <1>7, <1>8

-----------------------------------------------------------------------------
(* What a step leaves alone *)

\* RingOK, of a step that neither rings nor marks.
LEMMA RingFrame ==
  ASSUME RingOK, BellOK, UNCHANGED bell, job'[Worker] = job[Worker] \/ job[Worker].op # "ring"
  PROVE  RingOK' /\ BellOK'
<1>1. rang' = rang /\ breaks' = breaks /\ fired' = fired
  BY DEF bell
<1>2. ASSUME NEW u \in Uids PROVE rang'[u] <= breaks' + IF u \in fired' \/ Marking(u)' THEN 1 ELSE 0
  <2>1. rang[u] <= breaks + IF u \in fired \/ Marking(u) THEN 1 ELSE 0
    BY DEF RingOK
  <2>2. Marking(u) => Marking(u)'
    BY DEF Marking
  <2>3. rang[u] \in Nat /\ breaks \in Nat
    BY DEF BellOK
  <2> QED BY <1>1, <2>1, <2>2, <2>3
<1> QED BY <1>1, <1>2 DEF RingOK, BellOK

\* KeptOK, of a step that keeps no other event, takes none of these from a
\* calendar, and begins no change of calendar.
LEMMA KeptFrame ==
  ASSUME JobsOK, KeptOK, kept' \subseteq kept,
         \A c \in Cals, u \in kept' : Has(c, u) => Has(c, u)',
         \A c \in Cals, u \in kept' : Held("web", c, u)' => row'["web"][c][u].of = c,
         \A t \in Threads : job'[t].op = "move" =>
           /\ job[t].op = "move" /\ job'[t].uid = job[t].uid
           /\ job'[t].cal = job[t].cal /\ job'[t].to = job[t].to
           /\ job'[t].at = "drop" => job[t].at = "drop" \/ Has(job[t].to, job[t].uid)'
  PROVE  KeptOK'
<1>1. NeverNowhere'
  BY DEF KeptOK, NeverNowhere
<1>2. RowsOK'
  BY DEF RowsOK, Misplaced
<1>3. ASSUME NEW t \in Threads, job'[t].op = "move", job'[t].uid \in kept'
      PROVE /\ job'[t].cal # job'[t].to
            /\ job'[t].at = "drop" => Has(job[t].to, job[t].uid)'
            /\ ~Moving(t, job[t].uid)'
  <2>1. /\ job[t].op = "move" /\ job'[t].uid = job[t].uid
        /\ job'[t].cal = job[t].cal /\ job'[t].to = job[t].to
        /\ job'[t].at = "drop" => job[t].at = "drop" \/ Has(job[t].to, job[t].uid)'
    BY <1>3
  <2>2. job[t].uid \in kept
    BY <1>3, <2>1
  <2>3. /\ job[t].cal # job[t].to
        /\ job[t].at = "drop" => Has(job[t].to, job[t].uid)
        /\ ~Moving(t, job[t].uid)
    BY <2>1, <2>2 DEF KeptOK, MovesOK
  <2>4. job[t].to \in Cals
    <3>1. t \in Actors /\ job[t].op \in WriteOps
      BY <2>1 DEF Actors, WriteOps
    <3> QED BY <3>1, IsWrite DEF WriteJobs
  <2>5. ~Moving(t, job[t].uid)'
    <3>1. SUFFICES ASSUME NEW s \in Threads \ {t}, job'[s].op = "move", job'[s].uid = job'[t].uid
                   PROVE FALSE
      BY DEF Moving
    <3>2. job[s].op = "move" /\ job[s].uid = job[t].uid
      BY <2>1, <3>1
    <3> QED BY <2>3, <3>2 DEF Moving
  <2>6. ASSUME job'[t].at = "drop" PROVE Has(job[t].to, job[t].uid)'
    <3>1. PICK c \in Cals, u \in kept' : c = job[t].to /\ u = job[t].uid
      BY <1>3, <2>1, <2>4
    <3>2. Has(c, u) => Has(c, u)'
      OBVIOUS
    <3>3. job'[t].to = c /\ job'[t].uid = u
      BY <2>1, <3>1
    <3>4. CASE job[t].at = "drop"
      <4>1. Has(c, u)
        BY <2>3, <3>1, <3>4
      <4>2. Has(c, u)'
        BY <3>2, <4>1
      <4> QED BY <3>3, <4>2 DEF Has, Listed
    <3>5. CASE job[t].at # "drop"
      BY <2>1, <2>6, <3>5
    <3> QED BY <3>4, <3>5
  <2> QED BY <2>1, <2>3, <2>5, <2>6
<1>4. MovesOK'
  BY <1>3 DEF MovesOK
<1> QED BY <1>1, <1>2, <1>4 DEF KeptOK

\* What an actor's sync knows stays so while the server and its cache do.
LEMMA FollowsStay ==
  ASSUME NEW s \in Actors, Follows(s), dav' = dav, job'[s] = job[s], s \in stir => s \in stir',
         cal'[CacheOf(s)] = cal[CacheOf(s)], row'[CacheOf(s)] = row[CacheOf(s)]
  PROVE  Follows(s)'
<1>1. Knows(s) => Knows(s)'
  BY DEF Knows, Same, SameEvent, Shown, Held, Has, Listed, CacheOf
<1>2. IsAt(s, CacheOf(s), job[s].cur) => IsAt(s, CacheOf(s), job[s].cur)'
  BY DEF IsAt, Shown, CacheOf
<1> QED BY <1>1, <1>2 DEF Follows, Listed, CacheOf, IsAt, Shown

\* MirrorOK, of a step that leaves the server alone and tells those that
\* mirror it into a cache it changes.
LEMMA MirrorFrame ==
  ASSUME MirrorOK, GhostOK, dav' = dav, stir \subseteq stir', mirror' \subseteq mirror,
         \A k \in mirror' : cal'[k] = cal[k] /\ row'[k] = row[k],
         \A s \in Actors :
           \/ Follows(s)'
           \/ s \in stir'
           \/ job'[s] = job[s] /\ cal'[CacheOf(s)] = cal[CacheOf(s)] /\ row'[CacheOf(s)] = row[CacheOf(s)]
  PROVE  MirrorOK'
<1>1. SyncMirrors'
  BY DEF MirrorOK, SyncMirrors, Shown, Listed, Held, Has
<1>2. ASSUME NEW s \in Actors, job'[s] = job[s],
             cal'[CacheOf(s)] = cal[CacheOf(s)], row'[CacheOf(s)] = row[CacheOf(s)]
      PROVE Follows(s)'
  <2>1. Follows(s) /\ (s \in stir => s \in stir')
    BY DEF MirrorOK
  <2> QED BY <1>2, <2>1, FollowsStay
<1>3. ASSUME NEW s \in Actors PROVE Follows(s)'
  <2>1. CASE s \in stir'
    BY <2>1 DEF Follows
  <2> QED BY <1>2, <2>1
<1> QED BY <1>1, <1>3 DEF MirrorOK

\* Whatever happens on the server is told to all.
LEMMA ServerMirror ==
  ASSUME ServerStirs
  PROVE  MirrorOK' /\ mirror' \subseteq Caches
BY DEF ServerStirs, MirrorOK, SyncMirrors, Follows

\* A request is no sync.
LEMMA NotSyncing ==
  ASSUME NEW t, job'[t].op # "sync"
  PROVE  Follows(t)'
BY DEF Follows

\* Requests of the pages are about the calendar cache.
LEMMA CachesAre == "web" \in Caches /\ "mail" \in Caches /\ \A t \in Threads : CacheOf(t) = "web" /\ t # Worker /\ t \in Actors
BY CalendarAssumption DEF Caches, CacheOf, Actors

\* A request changes the calendar cache.
LEMMA CacheMirror ==
  ASSUME MirrorOK, GhostOK, NEW t \in Threads, dav' = dav, CacheStirs(t, "web"),
         \A k \in Caches \ {"web"} : cal'[k] = cal[k],
         \A k \in Caches \ {"web"} : row'[k] = row[k],
         \A s \in Actors \ {t} : job'[s] = job[s],
         job'[t].op # "sync"
  PROVE  MirrorOK' /\ mirror' \subseteq Caches
<1>1. stir \subseteq stir' /\ mirror' \subseteq mirror \ {"web"} /\ mirror' \subseteq Caches
  BY DEF CacheStirs, GhostOK
<1>2. \A k \in mirror' : cal'[k] = cal[k] /\ row'[k] = row[k]
  BY <1>1
<1>3. Follows(t)'
  BY NotSyncing
<1>4. ASSUME NEW s \in Actors \ {t}
      PROVE s \in stir' \/ (job'[s] = job[s] /\ cal'[CacheOf(s)] = cal[CacheOf(s)] /\ row'[CacheOf(s)] = row[CacheOf(s)])
  <2>1. CASE CacheOf(s) = "web"
    BY <2>1 DEF CacheStirs, On
  <2>2. CASE CacheOf(s) = "mail"
    BY <2>2, CachesAre
  <2> QED BY <2>1, <2>2 DEF CacheOf
<1>5. MirrorOK'
  BY <1>1, <1>2, <1>3, <1>4, MirrorFrame
<1> QED BY <1>1, <1>5

\* A step that changes neither.
LEMMA QuietMirror ==
  ASSUME MirrorOK, GhostOK, NEW t \in Actors, UNCHANGED <<dav, cal, row, stir, mirror>>,
         \A s \in Actors \ {t} : job'[s] = job[s],
         Follows(t)'
  PROVE  MirrorOK'
<1>1. dav' = dav /\ cal' = cal /\ row' = row /\ stir' = stir /\ mirror' = mirror
  OBVIOUS
<1> QED BY <1>1, MirrorFrame

\* A request begins, or goes on without effect.
LEMMA QuietRequest ==
  ASSUME IInv, NEW t \in Threads, JobsOK', \A s \in Actors \ {t} : job'[s] = job[s],
         UNCHANGED <<dav, cal, row, bell, ghosts>>,
         job'[t].op # "sync",
         job'[t].op = "move" =>
           /\ job[t].op = "move" /\ job'[t].uid = job[t].uid
           /\ job'[t].cal = job[t].cal /\ job'[t].to = job[t].to
           /\ job'[t].at # "drop"
  PROVE  IInv'
<1>1. dav' = dav /\ cal' = cal /\ row' = row /\ UNCHANGED bell /\ kept' = kept /\ stir' = stir /\ mirror' = mirror
  BY DEF ghosts
<1>2. JobsOK /\ DavOK /\ CalOK /\ RowOK /\ BellOK /\ GhostOK /\ RingOK /\ KeptOK /\ MirrorOK
  BY DEF IInv, TypeOK
<1>3. t \in Actors /\ Worker \in Actors \ {t}
  BY CalendarAssumption DEF Actors
<1>4. DavOK' /\ CalOK' /\ RowOK' /\ GhostOK'
  BY <1>1, <1>2 DEF DavOK, CalOK, RowOK, GhostOK
<1>5. RingOK' /\ BellOK'
  BY <1>1, <1>2, <1>3, RingFrame
<1>6. \A c \in Cals, u \in kept' : Has(c, u) => Has(c, u)'
  BY <1>1 DEF Has, Listed
<1>7. \A c \in Cals, u \in kept' : Held("web", c, u)' => row'["web"][c][u].of = c
  BY <1>1, <1>2 DEF KeptOK, RowsOK, Misplaced, Held
<1>8. \A s \in Threads : job'[s].op = "move" =>
           /\ job[s].op = "move" /\ job'[s].uid = job[s].uid
           /\ job'[s].cal = job[s].cal /\ job'[s].to = job[s].to
           /\ job'[s].at = "drop" => job[s].at = "drop" \/ Has(job[s].to, job[s].uid)'
  BY DEF Actors
<1>9. KeptOK'
  BY <1>1, <1>2, <1>6, <1>7, <1>8, KeptFrame
<1>10. Follows(t)'
  BY NotSyncing
<1>11. MirrorOK'
  BY <1>1, <1>2, <1>3, <1>10, QuietMirror
<1> QED BY <1>4, <1>5, <1>9, <1>11 DEF IInv, TypeOK

-----------------------------------------------------------------------------
(* Requests begin *)

\* What IInv says, part by part.
LEMMA Parts ==
  ASSUME IInv
  PROVE  JobsOK /\ DavOK /\ CalOK /\ RowOK /\ BellOK /\ GhostOK /\ RingOK /\ KeptOK /\ MirrorOK
BY DEF IInv, TypeOK

\* A held row is a row.
LEMMA HeldRow ==
  ASSUME RowOK, NEW k \in Caches, NEW c \in Cals, NEW u \in Uids, Held(k, c, u)
  PROVE  row[k][c][u] \in EventRows /\ row[k][c][u].of \in Cals /\ row[k][c][u].full \in BOOLEAN
<1>1. row[k][c][u] \in EventRows
  BY DEF RowOK, Held
<1> QED BY <1>1 DEF EventRows

\* A request begins with a write that is no change of calendar, and does
\* nothing else yet.
LEMMA BeginsQuietly ==
  ASSUME IInv, NEW t \in Threads, NEW op \in WriteOps \ {"move"}, NEW at \in Places, NEW u, NEW c \in Cals,
         NEW to \in Cals, NEW full \in BOOLEAN, NEW text,
         u \in Uids \/ (u = None /\ op \in {"make", "retitle", "tell", "unmake"}),
         text \in Texts \/ (text = None /\ op \in {"delete", "make", "unmake"}),
         Begins(t, Write(op, at, u, c, to, full, text)),
         UNCHANGED <<dav, cal, row, bell, ghosts>>
  PROVE  IInv'
<1>1. JobsOK
  BY Parts
<1>2. op \in WriteOps /\ op # "move" /\ op # "sync"
  BY DEF WriteOps
<1>3. /\ JobsOK'
      /\ job'[t] = [op |-> op, at |-> at, uid |-> u, cal |-> c, to |-> to, full |-> full, text |-> text]
      /\ \A s \in Actors \ {t} : job'[s] = job[s]
  BY <1>1, <1>2, WriteBegins
<1>4. job'[t].op = op
  BY <1>3
<1> QED BY <1>2, <1>3, <1>4, QuietRequest

\* A request that puts an event begins.
LEMMA PutsQuietly ==
  ASSUME IInv, NEW t \in Threads, NEW u \in Uids, NEW c \in Cals, NEW text \in Texts, Puts(t, u, c, text)
  PROVE  IInv'
<1>1. Begins(t, Write("put", "put", u, c, c, TRUE, text)) /\ UNCHANGED <<dav, cal, row, bell, ghosts>>
  BY DEF Puts
<1>2. "put" \in WriteOps \ {"move"} /\ "put" \in Places
  BY DEF WriteOps, Places
<1> QED BY <1>1, <1>2, BeginsQuietly

\* An event is created, by a customer or from an invitation.
LEMMA CreateStep ==
  ASSUME IInv, NEW t \in Threads, McpCreateEvent(t) \/ IcsRsvp(t) \/ IcsRsvpExisting(t) \/ ProcessInviteRequest(t)
  PROVE  IInv'
<1>1. \E u \in Uids, c \in Cals, text \in Texts : Puts(t, u, c, text)
  BY DEF McpCreateEvent, ApiCreateEvent, QuickCreate, CreateEvent, IcsRsvp, IcsImport, IcsRsvpExisting,
         ProcessInviteRequest, ProcessInvite
<1> QED BY <1>1, PutsQuietly

\* A write at the href of a row, that is no change of calendar.
LEMMA RewritesQuietly ==
  ASSUME IInv, NEW t \in Threads, NEW op \in WriteOps \ {"move"}, NEW at \in Places, NEW u \in Uids, NEW c \in Cals,
         NEW to \in Cals, NEW text, text \in Texts \/ (text = None /\ op = "delete"),
         Held("web", c, u), Rewrites(t, op, at, u, c, to, text),
         UNCHANGED <<dav, cal, row, bell, ghosts>>
  PROVE  IInv'
<1>1. PICK of \in Cals, full \in BOOLEAN : of = row["web"][c][u].of /\ full = row["web"][c][u].full
  BY Parts, HeldRow, CachesAre
<1>2. Begins(t, Write(op, at, u, of, to, full, text))
  BY <1>1 DEF Rewrites
<1> QED BY <1>2, BeginsQuietly

\* One edits an event where it is.
LEMMA EditStep ==
  ASSUME IInv, NEW t \in Threads, MoveEvent(t) \/ ApiUpdateEvent(t) \/ McpUpdateEvent(t)
  PROVE  IInv'
<1>1. UNCHANGED <<dav, cal, row, bell, ghosts>>
  BY DEF MoveEvent, ApiUpdateEvent, McpUpdateEvent
<1>2. PICK c \in Cals, u \in Uids, to \in Cals, text \in Texts :
        Held("web", c, u) /\ Rewrites(t, "edit", "replace", u, c, to, text)
  BY DEF MoveEvent, ApiUpdateEvent, McpUpdateEvent
<1>3. "edit" \in WriteOps \ {"move"} /\ "replace" \in Places
  BY DEF WriteOps, Places
<1> QED BY <1>1, <1>2, <1>3, RewritesQuietly

\* A tool's deletion of an event begins.
LEMMA DeleteStep ==
  ASSUME IInv, NEW t \in Threads, McpDeleteEvent(t)
  PROVE  IInv'
<1>1. UNCHANGED <<dav, cal, row, bell, ghosts>>
  BY DEF McpDeleteEvent, ApiDeleteEvent, DeleteEvent, bell, ghosts
<1>2. PICK c \in Cals, u \in Uids : Held("web", c, u) /\ Rewrites(t, "delete", "drop", u, c, c, None)
  BY DEF McpDeleteEvent, ApiDeleteEvent, DeleteEvent
<1>3. "delete" \in WriteOps \ {"move"} /\ "drop" \in Places
  BY DEF WriteOps, Places
<1> QED BY <1>1, <1>2, <1>3, RewritesQuietly

\* One makes, renames or deletes a calendar.
LEMMA CalendarStep ==
  ASSUME IInv, NEW t \in Threads, McpCreateCalendar(t) \/ EditCalendar(t) \/ DeleteCalendar(t)
  PROVE  IInv'
<1>1. UNCHANGED <<dav, cal, row, bell, ghosts>>
  BY DEF McpCreateCalendar, ApiCreateCalendar, NewCalendar, EditCalendar, DeleteCalendar, bell, ghosts
<1>2. PICK op \in {"make", "retitle", "unmake"}, at \in {"mkcol", "props", "rmcol"}, c \in Cals, text \in Texts \union {None} :
        /\ text \in Texts \/ op \in {"make", "unmake"}
        /\ Begins(t, Write(op, at, None, c, c, TRUE, text))
  <2>1. CASE McpCreateCalendar(t)
    BY <2>1 DEF McpCreateCalendar, ApiCreateCalendar, NewCalendar
  <2>2. CASE EditCalendar(t)
    BY <2>2 DEF EditCalendar
  <2>3. CASE DeleteCalendar(t)
    BY <2>3 DEF DeleteCalendar
  <2> QED BY <2>1, <2>2, <2>3
<1>3. op \in WriteOps \ {"move"} /\ at \in Places
  BY DEF WriteOps, Places
<1>4. text \in Texts \/ (text = None /\ op \in {"delete", "make", "unmake"})
  BY <1>2
<1> QED BY <1>1, <1>2, <1>3, <1>4, BeginsQuietly

\* A write fails: a change of calendar or a deletion goes on where its
\* DELETE did, and any other ends.
LEMMA FailStep ==
  ASSUME IInv, NEW t \in Threads, WriteFails(t)
  PROVE  IInv'
<1>1. UNCHANGED <<dav, cal, row, bell, ghosts>>
  BY DEF WriteFails, bell, ghosts
<1>2. job[t].op \in {"put", "edit", "move", "delete", "reply"} /\ JobsOK /\ t \in Actors
  BY Parts DEF WriteFails, Does, Actors
<1>3. CASE AfterFailure(job[t]) = "end"
  <2>1. Stop(t)
    BY <1>3 DEF WriteFails
  <2>2. JobsOK' /\ job'[t] = Idle /\ \A s \in Actors \ {t} : job'[s] = job[s]
    BY <1>2, <2>1, StopStep
  <2>3. job'[t].op = "idle"
    BY <2>2, IsIdle
  <2> QED BY <1>1, <2>2, <2>3, QuietRequest
<1>4. CASE AfterFailure(job[t]) # "end"
  <2>1. AfterFailure(job[t]) = "store"
    BY <1>4 DEF AfterFailure
  <2>2. Goes(t, "store")
    BY <2>1 DEF WriteFails
  <2>3. /\ JobsOK'
        /\ job'[t] = [op |-> job[t].op, at |-> "store", uid |-> job[t].uid, cal |-> job[t].cal,
                       to |-> job[t].to, full |-> job[t].full, text |-> job[t].text]
        /\ \A s \in Actors \ {t} : job'[s] = job[s]
    BY <1>2, <2>2, WriteGoes DEF WriteOps, Places
  <2>4. job'[t].op # "sync"
    BY <1>2, <2>3
  <2>5. job'[t].op = "move" =>
           /\ job[t].op = "move" /\ job'[t].uid = job[t].uid
           /\ job'[t].cal = job[t].cal /\ job'[t].to = job[t].to
           /\ job'[t].at # "drop"
    BY <2>3
  <2> QED BY <1>1, <2>3, <2>4, <2>5, QuietRequest
<1> QED BY <1>3, <1>4

-----------------------------------------------------------------------------
(* Requests at the server *)

\* A write goes to another place or ends.
LEMMA GoesOrStops ==
  ASSUME JobsOK, NEW t \in Actors, job[t].op \in WriteOps, NEW at \in Places, Goes(t, at) \/ Stop(t)
  PROVE  /\ JobsOK'
         /\ \A s \in Actors \ {t} : job'[s] = job[s]
         /\ job'[t].op # "sync"
         /\ job'[t].op = "move" =>
              /\ job[t].op = "move" /\ job'[t].uid = job[t].uid
              /\ job'[t].cal = job[t].cal /\ job'[t].to = job[t].to /\ job'[t].at = at
<1>1. CASE Goes(t, at)
  <2>1. /\ JobsOK'
        /\ job'[t] = [op |-> job[t].op, at |-> at, uid |-> job[t].uid, cal |-> job[t].cal,
                       to |-> job[t].to, full |-> job[t].full, text |-> job[t].text]
        /\ \A s \in Actors \ {t} : job'[s] = job[s]
    BY <1>1, WriteGoes
  <2>2. job'[t].op = job[t].op /\ job[t].op # "sync"
    BY <2>1 DEF WriteOps
  <2> QED BY <2>1, <2>2
<1>2. CASE Stop(t)
  <2>1. JobsOK' /\ job'[t] = Idle /\ \A s \in Actors \ {t} : job'[s] = job[s]
    BY <1>2, StopStep
  <2>2. job'[t].op = "idle"
    BY <2>1, IsIdle
  <2> QED BY <2>1, <2>2
<1> QED BY <1>1, <1>2

\* A request does not ring.
LEMMA RequestRest ==
  ASSUME IInv, NEW t \in Threads, UNCHANGED bell, \A s \in Actors \ {t} : job'[s] = job[s]
  PROVE  RingOK' /\ BellOK'
<1>1. Worker \in Actors \ {t}
  BY CalendarAssumption DEF Actors
<1> QED BY <1>1, Parts, RingFrame

\* A request changes the server.
LEMMA ServerRequest ==
  ASSUME IInv, NEW t \in Threads, UNCHANGED <<cal, row, bell>>, ServerStirs,
         JobsOK', \A s \in Actors \ {t} : job'[s] = job[s],
         DavOK', kept' \subseteq Uids, KeptOK'
  PROVE  IInv'
<1>1. RingOK' /\ BellOK'
  BY RequestRest
<1>2. MirrorOK' /\ GhostOK'
  BY ServerMirror DEF GhostOK
<1>3. CalOK' /\ RowOK'
  BY Parts DEF CalOK, RowOK
<1> QED BY <1>1, <1>2, <1>3 DEF IInv, TypeOK

\* It puts a text of an event on the server, and goes to another place.
LEMMA TextRequest ==
  ASSUME IInv, NEW t \in Threads, UNCHANGED <<cal, row, bell>>, ServerStirs, job[t].op \in WriteOps,
         NEW at \in Places, Goes(t, at) \/ Stop(t),
         NEW c \in Cals, NEW u \in Uids, NEW text \in Texts, Listed(c), Stored(c, u, text), kept' \subseteq kept,
         job[t].op = "move" /\ at = "drop" => c = job[t].to /\ u = job[t].uid
  PROVE  IInv'
<1>1. JobsOK /\ DavOK /\ GhostOK /\ KeptOK /\ t \in Actors
  BY Parts DEF Actors
<1>2. /\ JobsOK'
      /\ \A s \in Actors \ {t} : job'[s] = job[s]
      /\ job'[t].op = "move" =>
              /\ job[t].op = "move" /\ job'[t].uid = job[t].uid
              /\ job'[t].cal = job[t].cal /\ job'[t].to = job[t].to /\ job'[t].at = at
  BY <1>1, GoesOrStops
<1>3. /\ DavOK'
      /\ \A d \in Cals, v \in Uids : Has(d, v)' <=> IF d = c /\ v = u THEN text # None ELSE Has(d, v)
  BY <1>1, StoredDav
<1>4. kept' \subseteq Uids /\ text # None
  BY <1>1, NoneIsNothing DEF GhostOK
<1>5. \A d \in Cals, v \in kept' : Has(d, v) => Has(d, v)'
  BY <1>3, <1>4
<1>6. \A d \in Cals, v \in kept' : Held("web", d, v)' => row'["web"][d][v].of = d
  BY <1>1 DEF KeptOK, RowsOK, Misplaced, Held
<1>7. ASSUME NEW s \in Threads, job'[s].op = "move"
      PROVE  /\ job[s].op = "move" /\ job'[s].uid = job[s].uid
             /\ job'[s].cal = job[s].cal /\ job'[s].to = job[s].to
             /\ job'[s].at = "drop" => job[s].at = "drop" \/ Has(job[s].to, job[s].uid)'
  <2>1. CASE s # t
    BY <1>2, <1>7, <2>1 DEF Actors
  <2>2. CASE s = t
    <3>1. ASSUME at = "drop" PROVE Has(job[t].to, job[t].uid)'
      <4>1. Has(c, u)'
        BY <1>3, <1>4
      <4>2. job'[t].to = c /\ job'[t].uid = u
        BY <1>2, <1>7, <2>2, <3>1
      <4> QED BY <4>1, <4>2 DEF Has, Listed
    <3> QED BY <1>2, <1>7, <2>2, <3>1
  <2> QED BY <2>1, <2>2
<1>8. KeptOK'
  BY <1>1, <1>5, <1>6, <1>7, KeptFrame
<1> QED BY <1>2, <1>3, <1>4, <1>8, ServerRequest

\* An edit replaces the event on the server.
LEMMA ReplaceStep ==
  ASSUME IInv, NEW t \in Threads, ReplaceEvent(t)
  PROVE  IInv'
<1>1. /\ job[t].op \in {"edit", "reply"} /\ Listed(job[t].cal) /\ Stored(job[t].cal, job[t].uid, job[t].text)
      /\ ServerStirs
      /\ Goes(t, "store") \/ Stop(t)
      /\ UNCHANGED <<cal, row, bell>> /\ kept' = kept
  BY DEF ReplaceEvent, Does, Reachable
<1>2. job[t].op \in WriteOps /\ job[t].op # "move" /\ t \in Actors /\ "store" \in Places
  BY <1>1 DEF WriteOps, Actors, Places
<1>3. job[t] \in WriteJobs /\ Whole(job[t])
  BY <1>2, Parts, IsWrite
<1>4. job[t].cal \in Cals /\ job[t].uid \in Uids /\ job[t].text \in Texts
  BY <1>1, <1>3 DEF WriteJobs, Whole
<1>5. /\ Goes(t, "store") \/ Stop(t)
      /\ Listed(job[t].cal) /\ Stored(job[t].cal, job[t].uid, job[t].text)
      /\ ServerStirs /\ UNCHANGED <<cal, row, bell>> /\ kept' \subseteq kept
  BY <1>1
<1> QED BY <1>2, <1>4, <1>5, TextRequest

\* A change of calendar has put its copy.
LEMMA CopyStep ==
  ASSUME IInv, NEW t \in Threads, CopyEvent(t)
  PROVE  IInv'
<1>1. /\ job[t].op = "move" /\ Listed(job[t].to) /\ Stored(job[t].to, job[t].uid, job[t].text)
      /\ ServerStirs
      /\ Goes(t, "drop") \/ Stop(t)
      /\ UNCHANGED <<cal, row, bell>> /\ kept' = kept
  BY DEF CopyEvent, Does
<1>2. job[t].op \in WriteOps /\ t \in Actors /\ "drop" \in Places
  BY <1>1 DEF WriteOps, Actors, Places
<1>3. job[t] \in WriteJobs /\ Whole(job[t])
  BY <1>2, Parts, IsWrite
<1>4. job[t].to \in Cals /\ job[t].uid \in Uids /\ job[t].text \in Texts
  BY <1>1, <1>3 DEF WriteJobs, Whole
<1>5. /\ Goes(t, "drop") \/ Stop(t)
      /\ Listed(job[t].to) /\ Stored(job[t].to, job[t].uid, job[t].text)
      /\ ServerStirs /\ UNCHANGED <<cal, row, bell>> /\ kept' \subseteq kept
  BY <1>1
<1> QED BY <1>2, <1>4, <1>5, TextRequest

\* A new event, or one that comes back, is kept: no change of its calendar is
\* under way and its row is where its href is.
LEMMA PutStep ==
  ASSUME IInv, NEW t \in Threads, PutEvent(t)
  PROVE  IInv'
<1>1. /\ job[t].op = "put" /\ Listed(job[t].cal) /\ Stored(job[t].cal, job[t].uid, job[t].text)
      /\ ServerStirs
      /\ Goes(t, "store") \/ Stop(t)
      /\ UNCHANGED <<cal, row, bell>>
      /\ kept' = IF Moving(t, job[t].uid) \/ Misplaced(job[t].uid) THEN kept ELSE kept \union {job[t].uid}
  BY DEF PutEvent, Does
<1>2. job[t].op \in WriteOps /\ t \in Actors /\ "store" \in Places
  BY <1>1 DEF WriteOps, Actors, Places
<1>3. job[t] \in WriteJobs /\ Whole(job[t])
  BY <1>2, Parts, IsWrite
<1>4. PICK c \in Cals, u \in Uids, text \in Texts : c = job[t].cal /\ u = job[t].uid /\ text = job[t].text
  BY <1>1, <1>3 DEF WriteJobs, Whole
<1>5. Listed(c) /\ Stored(c, u, text)
  BY <1>1, <1>4
<1>6. CASE Moving(t, u) \/ Misplaced(u)
  <2>1. kept' \subseteq kept /\ job[t].op # "move"
    BY <1>1, <1>4, <1>6
  <2> QED BY <1>1, <1>2, <1>5, <2>1, TextRequest
<1>7. CASE ~Moving(t, u) /\ ~Misplaced(u)
  <2>1. kept' = kept \union {u}
    BY <1>1, <1>4, <1>7
  <2>2. JobsOK /\ DavOK /\ GhostOK /\ KeptOK
    BY Parts
  <2>3. /\ JobsOK'
        /\ \A s \in Actors \ {t} : job'[s] = job[s]
        /\ job'[t].op # "move"
    BY <1>1, <1>2, <2>2, GoesOrStops
  <2>4. /\ DavOK'
        /\ \A d \in Cals, v \in Uids : Has(d, v)' <=> IF d = c /\ v = u THEN text # None ELSE Has(d, v)
    BY <1>5, <2>2, StoredDav
  <2>5. text # None /\ kept' \subseteq Uids
    BY <2>1, <2>2, NoneIsNothing DEF GhostOK
  <2>6. NeverNowhere'
    <3>1. ASSUME NEW v \in kept' PROVE \E d \in Cals : Has(d, v)'
      <4>1. CASE v = u
        BY <2>4, <2>5, <4>1
      <4>2. CASE v # u
        BY <2>1, <2>2, <2>4, <2>5, <4>2 DEF KeptOK, NeverNowhere
      <4> QED BY <4>1, <4>2
    <3> QED BY <3>1 DEF NeverNowhere
  <2>7. RowsOK'
    <3>1. \A v \in kept' : ~Misplaced(v)
      BY <1>7, <2>1, <2>2 DEF KeptOK, RowsOK
    <3> QED BY <1>1, <3>1 DEF RowsOK, Misplaced, Held
  <2>8. ASSUME NEW s \in Threads, job'[s].op = "move", job'[s].uid \in kept'
        PROVE  /\ job'[s].cal # job'[s].to
               /\ job'[s].at = "drop" => Has(job[s].to, job[s].uid)'
               /\ ~Moving(s, job[s].uid)'
    <3>1. s # t /\ s \in Actors \ {t} /\ job'[s] = job[s]
      BY <2>3, <2>8 DEF Actors
    <3>2. job[s].uid # u
      BY <1>7, <2>8, <3>1 DEF Moving
    <3>3. job[s].uid \in kept
      BY <2>1, <2>8, <3>1, <3>2
    <3>4. /\ job[s].cal # job[s].to
          /\ job[s].at = "drop" => Has(job[s].to, job[s].uid)
          /\ ~Moving(s, job[s].uid)
      BY <2>2, <2>8, <3>1, <3>3 DEF KeptOK, MovesOK
    <3>5. ASSUME job[s].at = "drop" PROVE Has(job[s].to, job[s].uid)'
      <4>1. job[s].op \in WriteOps /\ s \in Actors
        BY <2>8, <3>1 DEF WriteOps
      <4>2. PICK d \in Cals, v \in Uids : d = job[s].to /\ v = job[s].uid
        BY <4>1, <2>2, <3>3, IsWrite DEF WriteJobs, GhostOK
      <4>3. Has(d, v)
        BY <3>4, <3>5, <4>2
      <4>4. Has(d, v)'
        BY <2>4, <2>5, <4>3
      <4> QED BY <3>1, <4>2, <4>4 DEF Has, Listed
    <3>6. ~Moving(s, job[s].uid)'
      <4>1. SUFFICES ASSUME NEW r \in Threads \ {s}, job'[r].op = "move", job'[r].uid = job'[s].uid
                     PROVE FALSE
        BY DEF Moving
      <4>2. r # t /\ job'[r] = job[r]
        BY <2>3, <4>1 DEF Actors
      <4> QED BY <3>1, <3>4, <4>1, <4>2 DEF Moving
    <3> QED BY <3>1, <3>4, <3>5, <3>6
  <2>9. MovesOK'
    BY <2>8 DEF MovesOK
  <2>10. KeptOK'
    BY <2>6, <2>7, <2>9 DEF KeptOK
  <2> QED BY <1>1, <2>3, <2>4, <2>5, <2>10, ServerRequest
<1> QED BY <1>6, <1>7

\* A DELETE takes away what was to be deleted, or what a change of calendar
\* has copied to another one.
LEMMA DropStep ==
  ASSUME IInv, NEW t \in Threads, DropEvent(t)
  PROVE  IInv'
<1>1. /\ job[t].op \in {"move", "delete"} /\ job[t].at = "drop"
      /\ Listed(job[t].cal) /\ Stored(job[t].cal, job[t].uid, None)
      /\ ServerStirs
      /\ Goes(t, "store")
      /\ UNCHANGED <<cal, row, bell>>
      /\ kept' = IF job[t].op = "delete" THEN kept \ {job[t].uid} ELSE kept
  BY DEF DropEvent, Does, Reachable
<1>2. job[t].op \in WriteOps /\ t \in Actors /\ "store" \in Places
  BY <1>1 DEF WriteOps, Actors, Places
<1>3. JobsOK /\ DavOK /\ GhostOK /\ KeptOK
  BY Parts
<1>4. job[t] \in WriteJobs /\ Whole(job[t])
  BY <1>2, <1>3, IsWrite
<1>5. PICK c \in Cals, u \in Uids, to \in Cals : c = job[t].cal /\ u = job[t].uid /\ to = job[t].to
  BY <1>1, <1>4 DEF WriteJobs, Whole
<1>6. /\ JobsOK'
      /\ \A s \in Actors \ {t} : job'[s] = job[s]
      /\ job'[t].op = "move" =>
              /\ job[t].op = "move" /\ job'[t].uid = job[t].uid
              /\ job'[t].cal = job[t].cal /\ job'[t].to = job[t].to /\ job'[t].at = "store"
  BY <1>1, <1>2, <1>3, GoesOrStops
<1>7. Listed(c) /\ Stored(c, u, None)
  BY <1>1, <1>5
<1>8. /\ DavOK'
      /\ \A d \in Cals, v \in Uids : Has(d, v)' <=> IF d = c /\ v = u THEN FALSE ELSE Has(d, v)
  BY <1>3, <1>7, StoredDav
<1>9. kept' \subseteq kept /\ kept' \subseteq Uids
  BY <1>1, <1>3 DEF GhostOK
\* no other change of calendar takes an event that is kept to here
<1>10. ASSUME u \in kept' PROVE job[t].op = "move" /\ c # to /\ Has(to, u) /\ ~Moving(t, u)
  <2>1. job[t].op = "move"
    BY <1>1, <1>5, <1>10
  <2>2. /\ job[t].cal # job[t].to
        /\ job[t].at = "drop" => Has(job[t].to, job[t].uid)
        /\ ~Moving(t, job[t].uid)
    BY <1>3, <1>5, <1>9, <1>10, <2>1 DEF KeptOK, MovesOK
  <2> QED BY <1>1, <1>5, <2>1, <2>2
<1>11. NeverNowhere'
  <2>1. ASSUME NEW v \in kept' PROVE \E d \in Cals : Has(d, v)'
    <3>1. CASE v = u
      <4>1. Has(to, u)'
        BY <1>8, <1>10, <3>1
      <4> QED BY <3>1, <4>1
    <3>2. CASE v # u
      BY <1>3, <1>8, <1>9, <3>2 DEF KeptOK, NeverNowhere
    <3> QED BY <3>1, <3>2
  <2> QED BY <2>1 DEF NeverNowhere
<1>12. RowsOK'
  BY <1>1, <1>3, <1>9 DEF KeptOK, RowsOK, Misplaced, Held
<1>13. ASSUME NEW s \in Threads, job'[s].op = "move", job'[s].uid \in kept'
       PROVE  /\ job'[s].cal # job'[s].to
              /\ job'[s].at = "drop" => Has(job[s].to, job[s].uid)'
              /\ ~Moving(s, job[s].uid)'
  <2>1. /\ job[s].op = "move" /\ job'[s].uid = job[s].uid
        /\ job'[s].cal = job[s].cal /\ job'[s].to = job[s].to
        /\ job'[s].at = "drop" => s # t /\ job[s].at = "drop"
    BY <1>6, <1>13 DEF Actors
  <2>2. /\ job[s].cal # job[s].to
        /\ job[s].at = "drop" => Has(job[s].to, job[s].uid)
        /\ ~Moving(s, job[s].uid)
    BY <1>3, <1>9, <1>13, <2>1 DEF KeptOK, MovesOK
  <2>3. ASSUME job'[s].at = "drop" PROVE Has(job[s].to, job[s].uid)'
    <3>1. s \in Actors /\ job[s].op \in WriteOps
      BY <2>1 DEF Actors, WriteOps
    <3>2. PICK d \in Cals, v \in Uids : d = job[s].to /\ v = job[s].uid
      BY <1>3, <1>9, <1>13, <2>1, <3>1, IsWrite DEF WriteJobs, GhostOK
    <3>3. v # u
      BY <1>10, <1>13, <2>1, <2>3, <3>2 DEF Moving
    <3>4. Has(d, v)'
      BY <1>8, <2>1, <2>2, <2>3, <3>2, <3>3
    <3>5. job'[s].to = d /\ job'[s].uid = v
      BY <2>1, <3>2
    <3> QED BY <3>4, <3>5 DEF Has, Listed
  <2>4. ~Moving(s, job[s].uid)'
    <3>1. SUFFICES ASSUME NEW r \in Threads \ {s}, job'[r].op = "move", job'[r].uid = job'[s].uid
                   PROVE FALSE
      BY DEF Moving
    <3>2. job[r].op = "move" /\ job[r].uid = job'[r].uid
      BY <1>6, <3>1 DEF Actors
    <3> QED BY <2>1, <2>2, <3>1, <3>2 DEF Moving
  <2> QED BY <2>1, <2>2, <2>3, <2>4
<1>14. MovesOK'
  BY <1>13 DEF MovesOK
<1>15. KeptOK'
  BY <1>11, <1>12, <1>14 DEF KeptOK
<1> QED BY <1>1, <1>6, <1>8, <1>9, <1>15, ServerRequest

\* The web editor: a change of calendar starts where the event is, as its row
\* says, and makes two of them at a time an exception.
LEMMA UpdateStep ==
  ASSUME IInv, NEW t \in Threads, UpdateEvent(t)
  PROVE  IInv'
<1>1. PICK c \in Cals, u \in Uids, to \in Cals, text \in Texts :
        /\ Held("web", c, u)
        /\ Rewrites(t, IF to = c THEN "edit" ELSE "move", AfterRead(c, to), u, c, to, text)
        /\ kept' = IF to # c /\ Moving(t, u) THEN kept \ {u} ELSE kept
  BY DEF UpdateEvent
<1>2. UNCHANGED <<dav, cal, row, bell, stir, mirror>>
  BY DEF UpdateEvent
<1>3. JobsOK /\ DavOK /\ CalOK /\ RowOK /\ GhostOK /\ KeptOK /\ MirrorOK /\ t \in Actors
  BY Parts DEF Actors
<1>4. CASE to = c
  <2>1. Rewrites(t, "edit", "replace", u, c, to, text)
    BY <1>1, <1>4 DEF AfterRead
  <2>2. UNCHANGED <<dav, cal, row, bell, ghosts>>
    BY <1>1, <1>2, <1>4 DEF ghosts
  <2>3. "edit" \in WriteOps \ {"move"} /\ "replace" \in Places
    BY DEF WriteOps, Places
  <2> QED BY <1>1, <2>1, <2>2, <2>3, RewritesQuietly
<1>5. CASE to # c
  <2>1. Rewrites(t, "move", "copy", u, c, to, text)
    BY <1>1, <1>5 DEF AfterRead
  <2>2. PICK of \in Cals, full \in BOOLEAN : of = row["web"][c][u].of /\ full = row["web"][c][u].full
    BY <1>1, <1>3, HeldRow, CachesAre
  <2>3. Begins(t, Write("move", "copy", u, of, to, full, text))
    BY <2>1, <2>2 DEF Rewrites
  <2>4. "move" \in WriteOps /\ "copy" \in Places
    BY DEF WriteOps, Places
  <2>5. /\ JobsOK'
        /\ job'[t] = [op |-> "move", at |-> "copy", uid |-> u, cal |-> of, to |-> to, full |-> full, text |-> text]
        /\ \A s \in Actors \ {t} : job'[s] = job[s]
    BY <1>3, <2>3, <2>4, WriteBegins
  <2>6. /\ job'[t].op = "move" /\ job'[t].at = "copy" /\ job'[t].uid = u
        /\ job'[t].cal = of /\ job'[t].to = to
    BY <2>5
  <2>7. kept' \subseteq kept /\ kept' \subseteq Uids
    BY <1>1, <1>3 DEF GhostOK
  <2>8. NeverNowhere'
    BY <1>2, <1>3, <2>7 DEF KeptOK, NeverNowhere, Has, Listed
  <2>9. RowsOK'
    BY <1>2, <1>3, <2>7 DEF KeptOK, RowsOK, Misplaced, Held
  <2>10. ASSUME NEW s \in Threads, job'[s].op = "move", job'[s].uid \in kept'
         PROVE  /\ job'[s].cal # job'[s].to
                /\ job'[s].at = "drop" => Has(job[s].to, job[s].uid)'
                /\ ~Moving(s, job[s].uid)'
    <3>1. CASE s = t
      <4>1. u \in kept' /\ u \in kept
        BY <2>6, <2>7, <2>10, <3>1
      <4>2. ~Moving(t, u)
        BY <1>1, <1>5, <4>1
      <4>3. of = c
        BY <1>1, <1>3, <2>2, <4>1 DEF KeptOK, RowsOK, Misplaced
      <4>4. ~Moving(t, job[t].uid)'
        <5>1. \A r \in Threads \ {t} : job'[r] = job[r]
          BY <2>5 DEF Actors
        <5> QED BY <2>6, <4>2, <5>1 DEF Moving
      <4> QED BY <1>5, <2>6, <3>1, <4>3, <4>4
    <3>2. CASE s # t
      <4>1. job'[s] = job[s]
        BY <2>5, <3>2 DEF Actors
      <4>2. /\ job[s].cal # job[s].to
            /\ job[s].at = "drop" => Has(job[s].to, job[s].uid)
            /\ ~Moving(s, job[s].uid)
        BY <1>3, <2>7, <2>10, <4>1 DEF KeptOK, MovesOK
      <4>3. ASSUME job'[s].at = "drop" PROVE Has(job[s].to, job[s].uid)'
        BY <1>2, <4>1, <4>2, <4>3 DEF Has, Listed
      <4>4. job[s].uid # u
        <5>1. job[s].uid = u => Moving(t, u)
          BY <2>10, <3>2, <4>1 DEF Moving
        <5>2. job[s].uid = u => u \notin kept'
          BY <1>1, <1>5, <5>1
        <5> QED BY <2>10, <4>1, <5>2
      <4>5. ~Moving(s, job[s].uid)'
        <5>1. SUFFICES ASSUME NEW r \in Threads \ {s}, job'[r].op = "move", job'[r].uid = job'[s].uid
                       PROVE FALSE
          BY DEF Moving
        <5>2. r # t
          BY <2>6, <4>1, <4>4, <5>1
        <5>3. job'[r] = job[r]
          BY <2>5, <5>2 DEF Actors
        <5> QED BY <4>1, <4>2, <5>1, <5>3 DEF Moving
      <4> QED BY <4>1, <4>2, <4>3, <4>5
    <3> QED BY <3>1, <3>2
  <2>11. MovesOK'
    BY <2>10 DEF MovesOK
  <2>12. KeptOK'
    BY <2>8, <2>9, <2>11 DEF KeptOK
  <2>13. RingOK' /\ BellOK'
    BY <1>2, <2>5, RequestRest
  <2>14. job'[t].op # "sync"
    BY <2>6
  <2>15. MirrorOK'
    BY <1>2, <1>3, <2>5, <2>14, NotSyncing, QuietMirror
  <2>16. DavOK' /\ CalOK' /\ RowOK' /\ GhostOK'
    BY <1>2, <1>3, <2>7 DEF DavOK, CalOK, RowOK, GhostOK
  <2> QED BY <2>5, <2>12, <2>13, <2>15, <2>16 DEF IInv, TypeOK
<1> QED BY <1>4, <1>5

\* A collection is made; none changes.
LEMMA MakeStep ==
  ASSUME IInv, NEW t \in Threads, MakeCalendar(t)
  PROVE  IInv'
<1>1. /\ job[t].op = "make" /\ dav' = Collection(job[t].cal) /\ ServerStirs
      /\ Goes(t, "store") \/ Stop(t)
      /\ UNCHANGED <<cal, row, bell>> /\ kept' = kept
  BY DEF MakeCalendar, Does
<1>2. job[t].op \in WriteOps /\ t \in Actors /\ "store" \in Places
  BY <1>1 DEF WriteOps, Actors, Places
<1>3. JobsOK /\ DavOK /\ GhostOK /\ KeptOK
  BY Parts
<1>4. PICK c \in Cals : c = job[t].cal
  BY <1>2, <1>3, IsWrite DEF WriteJobs
<1>5. /\ JobsOK'
      /\ \A s \in Actors \ {t} : job'[s] = job[s]
      /\ job'[t].op # "move"
  BY <1>1, <1>2, <1>3, GoesOrStops
<1>6. dav' = Collection(c)
  BY <1>1, <1>4
<1>7. DavOK' /\ \A d \in Cals, u \in Uids : Has(d, u)' <=> Has(d, u)
  BY <1>3, <1>6, CollectionDav
<1>8. \A d \in Cals, u \in kept' : Has(d, u) => Has(d, u)'
  BY <1>1, <1>3, <1>7 DEF GhostOK
<1>9. \A d \in Cals, u \in kept' : Held("web", d, u)' => row'["web"][d][u].of = d
  BY <1>1, <1>3 DEF KeptOK, RowsOK, Misplaced, Held
<1>10. \A s \in Threads : job'[s].op = "move" => job'[s] = job[s]
  BY <1>5 DEF Actors
<1>11. KeptOK'
  BY <1>1, <1>3, <1>8, <1>9, <1>10, KeptFrame
<1> QED BY <1>1, <1>3, <1>5, <1>7, <1>11, ServerRequest DEF GhostOK

\* A collection gets a title, or not.
LEMMA PatchStep ==
  ASSUME IInv, NEW t \in Threads, PatchProps(t)
  PROVE  IInv'
<1>1. /\ job[t].op \in {"retitle", "tell"}
      /\ Goes(t, "store") \/ Stop(t)
      /\ UNCHANGED <<cal, row, bell>> /\ kept' = kept
  BY DEF PatchProps, Does
<1>2. \/ Listed(job[t].cal) /\ dav' = [dav EXCEPT ![job[t].cal].title = job[t].text.n] /\ ServerStirs
      \/ UNCHANGED <<dav, stir, mirror>>
  BY DEF PatchProps
<1>3. job[t].op \in WriteOps /\ t \in Actors /\ "store" \in Places
  BY <1>1 DEF WriteOps, Actors, Places
<1>4. JobsOK /\ DavOK /\ GhostOK /\ KeptOK
  BY Parts
<1>5. PICK c \in Cals, text \in Texts : c = job[t].cal /\ text = job[t].text
  BY <1>1, <1>3, <1>4, IsWrite DEF WriteJobs, Whole
<1>6. /\ JobsOK'
      /\ \A s \in Actors \ {t} : job'[s] = job[s]
      /\ job'[t].op # "move" /\ job'[t].op # "sync"
  BY <1>1, <1>3, <1>4, GoesOrStops
<1>7. CASE Listed(c) /\ dav' = [dav EXCEPT ![c].title = text.n] /\ ServerStirs
  <2>1. DavOK' /\ \A d \in Cals, u \in Uids : Has(d, u)' <=> Has(d, u)
    BY <1>4, <1>7, TitledDav
  <2>2. \A d \in Cals, u \in kept' : Has(d, u) => Has(d, u)'
    BY <1>1, <1>4, <2>1 DEF GhostOK
  <2>3. \A d \in Cals, u \in kept' : Held("web", d, u)' => row'["web"][d][u].of = d
    BY <1>1, <1>4 DEF KeptOK, RowsOK, Misplaced, Held
  <2>4. \A s \in Threads : job'[s].op = "move" => job'[s] = job[s]
    BY <1>6 DEF Actors
  <2>5. KeptOK'
    BY <1>1, <1>4, <2>2, <2>3, <2>4, KeptFrame
  <2> QED BY <1>1, <1>4, <1>6, <1>7, <2>1, <2>5, ServerRequest DEF GhostOK
<1>8. CASE UNCHANGED <<dav, stir, mirror>>
  <2>1. UNCHANGED <<dav, cal, row, bell, ghosts>>
    BY <1>1, <1>8 DEF ghosts
  <2> QED BY <1>6, <2>1, QuietRequest
<1> QED BY <1>2, <1>5, <1>7, <1>8

\* A collection goes, and with it whatever was in it, which is kept no more.
LEMMA RemovedKept ==
  ASSUME JobsOK, DavOK, GhostOK, KeptOK, NEW c \in Cals, Removed(c), row' = row,
         \A s \in Threads : job'[s].op = "move" => job'[s] = job[s]
  PROVE  DavOK' /\ KeptOK' /\ kept' \subseteq Uids
<1>1. dav' = [dav EXCEPT ![c] = None] /\ kept' = {u \in kept : ~Has(c, u)}
  BY DEF Removed
<1>2. DavOK' /\ \A d \in Cals, u \in Uids : Has(d, u)' <=> d # c /\ Has(d, u)
  BY <1>1, RemovedDav
<1>3. kept' \subseteq kept /\ kept' \subseteq Uids
  BY <1>1 DEF GhostOK
<1>4. \A d \in Cals, u \in kept' : Has(d, u) => Has(d, u)'
  BY <1>1, <1>2, <1>3
<1>5. \A d \in Cals, u \in kept' : Held("web", d, u)' => row'["web"][d][u].of = d
  BY <1>3 DEF KeptOK, RowsOK, Misplaced, Held
<1>6. KeptOK'
  BY <1>3, <1>4, <1>5, KeptFrame
<1> QED BY <1>2, <1>3, <1>6

\* A collection is deleted on the server.
LEMMA RemoveStep ==
  ASSUME IInv, NEW t \in Threads, RemoveCalendar(t)
  PROVE  IInv'
<1>1. /\ job[t].op = "unmake" /\ Goes(t, "store")
      /\ UNCHANGED <<cal, row, bell>>
  BY DEF RemoveCalendar, Does
<1>2. \/ Removed(job[t].cal) /\ ServerStirs
      \/ UNCHANGED <<dav, ghosts>>
  BY DEF RemoveCalendar
<1>3. job[t].op \in WriteOps /\ t \in Actors /\ "store" \in Places
  BY <1>1 DEF WriteOps, Actors, Places
<1>4. JobsOK /\ DavOK /\ GhostOK /\ KeptOK
  BY Parts
<1>5. PICK c \in Cals : c = job[t].cal
  BY <1>3, <1>4, IsWrite DEF WriteJobs
<1>6. /\ JobsOK'
      /\ \A s \in Actors \ {t} : job'[s] = job[s]
      /\ job'[t].op # "move" /\ job'[t].op # "sync"
  BY <1>1, <1>3, <1>4, GoesOrStops
<1>7. CASE Removed(c) /\ ServerStirs
  <2>1. \A s \in Threads : job'[s].op = "move" => job'[s] = job[s]
    BY <1>6 DEF Actors
  <2>2. row' = row
    BY <1>1
  <2>3. DavOK' /\ KeptOK' /\ kept' \subseteq Uids
    BY <1>4, <1>7, <2>1, <2>2, RemovedKept
  <2> QED BY <1>1, <1>6, <1>7, <2>3, ServerRequest
<1>8. CASE UNCHANGED <<dav, ghosts>>
  <2>1. UNCHANGED <<dav, cal, row, bell, ghosts>>
    BY <1>1, <1>8
  <2> QED BY <1>6, <2>1, QuietRequest
<1> QED BY <1>2, <1>5, <1>7, <1>8

-----------------------------------------------------------------------------
(* Requests in the calendar cache *)

\* It changes the calendar cache.
LEMMA CacheRequest ==
  ASSUME IInv, NEW t \in Threads, dav' = dav, UNCHANGED bell, CacheStirs(t, "web"), kept' \subseteq kept,
         JobsOK', \A s \in Actors \ {t} : job'[s] = job[s],
         job'[t].op \notin {"sync", "move"},
         CalOK', RowOK',
         \A k \in Caches \ {"web"} : cal'[k] = cal[k],
         \A k \in Caches \ {"web"} : row'[k] = row[k],
         \A c \in Cals, u \in kept' : Held("web", c, u)' => row'["web"][c][u].of = c
  PROVE  IInv'
<1>1. JobsOK /\ DavOK /\ GhostOK /\ KeptOK /\ MirrorOK
  BY Parts
<1>2. RingOK' /\ BellOK'
  BY RequestRest
<1>3. MirrorOK' /\ mirror' \subseteq Caches
  BY <1>1, CacheMirror
<1>4. DavOK' /\ GhostOK'
  BY <1>1, <1>3 DEF DavOK, GhostOK
<1>5. \A c \in Cals, u \in kept' : Has(c, u) => Has(c, u)'
  BY DEF Has, Listed
<1>6. \A s \in Threads : job'[s].op = "move" => job'[s] = job[s]
  BY DEF Actors
<1>7. KeptOK'
  BY <1>1, <1>5, <1>6, KeptFrame
<1> QED BY <1>2, <1>3, <1>4, <1>7 DEF IInv, TypeOK

\* and then it ends.
LEMMA LastStep ==
  ASSUME IInv, NEW t \in Threads, dav' = dav, UNCHANGED bell, CacheStirs(t, "web"), kept' \subseteq kept,
         Stop(t) \/ (job' = job /\ job[t] = Idle),
         CalOK', RowOK',
         \A k \in Caches \ {"web"} : cal'[k] = cal[k],
         \A k \in Caches \ {"web"} : row'[k] = row[k],
         \A c \in Cals, u \in kept' : Held("web", c, u)' => row'["web"][c][u].of = c
  PROVE  IInv'
<1>1. JobsOK /\ t \in Actors
  BY Parts DEF Actors
<1>2. JobsOK' /\ job'[t] = Idle /\ \A s \in Actors \ {t} : job'[s] = job[s]
  <2>1. CASE Stop(t)
    BY <1>1, <2>1, StopStep
  <2>2. CASE job' = job /\ job[t] = Idle
    BY <1>1, <2>2 DEF JobsOK, Fits, Whole
  <2> QED BY <2>1, <2>2
<1>3. job'[t].op \notin {"sync", "move"}
  BY <1>2, IsIdle
<1> QED BY <1>2, <1>3, CacheRequest

\* Rows stay, and those of kept events are where they were.
LEMMA RowsStay ==
  ASSUME IInv, row' = row, kept' \subseteq kept
  PROVE  RowOK' /\ (\A k \in Caches \ {"web"} : row'[k] = row[k])
           /\ \A c \in Cals, u \in kept' : Held("web", c, u)' => row'["web"][c][u].of = c
<1>1. RowOK /\ KeptOK
  BY Parts
<1> QED BY <1>1 DEF RowOK, KeptOK, RowsOK, Misplaced, Held

\* Calendars of the other cache stay as they are.
LEMMA CalsStay ==
  ASSUME IInv, cal' = cal
  PROVE  CalOK' /\ \A k \in Caches \ {"web"} : cal'[k] = cal[k]
<1>1. CalOK
  BY Parts
<1> QED BY <1>1 DEF CalOK

\* A request stores the row of its event.
LEMMA StoreStep ==
  ASSUME IInv, NEW t \in Threads, StoreEvent(t)
  PROVE  IInv'
<1> DEFINE of == IF job[t].op = "edit" THEN job[t].cal ELSE job[t].to
<1>1. /\ job[t].op \in {"put", "edit", "move"}
      /\ row' = IF Shown("web", job[t].to)
                  THEN [row EXCEPT !["web"][job[t].to][job[t].uid] = Row(job[t].text, TRUE, of)] ELSE row
      /\ kept' = IF of = job[t].to THEN kept ELSE kept \ {job[t].uid}
  BY DEF StoreEvent, Does
<1>2. dav' = dav /\ cal' = cal /\ UNCHANGED bell /\ CacheStirs(t, "web") /\ Stop(t)
  BY DEF StoreEvent
<1>3. kept' \subseteq kept
  BY <1>1
<1>4. job[t] \in WriteJobs /\ Whole(job[t])
  <2>1. job[t].op \in WriteOps /\ t \in Actors
    BY <1>1 DEF WriteOps, Actors
  <2> QED BY <2>1, Parts, IsWrite
<1>5. PICK u \in Uids, c \in Cals, to \in Cals, text \in Texts :
        u = job[t].uid /\ c = of /\ to = job[t].to /\ text = job[t].text
  <2>1. of \in Cals
    BY <1>4 DEF WriteJobs
  <2>2. job[t].uid \in Uids /\ job[t].to \in Cals /\ job[t].text \in Texts
    BY <1>1, <1>4 DEF WriteJobs, Whole
  <2> QED BY <2>1, <2>2
<1>6. /\ row' = IF Shown("web", to) THEN [row EXCEPT !["web"][to][u] = Row(text, TRUE, c)] ELSE row
      /\ kept' = IF c = to THEN kept ELSE kept \ {u}
  BY <1>1, <1>5
<1> HIDE DEF of
<1>7. CalOK' /\ \A k \in Caches \ {"web"} : cal'[k] = cal[k]
  BY <1>2, CalsStay
<1>8. CASE Shown("web", to)
  <2>1. Row(text, TRUE, c) \in EventRows /\ Row(text, TRUE, c).of = c
    <3>1. \A full \in BOOLEAN : Row(text, full, c) \in EventRows /\ Row(text, full, c).of = c
      BY RowType
    <3> QED BY <3>1
  <2>2. PICK r \in EventRows \union {None} : r = Row(text, TRUE, c) /\ r.of = c
    BY <2>1
  <2>4. row' = [row EXCEPT !["web"][to][u] = r] /\ RowOK /\ "web" \in Caches
    BY <1>6, <1>8, <2>2, Parts, CachesAre
  <2>3. /\ RowOK'
        /\ \A l \in Caches, d \in Cals, v \in Uids :
              row'[l][d][v] = IF l = "web" /\ d = to /\ v = u THEN r ELSE row[l][d][v]
        /\ \A l \in Caches \ {"web"} : row'[l] = row[l]
    <3>1. SetsRow("web", to, u, r)
      BY <2>4 DEF SetsRow
    <3> QED BY <2>4, <3>1, OneRow
  <2>5. ASSUME NEW d \in Cals, NEW v \in kept', Held("web", d, v)'
        PROVE  row'["web"][d][v].of = d
    <3>1. v \in Uids /\ v \in kept
      BY <1>3, Parts DEF GhostOK
    <3>2. CASE d = to /\ v = u
      <4>1. c = to
        BY <1>6, <3>2
      <4>2. row'["web"][d][v] = r
        BY <2>3, <2>4, <3>1, <3>2
      <4> QED BY <2>2, <3>2, <4>1, <4>2
    <3>3. CASE ~(d = to /\ v = u)
      <4>1. row'["web"][d][v] = row["web"][d][v]
        BY <2>3, <3>1, <3>3, CachesAre
      <4>2. KeptOK
        BY Parts
      <4> QED BY <2>5, <3>1, <4>1, <4>2 DEF KeptOK, RowsOK, Misplaced, Held
    <3> QED BY <3>2, <3>3
  <2> QED BY <1>2, <1>3, <1>7, <2>3, <2>5, LastStep
<1>9. CASE ~Shown("web", to)
  BY <1>2, <1>3, <1>6, <1>7, <1>9, RowsStay, LastStep
<1> QED BY <1>8, <1>9

\* One deletes the row.
LEMMA ForgetStep ==
  ASSUME IInv, NEW t \in Threads, ForgetEvent(t)
  PROVE  IInv'
<1>1. /\ job[t].op = "delete" /\ row' = [row EXCEPT !["web"][job[t].to][job[t].uid] = None]
      /\ dav' = dav /\ cal' = cal /\ UNCHANGED bell /\ CacheStirs(t, "web") /\ Stop(t) /\ kept' = kept
  BY DEF ForgetEvent, Does
<1>2. job[t].op \in WriteOps /\ t \in Actors
  BY <1>1 DEF WriteOps, Actors
<1>3. PICK to \in Cals, u \in Uids : to = job[t].to /\ u = job[t].uid
  BY <1>1, <1>2, Parts, IsWrite DEF WriteJobs, Whole
<1>4. SetsRow("web", to, u, None)
  BY <1>1, <1>3 DEF SetsRow
<1>5. RowOK /\ KeptOK /\ GhostOK /\ "web" \in Caches
  BY Parts, CachesAre
<1>6. /\ RowOK'
      /\ \A l \in Caches, d \in Cals, v \in Uids :
              row'[l][d][v] = IF l = "web" /\ d = to /\ v = u THEN None ELSE row[l][d][v]
      /\ \A l \in Caches \ {"web"} : row'[l] = row[l]
  BY <1>4, <1>5, OneRow
<1>7. \A d \in Cals, v \in kept' : Held("web", d, v)' => row'["web"][d][v].of = d
  BY <1>1, <1>5, <1>6 DEF KeptOK, RowsOK, Misplaced, Held, GhostOK
<1>8. CalOK' /\ \A k \in Caches \ {"web"} : cal'[k] = cal[k]
  BY <1>1, CalsStay
<1> QED BY <1>1, <1>6, <1>7, <1>8, LastStep

\* METHOD:CANCEL
LEMMA CancelStep ==
  ASSUME IInv, NEW t \in Threads, IcsCancel(t)
  PROVE  IInv'
<1>1. PICK to \in Cals, u \in Uids : Held("web", to, u) /\ row' = [row EXCEPT !["web"][to][u].live = FALSE]
  BY DEF IcsCancel
<1>2. dav' = dav /\ cal' = cal /\ job' = job /\ job[t] = Idle /\ UNCHANGED bell /\ CacheStirs(t, "web") /\ kept' = kept
  BY DEF IcsCancel, Ready
<1>3. RowOK /\ KeptOK /\ GhostOK /\ "web" \in Caches
  BY Parts, CachesAre
<1>4. PICK old \in EventRows : old = row["web"][to][u]
  BY <1>1, <1>3, HeldRow
<1>5. PICK r \in EventRows : r = [old EXCEPT !.live = FALSE] /\ r.of = old.of
  <2>1. [old EXCEPT !.live = FALSE] \in EventRows
    BY DEF EventRows
  <2>2. [old EXCEPT !.live = FALSE].of = old.of
    BY DEF EventRows
  <2> QED BY <2>1, <2>2
<1>6. row' = [row EXCEPT !["web"][to][u] = [row["web"][to][u] EXCEPT !.live = FALSE]]
  BY <1>1
<1>7. SetsRow("web", to, u, r)
  BY <1>4, <1>5, <1>6 DEF SetsRow
<1>8. /\ RowOK'
      /\ \A l \in Caches, d \in Cals, v \in Uids :
              row'[l][d][v] = IF l = "web" /\ d = to /\ v = u THEN r ELSE row[l][d][v]
      /\ \A l \in Caches \ {"web"} : row'[l] = row[l]
  BY <1>3, <1>7, OneRow
<1>9. ASSUME NEW d \in Cals, NEW v \in kept', Held("web", d, v)'
      PROVE  row'["web"][d][v].of = d
  <2>1. v \in kept /\ v \in Uids
    BY <1>2, <1>3 DEF GhostOK
  <2>2. Held("web", d, v) /\ row'["web"][d][v].of = row["web"][d][v].of
    <3>1. CASE d = to /\ v = u
      BY <1>1, <1>3, <1>4, <1>5, <1>8, <3>1
    <3>2. CASE ~(d = to /\ v = u)
      BY <1>3, <1>8, <1>9, <2>1, <3>2 DEF Held
    <3> QED BY <3>1, <3>2
  <2> QED BY <1>3, <2>1, <2>2 DEF KeptOK, RowsOK, Misplaced
<1>10. CalOK' /\ \A k \in Caches \ {"web"} : cal'[k] = cal[k]
  BY <1>2, CalsStay
<1>11. kept' \subseteq kept
  BY <1>2
<1>12. \A d \in Cals, v \in kept' : Held("web", d, v)' => row'["web"][d][v].of = d
  BY <1>9
<1> QED BY <1>2, <1>8, <1>10, <1>11, <1>12, LastStep

\* METHOD:REPLY: rows of the event get a text, in the calendars they are in.
LEMMA ReplyStep ==
  ASSUME IInv, NEW t \in Threads, ProcessReply(t)
  PROVE  IInv'
<1>1. PICK c \in Cals, u \in Uids, text \in Texts :
        /\ Held("web", c, u)
        /\ row' = [row EXCEPT !["web"] = [d \in Cals |->
                    IF Held("web", d, u) THEN [row["web"][d] EXCEPT ![u].text = text] ELSE row["web"][d]]]
        /\ Rewrites(t, "reply", "replace", u, c, c, text)
  BY DEF ProcessReply
<1>2. CacheStirs(t, "web") /\ UNCHANGED <<dav, cal, bell, kept>>
  BY DEF ProcessReply
<1>3. RowOK /\ KeptOK /\ GhostOK /\ JobsOK /\ "web" \in Caches
  BY Parts, CachesAre
<1>4. PICK of \in Cals, full \in BOOLEAN : of = row["web"][c][u].of /\ full = row["web"][c][u].full
  BY <1>1, <1>3, HeldRow
<1>5. Begins(t, Write("reply", "replace", u, of, c, full, text))
  BY <1>1, <1>4 DEF Rewrites
<1>6. "reply" \in WriteOps /\ "replace" \in Places
  BY DEF WriteOps, Places
<1>7. /\ JobsOK'
      /\ job'[t] = [op |-> "reply", at |-> "replace", uid |-> u, cal |-> of, to |-> c, full |-> full, text |-> text]
      /\ \A s \in Actors \ {t} : job'[s] = job[s]
  BY <1>3, <1>5, <1>6, WriteBegins
<1>8. job'[t].op \notin {"sync", "move"}
  BY <1>7
<1> DEFINE rs == [d \in Cals |-> IF Held("web", d, u) THEN [row["web"][d] EXCEPT ![u].text = text] ELSE row["web"][d]]
<1>9. ASSUME NEW d \in Cals
      PROVE  /\ rs[d] \in [Uids -> EventRows \union {None}]
             /\ \A v \in Uids : rs[d][v] # None => row["web"][d][v] # None /\ rs[d][v].of = row["web"][d][v].of
  <2>1. row["web"][d] \in [Uids -> EventRows \union {None}]
    BY <1>3 DEF RowOK
  <2>2. CASE Held("web", d, u)
    <3>1. PICK old \in EventRows : old = row["web"][d][u]
      BY <1>3, <2>2, HeldRow
    <3>2. PICK r \in EventRows : r = [old EXCEPT !.text = text] /\ r.of = old.of
      <4>1. [old EXCEPT !.text = text] = [text |-> text, full |-> old.full, of |-> old.of, live |-> old.live]
        BY DEF EventRows
      <4> QED BY <4>1 DEF EventRows
    <3>3. rs[d] = [row["web"][d] EXCEPT ![u] = [row["web"][d][u] EXCEPT !.text = text]]
      BY <2>2
    <3>4. rs[d] = [row["web"][d] EXCEPT ![u] = r]
      BY <3>1, <3>2, <3>3
    <3>5. rs[d] \in [Uids -> EventRows \union {None}]
      BY <2>1, <3>4
    <3>6. \A v \in Uids : rs[d][v] = IF v = u THEN r ELSE row["web"][d][v]
      BY <2>1, <3>4
    <3> HIDE DEF rs
    <3>7. \A v \in Uids : rs[d][v] # None => row["web"][d][v] # None /\ rs[d][v].of = row["web"][d][v].of
      BY <2>2, <3>1, <3>2, <3>6 DEF Held
    <3> QED BY <3>5, <3>7
  <2>3. CASE ~Held("web", d, u)
    BY <2>1, <2>3
  <2> QED BY <2>2, <2>3
<1>10. row' = [row EXCEPT !["web"] = rs]
  BY <1>1
<1>11. rs \in [Cals -> [Uids -> EventRows \union {None}]]
  <2>1. \A d \in Cals : rs[d] \in [Uids -> EventRows \union {None}]
    BY <1>9
  <2>2. rs = [d \in Cals |-> rs[d]]
    OBVIOUS
  <2> HIDE DEF rs
  <2> QED BY <2>1, <2>2
<1> HIDE DEF rs
<1>12. RowOK' /\ row'["web"] = rs /\ \A k \in Caches \ {"web"} : row'[k] = row[k]
  BY <1>3, <1>10, <1>11 DEF RowOK
<1>13. ASSUME NEW d \in Cals, NEW v \in kept', Held("web", d, v)'
       PROVE  row'["web"][d][v].of = d
  <2>1. v \in kept /\ v \in Uids
    BY <1>2, <1>3 DEF GhostOK
  <2>2. rs[d][v] # None
    BY <1>12, <1>13 DEF Held
  <2>3. row["web"][d][v] # None /\ rs[d][v].of = row["web"][d][v].of
    BY <1>9, <2>1, <2>2
  <2> QED BY <1>3, <1>12, <2>1, <2>3 DEF KeptOK, RowsOK, Misplaced, Held
<1>14. CalOK' /\ \A k \in Caches \ {"web"} : cal'[k] = cal[k]
  BY <1>2, CalsStay
<1>15. dav' = dav /\ UNCHANGED bell /\ kept' \subseteq kept
  BY <1>2
<1>16. \A d \in Cals, v \in kept' : Held("web", d, v)' => row'["web"][d][v].of = d
  BY <1>13
<1> QED BY <1>2, <1>7, <1>8, <1>12, <1>14, <1>15, <1>16, CacheRequest

\* A calendar row gets a title.
LEMMA RetitledCal ==
  ASSUME CalOK, NEW c \in Cals, NEW text \in Texts, Shown("web", c), Retitled(c, text)
  PROVE  CalOK' /\ \A k \in Caches \ {"web"} : cal'[k] = cal[k]
<1>1. PICK old \in CalendarRows : old = cal["web"][c]
  BY CachesAre DEF CalOK, Shown
<1>2. text.n \in Nat
  BY CalendarAssumption DEF Texts
<1>3. PICK r \in CalendarRows : r = [old EXCEPT !.title = text.n]
  BY <1>2 DEF CalendarRows
<1>4. cal' = [cal EXCEPT !["web"][c] = [cal["web"][c] EXCEPT !.title = text.n]]
  BY DEF Retitled
<1>5. SetsCalendar("web", c, r)
  BY <1>1, <1>3, <1>4 DEF SetsCalendar
<1>6. "web" \in Caches
  BY CachesAre
<1> QED BY <1>5, <1>6, OneCalendarRow

\* One stores the row of a new calendar.
LEMMA StoreCalendarStep ==
  ASSUME IInv, NEW t \in Threads, StoreCalendar(t)
  PROVE  IInv'
<1>1. /\ job[t].op = "make"
      /\ dav' = dav /\ row' = row /\ UNCHANGED bell /\ CacheStirs(t, "web") /\ Stop(t) /\ kept' = kept
  BY DEF StoreCalendar, Does
<1>2. PICK c \in Cals : c = job[t].cal
  <2>1. job[t].op \in WriteOps /\ t \in Actors
    BY <1>1 DEF WriteOps, Actors
  <2> QED BY <2>1, Parts, IsWrite DEF WriteJobs
<1>3. cal' = IF Shown("web", c) THEN cal
             ELSE [cal EXCEPT !["web"][c] = [own |-> TRUE, title |-> 0, default |-> FALSE]]
  BY <1>2 DEF StoreCalendar
<1>4. CalOK' /\ \A k \in Caches \ {"web"} : cal'[k] = cal[k]
  <2>1. CASE Shown("web", c)
    BY <1>3, <2>1, CalsStay
  <2>2. CASE ~Shown("web", c)
    <3>1. PICK r \in CalendarRows : r = [own |-> TRUE, title |-> 0, default |-> FALSE]
      BY DEF CalendarRows
    <3>2. SetsCalendar("web", c, r)
      BY <1>3, <2>2, <3>1 DEF SetsCalendar
    <3>3. CalOK /\ "web" \in Caches
      BY Parts, CachesAre
    <3> QED BY <3>2, <3>3, OneCalendarRow
  <2> QED BY <2>1, <2>2
<1> QED BY <1>1, <1>4, RowsStay, LastStep

\* One stores a new title.
LEMMA StoreTitleStep ==
  ASSUME IInv, NEW t \in Threads, StoreTitle(t)
  PROVE  IInv'
<1>1. /\ job[t].op = "retitle"
      /\ dav' = dav /\ row' = row /\ UNCHANGED bell /\ CacheStirs(t, "web") /\ Stop(t) /\ kept' = kept
  BY DEF StoreTitle, Does
<1>2. PICK c \in Cals, text \in Texts : c = job[t].cal /\ text = job[t].text
  <2>1. job[t].op \in WriteOps /\ t \in Actors
    BY <1>1 DEF WriteOps, Actors
  <2> QED BY <1>1, <2>1, Parts, IsWrite DEF WriteJobs, Whole
<1>3. IF Shown("web", c) THEN Retitled(c, text) ELSE cal' = cal
  BY <1>2 DEF StoreTitle
<1>4. CalOK' /\ \A k \in Caches \ {"web"} : cal'[k] = cal[k]
  <2>1. CASE Shown("web", c)
    BY <1>3, <2>1, Parts, RetitledCal
  <2>2. CASE ~Shown("web", c)
    BY <1>3, <2>2, CalsStay
  <2> QED BY <2>1, <2>2
<1> QED BY <1>1, <1>4, RowsStay, LastStep

\* A tool or the REST API stores a title before it tells the server.
LEMMA TellStep ==
  ASSUME IInv, NEW t \in Threads, McpUpdateCalendar(t)
  PROVE  IInv'
<1>1. PICK c \in Cals, text \in Texts :
        Shown("web", c) /\ Retitled(c, text) /\ Begins(t, Write("tell", "props", None, c, c, TRUE, text))
  BY DEF McpUpdateCalendar, ApiUpdateCalendar
<1>2. dav' = dav /\ row' = row /\ UNCHANGED bell /\ CacheStirs(t, "web") /\ kept' = kept
  BY DEF McpUpdateCalendar, ApiUpdateCalendar
<1>3. CalOK' /\ \A k \in Caches \ {"web"} : cal'[k] = cal[k]
  BY <1>1, Parts, RetitledCal
<1>4. "tell" \in WriteOps /\ "props" \in Places /\ JobsOK
  BY Parts DEF WriteOps, Places
<1>5. /\ JobsOK'
      /\ job'[t] = [op |-> "tell", at |-> "props", uid |-> None, cal |-> c, to |-> c, full |-> TRUE, text |-> text]
      /\ \A s \in Actors \ {t} : job'[s] = job[s]
  BY <1>1, <1>4, WriteBegins
<1>6. job'[t].op \notin {"sync", "move"}
  BY <1>5
<1>7. kept' \subseteq kept
  BY <1>2
<1> QED BY <1>2, <1>3, <1>5, <1>6, <1>7, RowsStay, CacheRequest

\* Calendars are dropped from the calendar cache.
LEMMA DropsStep ==
  ASSUME IInv, NEW t \in Threads, NEW cs, Dropped("web", cs), dav' = dav, UNCHANGED bell, CacheStirs(t, "web"),
         kept' = kept, Stop(t) \/ (job' = job /\ job[t] = Idle)
  PROVE  IInv'
<1>1. CalOK /\ RowOK /\ GhostOK /\ KeptOK /\ "web" \in Caches
  BY Parts, CachesAre
<1>2. /\ CalOK' /\ RowOK'
      /\ \A l \in Caches \ {"web"} : row'[l] = row[l] /\ cal'[l] = cal[l]
      /\ \A c \in Cals, u \in Uids : row'["web"][c][u] \in {None, row["web"][c][u]}
  BY <1>1, DroppedCache
<1>3. \A c \in Cals, u \in kept' : Held("web", c, u)' => row'["web"][c][u].of = c
  BY <1>1, <1>2 DEF Held, KeptOK, RowsOK, Misplaced, GhostOK
<1> QED BY <1>2, <1>3, LastStep

\* One deletes a calendar from the cache, with its events.
LEMMA ForgetCalendarStep ==
  ASSUME IInv, NEW t \in Threads, ForgetCalendar(t) \/ McpDeleteCalendar(t)
  PROVE  IInv'
<1>1. CASE ForgetCalendar(t)
  <2>1. Dropped("web", {job[t].cal}) /\ dav' = dav /\ UNCHANGED bell /\ CacheStirs(t, "web") /\ kept' = kept /\ Stop(t)
    BY <1>1 DEF ForgetCalendar
  <2> QED BY <2>1, DropsStep
<1>2. CASE McpDeleteCalendar(t)
  <2>1. PICK c \in Cals : Dropped("web", {c})
    BY <1>2 DEF McpDeleteCalendar, ApiDeleteCalendar
  <2>2. dav' = dav /\ UNCHANGED bell /\ CacheStirs(t, "web") /\ kept' = kept /\ job' = job /\ job[t] = Idle
    BY <1>2 DEF McpDeleteCalendar, ApiDeleteCalendar, Ready
  <2> QED BY <2>1, <2>2, DropsStep
<1> QED BY <1>1, <1>2

-----------------------------------------------------------------------------
(* What others do *)

\* Nobody's job changes.
LEMMA SameJobs ==
  ASSUME JobsOK, job' = job
  PROVE  JobsOK'
BY DEF JobsOK, Fits, Whole

\* A cache is lost and made anew.
LEMMA ResetStep ==
  ASSUME IInv, NEW k \in Caches, ResetCache(k)
  PROVE  IInv'
<1>1. /\ Dropped(k, Cals) /\ dav' = dav /\ job' = job /\ UNCHANGED bell /\ kept' = kept
      /\ stir' = stir \union On(k) /\ mirror' = mirror \ {k}
  BY DEF ResetCache
<1>2. JobsOK /\ DavOK /\ CalOK /\ RowOK /\ BellOK /\ GhostOK /\ RingOK /\ KeptOK /\ MirrorOK
  BY Parts
<1>3. /\ CalOK' /\ RowOK'
      /\ \A l \in Caches \ {k} : row'[l] = row[l] /\ cal'[l] = cal[l]
      /\ \A c \in Cals, u \in Uids : row'[k][c][u] \in {None, row[k][c][u]}
  BY <1>1, <1>2, DroppedCache
<1>4. \A c \in Cals, u \in Uids : row'["web"][c][u] \in {None, row["web"][c][u]}
  BY <1>3, CachesAre
<1>5. \A c \in Cals, u \in kept' : Held("web", c, u)' => row'["web"][c][u].of = c
  BY <1>1, <1>2, <1>4 DEF Held, KeptOK, RowsOK, Misplaced, GhostOK
<1>6. \A c \in Cals, u \in kept' : Has(c, u) => Has(c, u)'
  BY <1>1 DEF Has, Listed
<1>7. KeptOK'
  BY <1>1, <1>2, <1>5, <1>6, KeptFrame
<1>8. \A l \in mirror' : cal'[l] = cal[l] /\ row'[l] = row[l]
  BY <1>1, <1>2, <1>3 DEF GhostOK
<1>9. ASSUME NEW s \in Actors
      PROVE s \in stir' \/ (job'[s] = job[s] /\ cal'[CacheOf(s)] = cal[CacheOf(s)] /\ row'[CacheOf(s)] = row[CacheOf(s)])
  <2>1. CASE CacheOf(s) = k
    BY <1>1, <2>1 DEF On
  <2>2. CASE CacheOf(s) # k
    <3>1. CacheOf(s) \in Caches \ {k}
      BY <2>2 DEF CacheOf, Caches
    <3> QED BY <1>1, <1>3, <3>1
  <2> QED BY <2>1, <2>2
<1>10. stir \subseteq stir' /\ mirror' \subseteq mirror
  BY <1>1
<1>11. MirrorOK'
  BY <1>1, <1>2, <1>8, <1>9, <1>10, MirrorFrame
<1>12. RingOK' /\ BellOK'
  BY <1>1, <1>2, RingFrame
<1>13. JobsOK' /\ DavOK' /\ GhostOK'
  BY <1>1, <1>2, SameJobs DEF DavOK, GhostOK
<1> QED BY <1>3, <1>7, <1>11, <1>12, <1>13 DEF IInv, TypeOK

\* Another client changes an event on the server.
LEMMA ElsewhereStep ==
  ASSUME IInv, Elsewhere
  PROVE  IInv'
<1>1. ServerStirs /\ UNCHANGED <<cal, row, job, bell>>
  BY DEF Elsewhere
<1>2. JobsOK /\ DavOK /\ CalOK /\ RowOK /\ BellOK /\ GhostOK /\ RingOK /\ KeptOK
  BY Parts
<1>3. RingOK' /\ BellOK'
  BY <1>1, <1>2, RingFrame
<1>4. JobsOK' /\ CalOK' /\ RowOK'
  BY <1>1, <1>2, SameJobs DEF CalOK, RowOK
<1>5. MirrorOK' /\ mirror' \subseteq Caches
  BY <1>1, ServerMirror
<1>6. DavOK' /\ KeptOK' /\ kept' \subseteq Uids
  <2>1. ASSUME DavOK', kept' \subseteq kept, \A c \in Cals, u \in kept' : Has(c, u) => Has(c, u)'
        PROVE  KeptOK' /\ kept' \subseteq Uids
    <3>1. \A c \in Cals, u \in kept' : Held("web", c, u)' => row'["web"][c][u].of = c
      BY <1>1, <1>2, <2>1 DEF KeptOK, RowsOK, Misplaced, Held
    <3>2. KeptOK'
      BY <1>1, <1>2, <2>1, <3>1, KeptFrame
    <3> QED BY <1>2, <2>1, <3>2 DEF GhostOK
  <2>2. CASE \E c \in Cals, u \in Uids, text \in Texts : Listed(c) /\ Stored(c, u, text) /\ kept' = kept
    <3>1. PICK c \in Cals, u \in Uids, text \in Texts : Listed(c) /\ Stored(c, u, text) /\ kept' = kept
      BY <2>2
    <3>2. /\ DavOK'
          /\ \A d \in Cals, v \in Uids : Has(d, v)' <=> IF d = c /\ v = u THEN text # None ELSE Has(d, v)
      BY <1>2, <3>1, StoredDav
    <3>3. \A d \in Cals, v \in kept' : Has(d, v) => Has(d, v)'
      BY <1>2, <3>1, <3>2, NoneIsNothing DEF GhostOK
    <3> QED BY <2>1, <3>1, <3>2, <3>3
  <2>3. CASE \E c \in Cals, u \in Uids : Has(c, u) /\ Stored(c, u, None) /\ kept' = kept \ {u}
    <3>1. PICK c \in Cals, u \in Uids : Has(c, u) /\ Stored(c, u, None) /\ kept' = kept \ {u}
      BY <2>3
    <3>2. Listed(c)
      BY <3>1 DEF Has
    <3>3. /\ DavOK'
          /\ \A d \in Cals, v \in Uids : Has(d, v)' <=> IF d = c /\ v = u THEN FALSE ELSE Has(d, v)
      BY <1>2, <3>1, <3>2, StoredDav
    <3>4. \A d \in Cals, v \in kept' : Has(d, v) => Has(d, v)'
      BY <1>2, <3>1, <3>3 DEF GhostOK
    <3> QED BY <2>1, <3>1, <3>3, <3>4
  <2>4. CASE \E c \in Cals : Listed(c) /\ Removed(c)
    <3>1. PICK c \in Cals : Removed(c)
      BY <2>4
    <3> QED BY <1>1, <1>2, <3>1, RemovedKept
  <2>5. CASE \E c \in Cals, text \in Texts : Listed(c) /\ dav' = [dav EXCEPT ![c].title = text.n] /\ kept' = kept
    <3>1. PICK c \in Cals, text \in Texts : Listed(c) /\ dav' = [dav EXCEPT ![c].title = text.n] /\ kept' = kept
      BY <2>5
    <3>2. DavOK' /\ \A d \in Cals, u \in Uids : Has(d, u)' <=> Has(d, u)
      BY <1>2, <3>1, TitledDav
    <3>3. \A d \in Cals, u \in kept' : Has(d, u) => Has(d, u)'
      BY <1>2, <3>1, <3>2 DEF GhostOK
    <3> QED BY <2>1, <3>1, <3>2, <3>3
  <2> QED BY <2>2, <2>3, <2>4, <2>5 DEF Elsewhere
<1> QED BY <1>3, <1>4, <1>5, <1>6 DEF IInv, TypeOK, GhostOK

-----------------------------------------------------------------------------
(* The reminder worker *)

\* It rings, marks or rests, and touches nothing else.
LEMMA WorkerRest ==
  ASSUME IInv, UNCHANGED <<dav, cal, row, ghosts>>, JobsOK', \A s \in Actors \ {Worker} : job'[s] = job[s],
         job'[Worker].op # "sync", RingOK', BellOK'
  PROVE  IInv'
<1>1. dav' = dav /\ cal' = cal /\ row' = row /\ kept' = kept /\ stir' = stir /\ mirror' = mirror
  BY DEF ghosts
<1>2. JobsOK /\ DavOK /\ CalOK /\ RowOK /\ GhostOK /\ KeptOK /\ MirrorOK /\ Worker \in Actors
  BY Parts DEF Actors
<1>3. DavOK' /\ CalOK' /\ RowOK' /\ GhostOK'
  BY <1>1, <1>2 DEF DavOK, CalOK, RowOK, GhostOK
<1>4. \A c \in Cals, u \in kept' : Has(c, u) => Has(c, u)'
  BY <1>1 DEF Has, Listed
<1>5. \A c \in Cals, u \in kept' : Held("web", c, u)' => row'["web"][c][u].of = c
  BY <1>1, <1>2 DEF KeptOK, RowsOK, Misplaced, Held
<1>6. \A s \in Threads : job'[s].op = "move" => job'[s] = job[s]
  BY CalendarAssumption DEF Actors
<1>7. KeptOK'
  BY <1>1, <1>2, <1>4, <1>5, <1>6, KeptFrame
<1>8. MirrorOK'
  BY <1>1, <1>2, NotSyncing, QuietMirror
<1> QED BY <1>3, <1>7, <1>8 DEF IInv, TypeOK

\* A round of reminders begins.
LEMMA DueStep ==
  ASSUME IInv, DueReminders
  PROVE  IInv'
<1>1. PICK due \in SUBSET (Cals \X Uids) : Begins(Worker, [op |-> "ring", at |-> "next", left |-> due, uid |-> None])
  BY DEF DueReminders
<1>2. job[Worker] = Idle /\ UNCHANGED <<dav, cal, row, ghosts>> /\ UNCHANGED bell
  BY DEF DueReminders
<1>3. JobsOK /\ RingOK /\ BellOK
  BY Parts
<1>4. /\ JobsOK'
      /\ job'[Worker] = [op |-> "ring", at |-> "next", left |-> due, uid |-> None]
      /\ \A s \in Actors \ {Worker} : job'[s] = job[s]
  BY <1>1, <1>3, RingStep
<1>5. job[Worker].op # "ring" /\ job'[Worker].op # "sync"
  BY <1>2, <1>4, IsIdle
<1>6. RingOK' /\ BellOK'
  BY <1>2, <1>3, <1>5, RingFrame
<1> QED BY <1>2, <1>4, <1>5, <1>6, WorkerRest

\* The parts of a turn under way.
LEMMA RingParts ==
  ASSUME JobsOK, job[Worker].op = "ring"
  PROVE  /\ job[Worker] = [op |-> "ring", at |-> job[Worker].at, left |-> job[Worker].left, uid |-> job[Worker].uid]
         /\ job[Worker].left \in SUBSET (Cals \X Uids)
         /\ job[Worker].uid \in Uids \union {None}
         /\ job[Worker].at = "mark" => job[Worker].uid \in Uids
<1>1. Worker \in Actors
  BY DEF Actors
<1>2. job[Worker] \in RingJobs /\ Whole(job[Worker])
  BY <1>1, IsRing
<1> QED BY <1>2 DEF RingJobs, Whole

\* It goes to another place, with another reminder.
Going(j, at, u) == [j EXCEPT !.at = at, !.uid = u]

\* The worker goes on with its round.
LEMMA RingGoes ==
  ASSUME NEW j, NEW old, NEW left, NEW v, NEW at, NEW u, j = [op |-> "ring", at |-> old, left |-> left, uid |-> v]
  PROVE  Going(j, at, u) = [op |-> "ring", at |-> at, left |-> left, uid |-> u]
<1> DEFINE k == [op |-> "ring", at |-> at, left |-> left, uid |-> v]
<1>1. [j EXCEPT !.at = at] = k
  OBVIOUS
<1>2. [k EXCEPT !.uid = u] = [op |-> "ring", at |-> at, left |-> left, uid |-> u]
  OBVIOUS
<1>3. Going(j, at, u) = [[j EXCEPT !.at = at] EXCEPT !.uid = u]
  BY DEF Going
<1> HIDE DEF k
<1> QED BY <1>1, <1>2, <1>3

\* A reminder rings, and its mark is next.
LEMMA FireStep ==
  ASSUME IInv, FireReminder
  PROVE  IInv'
<1>1. job[Worker].op = "ring" /\ job[Worker].at = "next" /\ UNCHANGED <<dav, cal, row, ghosts>>
      /\ fired' = fired /\ breaks' = breaks
  BY DEF FireReminder, Does
<1>2. JobsOK /\ RingOK /\ BellOK
  BY Parts
<1>3. /\ job[Worker] = [op |-> "ring", at |-> "next", left |-> job[Worker].left, uid |-> job[Worker].uid]
      /\ job[Worker].left \in SUBSET (Cals \X Uids)
      /\ job[Worker].uid \in Uids \union {None}
  BY <1>1, <1>2, RingParts
<1>a. PICK x \in job[Worker].left : \E rest :
        /\ rest = [job[Worker] EXCEPT !.left = job[Worker].left \ {x}]
        /\ IF Rings(x[2])
             THEN rang' = [rang EXCEPT ![x[2]] = rang[x[2]] + 1] /\ Begins(Worker, Going(rest, "mark", x[2]))
             ELSE UNCHANGED rang /\ Begins(Worker, rest)
  BY DEF FireReminder, Going
<1>4. PICK rest :
        /\ rest = [job[Worker] EXCEPT !.left = job[Worker].left \ {x}]
        /\ IF Rings(x[2])
             THEN rang' = [rang EXCEPT ![x[2]] = rang[x[2]] + 1] /\ Begins(Worker, Going(rest, "mark", x[2]))
             ELSE UNCHANGED rang /\ Begins(Worker, rest)
  BY <1>a
<1>5. PICK u \in Uids : u = x[2]
  BY <1>3
<1>6. PICK left \in SUBSET (Cals \X Uids), v \in Uids \union {None} :
        left = job[Worker].left \ {x} /\ v = job[Worker].uid
  BY <1>3
<1>7. rest = [op |-> "ring", at |-> "next", left |-> left, uid |-> v]
  BY <1>3, <1>4, <1>6
<1>8. CASE u \notin fired
  <2>1. Rings(x[2])
    BY <1>5, <1>8 DEF Rings
  <2>2. rang' = [rang EXCEPT ![u] = rang[u] + 1]
    BY <1>4, <1>5, <2>1
  <2>3. Begins(Worker, Going(rest, "mark", u))
    BY <1>4, <1>5, <2>1
  <2>4. Begins(Worker, [op |-> "ring", at |-> "mark", left |-> left, uid |-> u])
    BY <1>7, <2>3, RingGoes
  <2>5. /\ JobsOK'
        /\ job'[Worker] = [op |-> "ring", at |-> "mark", left |-> left, uid |-> u]
        /\ \A s \in Actors \ {Worker} : job'[s] = job[s]
    BY <1>2, <2>4, RingStep
  <2>6. job'[Worker].op = "ring" /\ job'[Worker].at = "mark" /\ job'[Worker].uid = u
    BY <2>5
  <2>7. BellOK'
    BY <1>1, <1>2, <2>2 DEF BellOK
  <2>8. ASSUME NEW w \in Uids PROVE rang'[w] <= breaks' + IF w \in fired' \/ Marking(w)' THEN 1 ELSE 0
    <3>1. rang[w] <= breaks + IF w \in fired \/ Marking(w) THEN 1 ELSE 0
      BY <1>2 DEF RingOK
    <3>2. ~Marking(w)
      BY <1>1 DEF Marking
    <3>3. rang[w] \in Nat /\ breaks \in Nat
      BY <1>2 DEF BellOK
    <3>4. CASE w = u
      <4>1. Marking(w)'
        BY <2>6, <3>4 DEF Marking
      <4>2. rang'[w] = rang[w] + 1
        BY <1>2, <2>2, <3>4 DEF BellOK
      <4> QED BY <1>1, <1>8, <3>1, <3>2, <3>3, <3>4, <4>1, <4>2
    <3>5. CASE w # u
      <4>1. rang'[w] = rang[w]
        BY <1>2, <2>2, <3>5 DEF BellOK
      <4> QED BY <1>1, <3>1, <3>2, <3>3, <4>1
    <3> QED BY <3>4, <3>5
  <2>9. RingOK'
    BY <2>8 DEF RingOK
  <2>10. job'[Worker].op # "sync"
    BY <2>6
  <2> QED BY <1>1, <2>5, <2>7, <2>9, <2>10, WorkerRest
<1>9. CASE u \in fired
  <2>1. ~Rings(x[2])
    BY <1>5, <1>9 DEF Rings
  <2>2. UNCHANGED rang /\ Begins(Worker, [op |-> "ring", at |-> "next", left |-> left, uid |-> v])
    BY <1>4, <1>7, <2>1
  <2>3. /\ JobsOK'
        /\ job'[Worker] = [op |-> "ring", at |-> "next", left |-> left, uid |-> v]
        /\ \A s \in Actors \ {Worker} : job'[s] = job[s]
    BY <1>2, <2>2, RingStep
  <2>4. job'[Worker].op # "sync"
    BY <2>3
  <2>5. BellOK'
    BY <1>1, <1>2, <2>2 DEF BellOK
  <2>6. RingOK'
    <3>1. \A w \in Uids : ~Marking(w)
      BY <1>1 DEF Marking
    <3>2. ASSUME NEW w \in Uids PROVE rang'[w] <= breaks' + IF w \in fired' \/ Marking(w)' THEN 1 ELSE 0
      <4>1. rang[w] <= breaks + IF w \in fired \/ Marking(w) THEN 1 ELSE 0
        BY <1>2 DEF RingOK
      <4>2. rang[w] \in Nat /\ breaks \in Nat
        BY <1>2 DEF BellOK
      <4> QED BY <1>1, <2>2, <3>1, <4>1, <4>2
    <3> QED BY <3>2 DEF RingOK
  <2> QED BY <1>1, <2>3, <2>4, <2>5, <2>6, WorkerRest
<1> QED BY <1>8, <1>9

\* The mark is made.
LEMMA MarkStep ==
  ASSUME IInv, MarkFired
  PROVE  IInv'
<1>1. job[Worker].op = "ring" /\ job[Worker].at = "mark" /\ UNCHANGED <<dav, cal, row, ghosts>>
      /\ fired' = fired \union {job[Worker].uid} /\ rang' = rang /\ breaks' = breaks
      /\ Begins(Worker, Going(job[Worker], "next", None))
  BY DEF MarkFired, Does, Going
<1>2. JobsOK /\ RingOK /\ BellOK
  BY Parts
<1>3. PICK left \in SUBSET (Cals \X Uids), u \in Uids : job[Worker] = [op |-> "ring", at |-> "mark", left |-> left, uid |-> u]
  BY <1>1, <1>2, RingParts
<1>4. Going(job[Worker], "next", None) = [op |-> "ring", at |-> "next", left |-> left, uid |-> None]
  BY <1>3, RingGoes
<1>5. Begins(Worker, [op |-> "ring", at |-> "next", left |-> left, uid |-> None])
  BY <1>1, <1>4
<1>6. /\ JobsOK'
      /\ job'[Worker] = [op |-> "ring", at |-> "next", left |-> left, uid |-> None]
      /\ \A s \in Actors \ {Worker} : job'[s] = job[s]
  BY <1>2, <1>5, RingStep
<1>7. job'[Worker].op # "sync"
  BY <1>6
<1>8. BellOK'
  BY <1>1, <1>2 DEF BellOK
<1>9. ASSUME NEW w \in Uids PROVE rang'[w] <= breaks' + IF w \in fired' \/ Marking(w)' THEN 1 ELSE 0
  <2>1. rang[w] <= breaks + IF w \in fired \/ Marking(w) THEN 1 ELSE 0
    BY <1>2 DEF RingOK
  <2>2. rang[w] \in Nat /\ breaks \in Nat
    BY <1>2 DEF BellOK
  <2>3. w \in fired \/ Marking(w) => w \in fired'
    BY <1>1 DEF Marking
  <2> QED BY <1>1, <2>1, <2>2, <2>3
<1>10. RingOK'
  BY <1>9 DEF RingOK
<1> QED BY <1>1, <1>6, <1>7, <1>8, <1>10, WorkerRest

\* A mark that is lost, or the end of the process with it, is counted.
LEMMA BreakRing ==
  ASSUME RingOK, BellOK, rang' = rang, fired' = fired, breaks' = breaks + 1
  PROVE  RingOK' /\ BellOK'
<1>1. BellOK'
  BY DEF BellOK
<1>2. ASSUME NEW w \in Uids PROVE rang'[w] <= breaks' + IF w \in fired' \/ Marking(w)' THEN 1 ELSE 0
  <2>1. rang[w] <= breaks + IF w \in fired \/ Marking(w) THEN 1 ELSE 0
    BY DEF RingOK
  <2>2. rang[w] \in Nat /\ breaks \in Nat
    BY DEF BellOK
  <2>3. rang[w] <= breaks + 1
    BY <2>1, <2>2
  <2> QED BY <2>1, <2>2, <2>3
<1> QED BY <1>1, <1>2 DEF RingOK

\* The mark is not made.
LEMMA MarkFailsStep ==
  ASSUME IInv, MarkFails
  PROVE  IInv'
<1>1. UNCHANGED <<dav, cal, row, ghosts>> /\ Stop(Worker) /\ breaks' = breaks + 1 /\ rang' = rang /\ fired' = fired
  BY DEF MarkFails, Breaks
<1>2. JobsOK /\ RingOK /\ BellOK /\ Worker \in Actors
  BY Parts DEF Actors
<1>3. JobsOK' /\ job'[Worker] = Idle /\ \A s \in Actors \ {Worker} : job'[s] = job[s]
  BY <1>1, <1>2, StopStep
<1>4. job'[Worker].op # "sync"
  BY <1>3, IsIdle
<1>5. RingOK' /\ BellOK'
  BY <1>1, <1>2, BreakRing
<1> QED BY <1>1, <1>3, <1>4, <1>5, WorkerRest

\* The round is over.
LEMMA TurnEndsStep ==
  ASSUME IInv, TurnEnds
  PROVE  IInv'
<1>1. UNCHANGED <<dav, cal, row, ghosts>> /\ Stop(Worker) /\ UNCHANGED bell /\ job[Worker].at = "next"
  BY DEF TurnEnds, Does
<1>2. JobsOK /\ RingOK /\ BellOK /\ Worker \in Actors
  BY Parts DEF Actors
<1>3. JobsOK' /\ job'[Worker] = Idle /\ \A s \in Actors \ {Worker} : job'[s] = job[s]
  BY <1>1, <1>2, StopStep
<1>4. job'[Worker].op # "sync"
  BY <1>3, IsIdle
<1>5. rang' = rang /\ breaks' = breaks /\ fired' = fired
  BY <1>1 DEF bell
<1>6. ASSUME NEW w \in Uids PROVE rang'[w] <= breaks' + IF w \in fired' \/ Marking(w)' THEN 1 ELSE 0
  <2>1. rang[w] <= breaks + IF w \in fired \/ Marking(w) THEN 1 ELSE 0
    BY <1>2 DEF RingOK
  <2>2. rang[w] \in Nat /\ breaks \in Nat
    BY <1>2 DEF BellOK
  <2>3. ~Marking(w)
    BY <1>1 DEF Marking
  <2> QED BY <1>5, <2>1, <2>2, <2>3
<1>7. RingOK' /\ BellOK'
  BY <1>2, <1>5, <1>6 DEF RingOK, BellOK
<1> QED BY <1>1, <1>3, <1>4, <1>7, WorkerRest

\* The process ends, and with it every job.
LEMMA ProcessEndsStep ==
  ASSUME IInv, ProcessEnds
  PROVE  IInv'
<1>1. /\ job' = [t \in Actors |-> Idle] /\ breaks' = breaks + 1 /\ rang' = rang /\ fired' = fired
      /\ dav' = dav /\ cal' = cal /\ row' = row /\ kept' = kept /\ stir' = stir /\ mirror' = mirror
  BY DEF ProcessEnds, Breaks, ghosts
<1>2. JobsOK /\ DavOK /\ CalOK /\ RowOK /\ BellOK /\ GhostOK /\ RingOK /\ KeptOK /\ MirrorOK
  BY Parts
<1>3. \A t \in Actors : job'[t] = Idle
  BY <1>1
<1>4. JobsOK'
  <2>1. \A t \in Actors : Fits(t, job'[t])
    BY <1>3, IsIdle DEF Fits
  <2>2. job' = [t \in Actors |-> job'[t]]
    BY <1>1
  <2> QED BY <2>1, <2>2 DEF JobsOK, Fits, Whole
<1>5. DavOK' /\ CalOK' /\ RowOK' /\ GhostOK'
  BY <1>1, <1>2 DEF DavOK, CalOK, RowOK, GhostOK
<1>6. RingOK' /\ BellOK'
  BY <1>1, <1>2, BreakRing
<1>7. \A t \in Actors : job'[t].op = "idle"
  BY <1>3, IsIdle
<1>8. \A c \in Cals, u \in kept' : Has(c, u) => Has(c, u)'
  BY <1>1 DEF Has, Listed
<1>9. \A c \in Cals, u \in kept' : Held("web", c, u)' => row'["web"][c][u].of = c
  BY <1>1, <1>2 DEF KeptOK, RowsOK, Misplaced, Held
<1>10. \A s \in Threads : job'[s].op # "move"
  BY <1>7 DEF Actors
<1>11. KeptOK'
  BY <1>1, <1>2, <1>8, <1>9, <1>10, KeptFrame
<1>12. \A s \in Actors : Follows(s)'
  BY <1>7, NotSyncing
<1>13. MirrorOK'
  BY <1>1, <1>2, <1>12, MirrorFrame
<1> QED BY <1>4, <1>5, <1>6, <1>11, <1>13 DEF IInv, TypeOK

-----------------------------------------------------------------------------
(* The mirror *)

\* A sync keeps no event and takes none away.
LEMMA SyncRest ==
  ASSUME IInv, NEW t \in Actors, job[t].op \in {"idle", "sync"}, job'[t].op \in {"idle", "sync"}, JobsOK',
         \A s \in Actors \ {t} : job'[s] = job[s],
         UNCHANGED bell, kept' = kept, DavOK', CalOK', RowOK', mirror' \subseteq Caches,
         \A c \in Cals, u \in Uids : Has(c, u) => Has(c, u)',
         \A c \in Cals, u \in kept : Held("web", c, u)' => row'["web"][c][u].of = c,
         MirrorOK'
  PROVE  IInv'
<1>1. JobsOK /\ BellOK /\ RingOK /\ GhostOK /\ KeptOK
  BY Parts
<1>2. job'[Worker] = job[Worker] \/ job[Worker].op # "ring"
  BY DEF Actors
<1>3. RingOK' /\ BellOK'
  BY <1>1, <1>2, RingFrame
<1>4. GhostOK'
  BY <1>1 DEF GhostOK
<1>5. \A c \in Cals, u \in kept' : Has(c, u) => Has(c, u)'
  BY <1>1 DEF GhostOK
<1>6. \A c \in Cals, u \in kept' : Held("web", c, u)' => row'["web"][c][u].of = c
  OBVIOUS
<1>7. \A s \in Threads : job'[s].op = "move" => job'[s] = job[s]
  BY DEF Actors
<1>8. KeptOK'
  BY <1>1, <1>5, <1>6, <1>7, KeptFrame
<1> QED BY <1>3, <1>4, <1>8 DEF IInv, TypeOK

\* What the server has does not change while the server does not.
LEMMA HasStays ==
  ASSUME dav' = dav
  PROVE  \A c \in Cals, u \in Uids : Has(c, u) => Has(c, u)'
BY DEF Has, Listed

\* Rows of kept events stay where their hrefs are while rows stay.
LEMMA HrefsStay ==
  ASSUME IInv, row' = row
  PROVE  \A c \in Cals, u \in kept : Held("web", c, u)' => row'["web"][c][u].of = c
BY Parts DEF KeptOK, RowsOK, Misplaced, Held

\* A sync that neither the server nor a cache sees.
LEMMA QuietSync ==
  ASSUME IInv, NEW t \in Actors, job[t].op \in {"idle", "sync"}, job'[t].op \in {"idle", "sync"}, JobsOK',
         \A s \in Actors \ {t} : job'[s] = job[s],
         UNCHANGED <<dav, cal, row, bell, ghosts>>,
         Follows(t)'
  PROVE  IInv'
<1>1. dav' = dav /\ cal' = cal /\ row' = row /\ UNCHANGED bell /\ kept' = kept /\ stir' = stir /\ mirror' = mirror
  BY DEF ghosts
<1>2. DavOK /\ CalOK /\ RowOK /\ GhostOK /\ MirrorOK
  BY Parts
<1>3. MirrorOK'
  BY <1>1, <1>2, QuietMirror
<1>4. DavOK' /\ CalOK' /\ RowOK' /\ mirror' \subseteq Caches
  BY <1>1, <1>2 DEF DavOK, CalOK, RowOK, GhostOK
<1> QED BY <1>1, <1>3, <1>4, HasStays, HrefsStay, SyncRest

\* A sync starts.
LEMMA SyncStepStart ==
  ASSUME IInv, NEW t \in Actors, Sync(t)
  PROVE  IInv'
<1>1. job[t] = Idle /\ UNCHANGED <<dav, cal, row, bell, ghosts>>
  BY DEF Sync, Ready, bell, ghosts
<1>2. JobsOK' /\ job'[t].op = "sync" /\ job'[t].at = "discover" /\ \A s \in Actors \ {t} : job'[s] = job[s]
  BY Parts, SyncStarts
<1>3. Follows(t)'
  BY <1>2 DEF Follows
<1>4. job[t].op = "idle"
  BY <1>1, IsIdle
<1> QED BY <1>1, <1>2, <1>3, <1>4, QuietSync

\* One gives up on an answer that failed.
LEMMA SyncStepFails ==
  ASSUME IInv, NEW t \in Actors, SyncFails(t)
  PROVE  IInv'
<1>1. job[t].op = "sync" /\ Stop(t) /\ UNCHANGED <<dav, cal, row, bell, ghosts>>
  BY DEF SyncFails, Does, bell, ghosts
<1>2. JobsOK' /\ job'[t] = Idle /\ \A s \in Actors \ {t} : job'[s] = job[s]
  BY <1>1, Parts, StopStep
<1>3. job'[t].op = "idle" /\ Follows(t)'
  BY <1>2, IsIdle DEF Follows
<1> QED BY <1>1, <1>2, <1>3, QuietSync

\* What is known to an undisturbed sync, said of its record.
FollowsAs(t, j) ==
    /\ j.at = "make" => \A c \in Cals : ~Listed(c)
    /\ j.at \in {"next", "list", "apply"} =>
         /\ DOMAIN j.known = {c \in Cals : Listed(c)}
         /\ \A c \in DOMAIN j.known : j.known[c] = dav[c].title
         /\ j.left \subseteq DOMAIN j.known
         /\ j.good => \A c \in DOMAIN j.known \ j.left : Same(CacheOf(t), c)
    /\ j.at \in {"list", "apply"} =>
         /\ j.cur \in j.left
         /\ Shown(CacheOf(t), j.cur) /\ ~cal[CacheOf(t)][j.cur].own /\ cal[CacheOf(t)][j.cur].title = dav[j.cur].title
    /\ j.at = "apply" => j.seen = dav[j.cur].events

\* Follows says so of the job an actor has.
LEMMA FollowsIs ==
  ASSUME NEW t, NEW j, j = job[t]
  PROVE  Follows(t) <=> (j.op = "sync" /\ t \notin stir => FollowsAs(t, j))
BY DEF Follows, FollowsAs, Knows, IsAt

\* It says so after a step of the job the actor then has.
LEMMA FollowsNext ==
  ASSUME NEW t, NEW j, j = job'[t], t \notin stir' => FollowsAs(t, j)'
  PROVE  Follows(t)'
BY DEF Follows, FollowsAs, Knows, IsAt

\* It discovers what is there, and is undisturbed from then on.
LEMMA DiscoverStep ==
  ASSUME IInv, NEW t \in Actors, DiscoverCalendars(t)
  PROVE  IInv'
<1> DEFINE cs == {c \in Cals : Listed(c)}
<1>1. /\ job[t].op = "sync" /\ job[t].at = "discover" /\ UNCHANGED bell
      /\ dav' = dav /\ cal' = cal /\ row' = row /\ kept' = kept /\ mirror' = mirror
      /\ stir' = stir \ {t}
  BY DEF DiscoverCalendars, Does
<1>2. IF cs = {} THEN Goes(t, "make") ELSE Found(t, [c \in cs |-> dav[c].title])
  BY DEF DiscoverCalendars
<1>3. JobsOK /\ DavOK /\ CalOK /\ RowOK /\ GhostOK /\ MirrorOK
  BY Parts
<1>4. DavOK' /\ CalOK' /\ RowOK' /\ mirror' \subseteq Caches
  BY <1>1, <1>3 DEF DavOK, CalOK, RowOK, GhostOK
<1>5. /\ JobsOK' /\ job'[t].op = "sync"
      /\ \A s \in Actors \ {t} : job'[s] = job[s]
      /\ Follows(t)'
  <2>1. CASE cs = {}
    <3>1. Goes(t, "make")
      BY <1>2, <2>1
    <3>2. /\ JobsOK'
          /\ job'[t] = [op |-> "sync", at |-> "make", left |-> job[t].left, known |-> job[t].known, cur |-> job[t].cur,
                       seen |-> job[t].seen, first |-> job[t].first, good |-> job[t].good]
          /\ \A s \in Actors \ {t} : job'[s] = job[s]
      BY <1>1, <1>3, <3>1, SyncGoes
    <3>3. job'[t].op = "sync" /\ job'[t].at = "make"
      BY <3>2
    <3>4. \A c \in Cals : ~Listed(c)'
      BY <1>1, <2>1 DEF Listed
    <3>5. Follows(t)'
      BY <3>3, <3>4 DEF Follows
    <3> QED BY <3>2, <3>3, <3>5
  <2>2. CASE cs # {}
    <3> DEFINE known == [c \in cs |-> dav[c].title]
    <3>1. Found(t, known)
      BY <1>2, <2>2
    <3>2. known \in [cs -> Nat]
      <4>1. \A c \in cs : dav[c] \in Collections
        BY <1>3 DEF DavOK, Listed
      <4> QED BY <4>1 DEF Collections
    <3>3. cs \in SUBSET Cals
      OBVIOUS
    <3>4. DOMAIN known = cs /\ \A c \in cs : known[c] = dav[c].title
      OBVIOUS
    <3>5. PICK k0 \in [cs -> Nat] : k0 = known
      BY <3>2
    <3>6. DOMAIN k0 = cs /\ \A c \in cs : k0[c] = dav[c].title
      BY <3>4, <3>5
    <3>7. Found(t, k0)
      BY <3>1, <3>5
    <3> HIDE DEF known
    <3>8. PICK S \in SUBSET Cals : S = cs
      BY <3>3
    <3>9. /\ JobsOK'
          /\ job'[t] = [op |-> "sync", at |-> "next", left |-> S, known |-> k0, cur |-> job[t].cur,
                       seen |-> job[t].seen, first |-> job[t].first, good |-> job[t].good]
          /\ \A s \in Actors \ {t} : job'[s] = job[s]
      <4> HIDE DEF cs
      <4> QED BY <1>1, <1>3, <3>5, <3>7, <3>8, SyncFound
    <3>10. PICK j : j = job'[t]
      OBVIOUS
    <3>11. j.op = "sync" /\ j.at = "next" /\ j.left = S /\ j.known = k0
      BY <3>9, <3>10
    <3>12. FollowsAs(t, j)'
      <4>1. S = {c \in Cals : Listed(c)'}
        BY <1>1, <3>8 DEF Listed
      <4>2. DOMAIN k0 = S /\ \A c \in S : k0[c] = dav'[c].title
        BY <1>1, <3>6, <3>8
      <4> HIDE DEF cs
      <4> QED BY <3>11, <4>1, <4>2 DEF FollowsAs
    <3>13. Follows(t)'
      BY <3>10, <3>12, FollowsNext
    <3> QED BY <3>9, <3>10, <3>11, <3>13
  <2> QED BY <2>1, <2>2
<1>6. ASSUME NEW s \in Actors PROVE Follows(s)'
  <2>1. CASE s = t
    BY <1>5, <2>1
  <2>2. CASE s # t
    <3>1. Follows(s) /\ (s \in stir => s \in stir') /\ job'[s] = job[s]
      BY <1>1, <1>3, <1>5, <2>2 DEF MirrorOK
    <3> QED BY <1>1, <3>1, FollowsStay
  <2> QED BY <2>1, <2>2
<1>7. SyncMirrors'
  BY <1>1, <1>3 DEF MirrorOK, SyncMirrors, Shown, Listed, Held, Has
<1>8. MirrorOK'
  BY <1>6, <1>7 DEF MirrorOK
<1> QED BY <1>1, <1>4, <1>5, <1>8, HasStays, HrefsStay, SyncRest

\* Where it met nothing, it makes the first collection.
LEMMA MakeHomeStep ==
  ASSUME IInv, NEW t \in Actors, MakeHome(t)
  PROVE  IInv'
<1>1. /\ job[t].op = "sync" /\ job[t].at = "make" /\ dav' = Collection(Home)
      /\ Found(t, [c \in {Home} |-> 0]) /\ UNCHANGED bell
      /\ cal' = cal /\ row' = row /\ kept' = kept /\ mirror' = {}
      /\ stir' = stir \union (Actors \ {t})
  BY DEF MakeHome, Does
<1>2. JobsOK /\ DavOK /\ CalOK /\ RowOK /\ GhostOK /\ MirrorOK /\ Home \in Cals
  BY Parts, CalendarAssumption
<1>3. CalOK' /\ RowOK' /\ mirror' \subseteq Caches
  BY <1>1, <1>2 DEF CalOK, RowOK
<1>4. /\ DavOK'
      /\ \A d \in Cals : dav'[d] = IF d = Home /\ ~Listed(Home) THEN [title |-> 0, events |-> NoEvents] ELSE dav[d]
      /\ \A d \in Cals : Listed(d)' <=> d = Home \/ Listed(d)
      /\ \A d \in Cals, u \in Uids : Has(d, u)' <=> Has(d, u)
  BY <1>1, <1>2, CollectionDav
<1>5. PICK k0 \in [{Home} -> Nat] : k0 = [c \in {Home} |-> 0] /\ k0[Home] = 0 /\ DOMAIN k0 = {Home}
  <2> DEFINE f == [c \in {Home} |-> 0]
  <2>1. f \in [{Home} -> Nat]
    OBVIOUS
  <2>2. f[Home] = 0
    OBVIOUS
  <2>3. DOMAIN f = {Home}
    OBVIOUS
  <2>4. f = [c \in {Home} |-> 0]
    OBVIOUS
  <2> HIDE DEF f
  <2> QED BY <2>1, <2>2, <2>3, <2>4
<1>6. PICK S \in SUBSET Cals : S = {Home}
  BY <1>2
<1>7. Found(t, k0) /\ k0 \in [S -> Nat]
  BY <1>1, <1>5, <1>6
<1>8. /\ JobsOK'
      /\ job'[t] = [op |-> "sync", at |-> "next", left |-> S, known |-> k0, cur |-> job[t].cur,
                       seen |-> job[t].seen, first |-> job[t].first, good |-> job[t].good]
      /\ \A s \in Actors \ {t} : job'[s] = job[s]
  BY <1>1, <1>2, <1>7, SyncFound
<1>9. PICK j : j = job'[t]
  OBVIOUS
<1>10. j.op = "sync" /\ j.at = "next" /\ j.left = S /\ j.known = k0
  BY <1>8, <1>9
<1>11. ASSUME t \notin stir' PROVE FollowsAs(t, j)'
  <2>1. \A c \in Cals : ~Listed(c)
    BY <1>1, <1>2, <1>11 DEF MirrorOK, Follows
  <2>2. {c \in Cals : Listed(c)'} = {Home}
    BY <1>2, <1>4, <2>1
  <2>3. dav'[Home].title = 0
    BY <1>2, <1>4, <2>1
  <2> QED BY <1>5, <1>6, <1>10, <2>2, <2>3 DEF FollowsAs
<1>12. Follows(t)'
  BY <1>9, <1>11, FollowsNext
<1>13. ASSUME NEW s \in Actors PROVE Follows(s)'
  <2>1. CASE s = t
    BY <1>12, <2>1
  <2>2. CASE s # t
    BY <1>1, <2>2 DEF Follows
  <2> QED BY <2>1, <2>2
<1>14. MirrorOK'
  BY <1>1, <1>13 DEF MirrorOK, SyncMirrors
<1>15. job'[t].op = "sync"
  BY <1>9, <1>10
<1> QED BY <1>1, <1>3, <1>4, <1>8, <1>14, <1>15, HrefsStay, SyncRest

\* It changes its cache, and tells the others that mirror into it.
LEMMA SyncMirrorFrame ==
  ASSUME MirrorOK, GhostOK, NEW t \in Actors, NEW k \in Caches, k = CacheOf(t), dav' = dav,
         \A s \in Actors \ {t} : s \in On(k) => s \in stir',
         stir \subseteq stir',
         \A l \in Caches \ {k} : cal'[l] = cal[l],
         \A l \in Caches \ {k} : row'[l] = row[l],
         \A s \in Actors \ {t} : job'[s] = job[s],
         Follows(t)'
  PROVE  /\ \A s \in Actors : Follows(s)'
         /\ mirror' \subseteq mirror \ {k} => MirrorOK'
<1>1. ASSUME NEW s \in Actors
      PROVE Follows(s)' \/ s \in stir'
              \/ (job'[s] = job[s] /\ cal'[CacheOf(s)] = cal[CacheOf(s)] /\ row'[CacheOf(s)] = row[CacheOf(s)])
  <2>1. CASE s = t
    BY <2>1
  <2>2. CASE s # t /\ CacheOf(s) = k
    BY <2>2 DEF On
  <2>3. CASE s # t /\ CacheOf(s) # k
    <3>1. CacheOf(s) \in Caches \ {k}
      BY <2>3 DEF CacheOf, Caches
    <3> QED BY <2>3, <3>1
  <2> QED BY <2>1, <2>2, <2>3
<1>2. ASSUME NEW s \in Actors PROVE Follows(s)'
  <2>1. CASE s \in stir'
    BY <2>1 DEF Follows
  <2>2. CASE job'[s] = job[s] /\ cal'[CacheOf(s)] = cal[CacheOf(s)] /\ row'[CacheOf(s)] = row[CacheOf(s)]
    <3>1. Follows(s)
      BY DEF MirrorOK
    <3> QED BY <2>2, <3>1, FollowsStay
  <2> QED BY <1>1, <2>1, <2>2
<1>3. ASSUME mirror' \subseteq mirror \ {k} PROVE MirrorOK'
  <2>1. mirror' \subseteq mirror /\ \A l \in mirror' : cal'[l] = cal[l] /\ row'[l] = row[l]
    BY <1>3 DEF GhostOK
  <2> QED BY <1>1, <2>1, MirrorFrame
<1> QED BY <1>2, <1>3

\* A step on a cache disturbs those others who sync into it, and not its actor.
LEMMA StirsOthers ==
  ASSUME NEW t \in Actors, NEW k, CacheStirs(t, k)
  PROVE  /\ \A s \in Actors \ {t} : s \in On(k) => s \in stir'
         /\ stir \subseteq stir'
         /\ t \in stir' => t \in stir
         /\ mirror' = mirror \ {k}
BY DEF CacheStirs, On

\* Everybody syncs into a cache.
LEMMA CacheOfType == \A t : CacheOf(t) \in Caches
BY DEF CacheOf, Caches

\* A calendar that was told of is shown under its title.
LEMMA UpsertedType ==
  ASSUME NEW title \in Nat, NEW default \in BOOLEAN
  PROVE  [own |-> FALSE, title |-> title, default |-> default] \in CalendarRows
BY DEF CalendarRows

\* Its row has that title and is not a request's.
LEMMA UpsertedIs ==
  ASSUME NEW title, NEW default, NEW r, r = [own |-> FALSE, title |-> title, default |-> default]
  PROVE  r.title = title /\ ~r.own
OBVIOUS

\* It stores a calendar's title, unless it meets one a request made.
LEMMA UpsertStep ==
  ASSUME IInv, NEW t \in Actors, SyncCalendar(t)
  PROVE  IInv'
<1> DEFINE k == CacheOf(t)
<1>1. /\ job[t].op = "sync" /\ job[t].at = "next" /\ CacheStirs(t, k) /\ UNCHANGED bell
      /\ dav' = dav /\ row' = row /\ kept' = kept
  BY DEF SyncCalendar, Does
<1>2. PICK c \in job[t].left : UpsertCalendar(t, k, c, job[t].known[c])
  BY DEF SyncCalendar
<1>3. JobsOK /\ DavOK /\ CalOK /\ RowOK /\ GhostOK /\ MirrorOK
  BY Parts
<1>4. job[t] \in SyncJobs
  BY <1>1, <1>3, IsSync
<1>5. c \in Cals /\ k \in Caches
  BY <1>4, CacheOfType DEF SyncJobs
<1>6. /\ \A s \in Actors \ {t} : s \in On(k) => s \in stir'
      /\ stir \subseteq stir'
      /\ mirror' = mirror \ {k}
  BY <1>1, StirsOthers
<1>7. DavOK' /\ RowOK' /\ mirror' \subseteq Caches
  BY <1>1, <1>3, <1>6 DEF DavOK, RowOK, GhostOK
<1>8. CASE Shown(k, c) /\ cal[k][c].own
  <2>1. Stop(t) /\ cal' = cal
    BY <1>2, <1>8 DEF UpsertCalendar
  <2>2. JobsOK' /\ job'[t] = Idle /\ \A s \in Actors \ {t} : job'[s] = job[s]
    BY <1>3, <2>1, StopStep
  <2>3. job'[t].op = "idle" /\ Follows(t)'
    BY <2>2, IsIdle DEF Follows
  <2>4. (\A l \in Caches \ {k} : cal'[l] = cal[l]) /\ \A l \in Caches \ {k} : row'[l] = row[l]
    BY <1>1, <2>1
  <2>5. MirrorOK'
    BY <1>1, <1>3, <1>5, <1>6, <2>2, <2>3, <2>4, SyncMirrorFrame
  <2>6. CalOK'
    BY <1>3, <2>1 DEF CalOK
  <2> QED BY <1>1, <1>7, <2>2, <2>3, <2>5, <2>6, HasStays, HrefsStay, SyncRest
<1>9. CASE ~(Shown(k, c) /\ cal[k][c].own)
  <2> DEFINE d == job[t].first /\ ~Shown(k, c) /\ \A e \in Cals : ~Shown(k, e)
  <2>1. cal' = [cal EXCEPT ![k][c] = [own |-> FALSE, title |-> job[t].known[c], default |-> d]]
    BY <1>2, <1>9 DEF UpsertCalendar
  <2>2. job' = [job EXCEPT ![t].at = "list", ![t].cur = c, ![t].first = FALSE]
    BY <1>2, <1>9 DEF UpsertCalendar
  <2>3. /\ JobsOK'
        /\ job'[t] = [op |-> "sync", at |-> "list", left |-> job[t].left, known |-> job[t].known, cur |-> c,
                       seen |-> job[t].seen, first |-> FALSE, good |-> job[t].good]
        /\ \A s \in Actors \ {t} : job'[s] = job[s]
    BY <1>1, <1>3, <1>5, <2>2, SyncBegins
  <2>4. job[t].known[c] \in Nat /\ d \in BOOLEAN
    BY <1>1, <1>3, IsSync
  <2>5. PICK r \in CalendarRows :
          r = [own |-> FALSE, title |-> job[t].known[c], default |-> d] /\ r.title = job[t].known[c] /\ ~r.own
    <3> HIDE DEF d
    <3>1. [own |-> FALSE, title |-> job[t].known[c], default |-> d] \in CalendarRows
      BY <2>4, UpsertedType
    <3>2. PICK r \in CalendarRows : r = [own |-> FALSE, title |-> job[t].known[c], default |-> d]
      BY <3>1
    <3>3. r.title = job[t].known[c] /\ ~r.own
      BY <3>2, UpsertedIs
    <3> QED BY <3>2, <3>3
  <2>6. SetsCalendar(k, c, r)
    BY <2>1, <2>5 DEF SetsCalendar
  <2>7. /\ CalOK'
        /\ \A l \in Caches, e \in Cals : cal'[l][e] = IF l = k /\ e = c THEN r ELSE cal[l][e]
        /\ \A l \in Caches \ {k} : cal'[l] = cal[l]
    BY <1>3, <1>5, <2>6, OneCalendarRow
  <2> HIDE DEF k, d
  <2>8. PICK j : j = job'[t]
    OBVIOUS
  <2>9. /\ j.op = "sync" /\ j.at = "list" /\ j.left = job[t].left /\ j.known = job[t].known
        /\ j.cur = c /\ j.good = job[t].good
    BY <2>3, <2>8
  <2>10. ASSUME t \notin stir' PROVE FollowsAs(t, j)'
    <3>1. Knows(t)
      BY <1>1, <1>3, <1>6, <2>10 DEF MirrorOK, Follows
    <3>2. r # None
      BY NoneIsNothing
    <3>3. Shown(k, c)' /\ ~cal'[k][c].own /\ cal'[k][c].title = dav'[c].title
      <4>1. cal'[k][c] = r
        BY <1>5, <2>7
      <4>2. job[t].known[c] = dav[c].title
        BY <1>2, <3>1 DEF Knows
      <4> QED BY <1>1, <2>5, <3>2, <4>1, <4>2 DEF Shown
    <3>4. ASSUME j.good, NEW e \in DOMAIN j.known \ j.left PROVE Same(k, e)'
      <4>1. Same(k, e)
        BY <2>9, <3>1, <3>4 DEF Knows, k
      <4>2. e \in Cals /\ e # c
        BY <1>2, <2>9, <3>1 DEF Knows
      <4>3. cal'[k][e] = cal[k][e]
        BY <1>5, <2>7, <4>2
      <4> QED BY <1>1, <4>1, <4>3 DEF Same, SameEvent, Shown, Held, Has, Listed
    <3>5. /\ DOMAIN j.known = {e \in Cals : Listed(e)'}
          /\ \A e \in DOMAIN j.known : j.known[e] = dav'[e].title
          /\ j.left \subseteq DOMAIN j.known
      BY <1>1, <2>9, <3>1 DEF Knows, Listed
    <3>6. j.cur \in j.left
      BY <1>2, <2>9
    <3> QED BY <2>9, <3>3, <3>4, <3>5, <3>6 DEF FollowsAs, k
  <2>11. Follows(t)'
    BY <2>8, <2>10, FollowsNext
  <2>12. \A l \in Caches \ {k} : row'[l] = row[l]
    BY <1>1
  <2>13. k = CacheOf(t) /\ dav' = dav
    BY <1>1 DEF k
  <2>14. MirrorOK'
    BY <1>3, <1>5, <1>6, <2>3, <2>7, <2>11, <2>12, <2>13, SyncMirrorFrame
  <2>15. job'[t].op = "sync"
    BY <2>8, <2>9
  <2> QED BY <1>1, <1>7, <2>3, <2>7, <2>14, <2>15, HasStays, HrefsStay, SyncRest
<1> QED BY <1>8, <1>9

\* It is done with a calendar without success: it will not claim a mirror.
LEMMA GivesUp ==
  ASSUME JobsOK, NEW t \in Actors, job[t].op = "sync", job[t].at \in {"list", "apply"}, NextCalendar(t, FALSE),
         Follows(t), dav' = dav, t \notin stir' => t \notin stir
  PROVE  /\ JobsOK' /\ job'[t].op = "sync"
         /\ \A s \in Actors \ {t} : job'[s] = job[s]
         /\ Follows(t)'
<1>1. /\ JobsOK'
      /\ job'[t].op = "sync" /\ job'[t].at = "next"
      /\ job'[t].left = job[t].left \ {job[t].cur} /\ job'[t].known = job[t].known
      /\ ~job'[t].good
      /\ \A s \in Actors \ {t} : job'[s] = job[s]
  BY SyncGoesOn
<1>2. PICK j : j = job'[t]
  OBVIOUS
<1>3. /\ j.op = "sync" /\ j.at = "next" /\ j.left = job[t].left \ {job[t].cur} /\ j.known = job[t].known
      /\ ~j.good
  BY <1>1, <1>2
<1>4. ASSUME t \notin stir' PROVE FollowsAs(t, j)'
  <2>1. Knows(t)
    BY <1>4 DEF Follows
  <2>2. /\ DOMAIN j.known = {e \in Cals : Listed(e)'}
        /\ \A e \in DOMAIN j.known : j.known[e] = dav'[e].title
        /\ j.left \subseteq DOMAIN j.known
    BY <1>3, <2>1 DEF Knows, Listed
  <2> QED BY <1>3, <2>2 DEF FollowsAs
<1>5. Follows(t)'
  BY <1>2, <1>4, FollowsNext
<1> QED BY <1>1, <1>2, <1>3, <1>5

\* The events of the present collection arrive.
LEMMA ListStep ==
  ASSUME IInv, NEW t \in Actors, ListEvents(t)
  PROVE  IInv'
<1>1. job[t].op = "sync" /\ job[t].at = "list" /\ UNCHANGED <<dav, cal, row, bell, ghosts>>
  BY DEF ListEvents, Does, bell, ghosts
<1>2. \/ NextCalendar(t, FALSE)
      \/ /\ Listed(job[t].cur)
         /\ job' = [job EXCEPT ![t].at = "apply", ![t].seen = dav[job[t].cur].events]
  BY DEF ListEvents
<1>3. JobsOK /\ DavOK /\ MirrorOK /\ stir' = stir /\ Follows(t)
  BY <1>1, Parts DEF ghosts, MirrorOK
<1>4. CASE NextCalendar(t, FALSE)
  <2>1. /\ JobsOK' /\ job'[t].op = "sync"
        /\ \A s \in Actors \ {t} : job'[s] = job[s]
        /\ Follows(t)'
    BY <1>1, <1>3, <1>4, GivesUp
  <2> QED BY <1>1, <2>1, QuietSync
<1>5. CASE Listed(job[t].cur) /\ job' = [job EXCEPT ![t].at = "apply", ![t].seen = dav[job[t].cur].events]
  <2>1. PICK c \in Cals : c = job[t].cur
    BY <1>1, <1>3, IsSync DEF SyncJobs
  <2>2. PICK seen \in Events : seen = dav[c].events
    BY <1>3, <1>5, <2>1 DEF DavOK, Listed, Collections
  <2>3. job' = [job EXCEPT ![t].at = "apply", ![t].seen = seen]
    BY <1>5, <2>1, <2>2
  <2>4. /\ JobsOK'
        /\ job'[t] = [op |-> "sync", at |-> "apply", left |-> job[t].left, known |-> job[t].known,
                       cur |-> job[t].cur, seen |-> seen, first |-> job[t].first, good |-> job[t].good]
        /\ \A s \in Actors \ {t} : job'[s] = job[s]
    BY <1>1, <1>3, <2>3, SyncLists
  <2>5. PICK j : j = job'[t]
    OBVIOUS
  <2>6. /\ j.op = "sync" /\ j.at = "apply" /\ j.left = job[t].left /\ j.known = job[t].known
        /\ j.cur = c /\ j.seen = seen /\ j.good = job[t].good
    BY <2>1, <2>4, <2>5
  <2>7. ASSUME t \notin stir' PROVE FollowsAs(t, j)'
    <3>1. Knows(t) /\ IsAt(t, CacheOf(t), c)
      BY <1>1, <1>3, <2>1, <2>7 DEF Follows
    <3>2. ASSUME j.good, NEW e \in DOMAIN j.known \ j.left PROVE Same(CacheOf(t), e)'
      <4>1. Same(CacheOf(t), e)
        BY <2>6, <3>1, <3>2 DEF Knows
      <4> QED BY <1>1, <4>1 DEF Same, SameEvent, Shown, Held, Has, Listed, CacheOf
    <3>3. /\ DOMAIN j.known = {e \in Cals : Listed(e)'}
          /\ \A e \in DOMAIN j.known : j.known[e] = dav'[e].title
          /\ j.left \subseteq DOMAIN j.known
      BY <1>1, <2>6, <3>1 DEF Knows, Listed
    <3>4. j.cur \in j.left /\ Shown(CacheOf(t), c)' /\ ~cal'[CacheOf(t)][c].own /\ cal'[CacheOf(t)][c].title = dav'[c].title
      BY <1>1, <2>6, <3>1 DEF IsAt, Shown, CacheOf
    <3>5. j.seen = dav'[c].events
      BY <1>1, <2>2, <2>6
    <3> QED BY <2>6, <3>2, <3>3, <3>4, <3>5 DEF FollowsAs, CacheOf
  <2>8. Follows(t)'
    BY <2>5, <2>7, FollowsNext
  <2>9. job'[t].op = "sync"
    BY <2>5, <2>6
  <2> QED BY <1>1, <2>4, <2>8, <2>9, QuietSync
<1> QED BY <1>2, <1>4, <1>5

\* What a cache holds of a calendar when a listing was applied.
LEMMA MirroredRows ==
  ASSUME NEW old, NEW c \in Cals, NEW seen \in Events
  PROVE  /\ Mirrored(old, c, seen) \in [Uids -> EventRows \union {None}]
         /\ \A u \in Uids : Mirrored(old, c, seen)[u] # None <=> seen[u] # None
         /\ \A u \in Uids : seen[u] # None =>
              Mirrored(old, c, seen)[u].text = seen[u] /\ Mirrored(old, c, seen)[u].of = c
<1>1. Mirrored(old, c, seen) = [u \in Uids |-> IF seen[u] = None THEN None ELSE Row(seen[u], FALSE, c)]
  BY DEF Mirrored
<1>2. \A u \in Uids : seen[u] # None => seen[u] \in Texts
  BY DEF Events
<1>3. \A u \in Uids : seen[u] # None =>
        /\ Row(seen[u], FALSE, c) \in EventRows /\ Row(seen[u], FALSE, c) # None
        /\ Row(seen[u], FALSE, c).text = seen[u] /\ Row(seen[u], FALSE, c).of = c
  <2> SUFFICES ASSUME NEW u \in Uids, seen[u] # None
               PROVE  /\ Row(seen[u], FALSE, c) \in EventRows /\ Row(seen[u], FALSE, c) # None
                      /\ Row(seen[u], FALSE, c).text = seen[u] /\ Row(seen[u], FALSE, c).of = c
    OBVIOUS
  <2>1. seen[u] \in Texts
    BY <1>2
  <2>2. \A full \in BOOLEAN :
          /\ Row(seen[u], full, c) \in EventRows /\ Row(seen[u], full, c) # None
          /\ Row(seen[u], full, c).text = seen[u] /\ Row(seen[u], full, c).of = c
    BY <2>1, RowType
  <2> QED BY <2>2
<1> QED BY <1>1, <1>3

\* It stores the listing of a calendar.
LEMMA ApplyStep ==
  ASSUME IInv, NEW t \in Actors, ApplyEvents(t)
  PROVE  IInv'
<1>1. /\ job[t].op = "sync" /\ job[t].at = "apply" /\ CacheStirs(t, CacheOf(t)) /\ UNCHANGED bell
      /\ dav' = dav /\ cal' = cal /\ kept' = kept
  BY DEF ApplyEvents, Does
<1>2. JobsOK /\ DavOK /\ CalOK /\ RowOK /\ GhostOK /\ MirrorOK /\ KeptOK /\ Follows(t)
  BY Parts DEF MirrorOK
<1>3. job[t] \in SyncJobs
  BY <1>1, <1>2, IsSync
<1>4. PICK k \in Caches, c \in Cals, seen \in Events : k = CacheOf(t) /\ c = job[t].cur /\ seen = job[t].seen
  BY <1>3, CacheOfType DEF SyncJobs
<1>5. IF Shown(k, c) \/ seen = NoEvents
        THEN row' = [row EXCEPT ![k][c] = Mirrored(row[k][c], c, seen)] /\ NextCalendar(t, TRUE)
        ELSE NextCalendar(t, FALSE) /\ row' = row
  BY <1>4 DEF ApplyEvents
<1>6. /\ \A s \in Actors \ {t} : s \in On(k) => s \in stir'
      /\ stir \subseteq stir'
      /\ mirror' = mirror \ {k}
  BY <1>1, <1>4, StirsOthers
<1>7. DavOK' /\ CalOK' /\ mirror' \subseteq Caches
  BY <1>1, <1>2, <1>6 DEF DavOK, CalOK, GhostOK
<1>8. \A l \in Caches \ {k} : cal'[l] = cal[l]
  BY <1>1
<1>9. CASE Shown(k, c) \/ seen = NoEvents
  <2>1. NextCalendar(t, TRUE)
    BY <1>5, <1>9
  <2>2. /\ JobsOK'
        /\ job'[t].op = "sync" /\ job'[t].at = "next"
        /\ job'[t].left = job[t].left \ {job[t].cur} /\ job'[t].known = job[t].known
        /\ job'[t].good => job[t].good
        /\ \A s \in Actors \ {t} : job'[s] = job[s]
    BY <1>1, <1>2, <2>1, SyncGoesOn
  <2>3. PICK rs \in [Uids -> EventRows \union {None}] :
          /\ rs = Mirrored(row[k][c], c, seen)
          /\ \A u \in Uids : rs[u] # None <=> seen[u] # None
          /\ \A u \in Uids : seen[u] # None => rs[u].text = seen[u] /\ rs[u].of = c
    BY MirroredRows
  <2>4. SetsRows(k, c, rs)
    BY <1>5, <1>9, <2>3 DEF SetsRows
  <2>5. /\ RowOK'
        /\ \A l \in Caches, d \in Cals : row'[l][d] = IF l = k /\ d = c THEN rs ELSE row[l][d]
        /\ \A l \in Caches \ {k} : row'[l] = row[l]
    BY <1>2, <2>4, OneCalendar
  <2>6. ASSUME NEW d \in Cals, NEW u \in kept, Held("web", d, u)'
        PROVE  row'["web"][d][u].of = d
    <3>1. u \in Uids /\ "web" \in Caches
      BY <1>2, CachesAre DEF GhostOK
    <3>2. CASE k = "web" /\ d = c
      <4>1. row'["web"][d][u] = rs[u]
        BY <2>5, <3>1, <3>2
      <4>2. rs[u] # None
        BY <2>6, <4>1 DEF Held
      <4> QED BY <2>3, <3>1, <3>2, <4>1, <4>2
    <3>3. CASE ~(k = "web" /\ d = c)
      <4>1. row'["web"][d] = row["web"][d]
        BY <2>5, <3>1, <3>3
      <4> QED BY <1>2, <2>6, <4>1 DEF KeptOK, RowsOK, Misplaced, Held
    <3> QED BY <3>2, <3>3
  <2>7. PICK j : j = job'[t]
    OBVIOUS
  <2>8. /\ j.op = "sync" /\ j.at = "next" /\ j.left = job[t].left \ {c} /\ j.known = job[t].known
        /\ j.good => job[t].good
    BY <1>4, <2>2, <2>7
  <2>9. ASSUME t \notin stir' PROVE FollowsAs(t, j)'
    <3>1. Knows(t) /\ IsAt(t, k, c) /\ seen = dav[c].events
      BY <1>1, <1>2, <1>4, <1>6, <2>9 DEF Follows
    <3>2. ASSUME j.good, NEW e \in DOMAIN j.known \ j.left PROVE Same(k, e)'
      <4>1. e \in Cals
        BY <2>8, <3>1 DEF Knows
      <4>2. CASE e = c
        <5>1. Listed(c)
          BY <2>8, <3>1, <3>2, <4>2 DEF Knows
        <5>2. Shown(k, c)' /\ ~cal'[k][c].own /\ cal'[k][c].title = dav'[c].title
          BY <1>1, <3>1 DEF IsAt, Shown
        <5>3. row'[k][c] = rs
          BY <2>5
        <5>4. ASSUME NEW u \in Uids PROVE SameEvent(k, c, u)'
          <6>1. Held(k, c, u)' <=> rs[u] # None
            BY <5>3 DEF Held
          <6>2. Has(c, u)' <=> seen[u] # None
            BY <1>1, <3>1, <5>1 DEF Has, Listed
          <6>3. Held(k, c, u)' => row'[k][c][u].text = dav'[c].events[u]
            BY <1>1, <2>3, <3>1, <5>3, <6>1
          <6> QED BY <2>3, <6>1, <6>2, <6>3 DEF SameEvent
        <5> QED BY <4>2, <5>2, <5>4 DEF Same
      <4>3. CASE e # c
        <5>1. Same(k, e)
          BY <1>4, <2>8, <3>1, <3>2, <4>3 DEF Knows
        <5>2. row'[k][e] = row[k][e]
          BY <2>5, <4>1, <4>3
        <5> QED BY <1>1, <5>1, <5>2 DEF Same, SameEvent, Shown, Held, Has, Listed
      <4> QED BY <4>2, <4>3
    <3>3. /\ DOMAIN j.known = {e \in Cals : Listed(e)'}
          /\ \A e \in DOMAIN j.known : j.known[e] = dav'[e].title
          /\ j.left \subseteq DOMAIN j.known
      BY <1>1, <2>8, <3>1 DEF Knows, Listed
    <3> QED BY <1>4, <2>8, <3>2, <3>3 DEF FollowsAs, CacheOf
  <2>10. Follows(t)'
    BY <2>7, <2>9, FollowsNext
  <2>11. MirrorOK'
    BY <1>1, <1>2, <1>4, <1>6, <1>8, <2>2, <2>5, <2>10, SyncMirrorFrame
  <2>12. job'[t].op = "sync"
    BY <2>7, <2>8
  <2>13. \A d \in Cals, u \in kept : Held("web", d, u)' => row'["web"][d][u].of = d
    BY <2>6
  <2> QED BY <1>1, <1>7, <2>2, <2>5, <2>11, <2>12, <2>13, HasStays, SyncRest
<1>10. CASE ~(Shown(k, c) \/ seen = NoEvents)
  <2>1. NextCalendar(t, FALSE) /\ row' = row
    BY <1>5, <1>10
  <2>2. /\ JobsOK' /\ job'[t].op = "sync"
        /\ \A s \in Actors \ {t} : job'[s] = job[s]
        /\ Follows(t)'
    BY <1>1, <1>2, <1>6, <2>1, GivesUp
  <2>3. \A l \in Caches \ {k} : row'[l] = row[l]
    BY <2>1
  <2>4. MirrorOK'
    BY <1>1, <1>2, <1>4, <1>6, <1>8, <2>2, <2>3, SyncMirrorFrame
  <2>5. RowOK'
    BY <1>2, <2>1 DEF RowOK
  <2> QED BY <1>1, <1>7, <2>1, <2>2, <2>4, <2>5, HasStays, HrefsStay, SyncRest
<1> QED BY <1>9, <1>10

\* It drops what it did not meet, and claims a mirror if it was good and
\* undisturbed.
LEMMA EndStep ==
  ASSUME IInv, NEW t \in Actors, SyncEnds(t)
  PROVE  IInv'
<1> DEFINE k == CacheOf(t)
<1> DEFINE c1 == [c \in Cals |-> IF Met(t, k, c) THEN cal[k][c] ELSE None]
<1> DEFINE r1 == [c \in Cals |-> IF Met(t, k, c) THEN row[k][c] ELSE NoEvents]
<1>1. /\ job[t].op = "sync" /\ job[t].at = "next" /\ job[t].left = {}
      /\ cal' = [cal EXCEPT ![k] = c1] /\ row' = [row EXCEPT ![k] = r1]
      /\ stir' = stir \union (On(k) \ {t})
      /\ mirror' = IF job[t].good /\ t \notin stir THEN mirror \union {k} ELSE mirror \ {k}
      /\ Stop(t)
      /\ dav' = dav /\ UNCHANGED bell /\ kept' = kept
  BY DEF SyncEnds, Does
<1>2. JobsOK /\ DavOK /\ CalOK /\ RowOK /\ GhostOK /\ MirrorOK /\ KeptOK /\ Follows(t) /\ k \in Caches
  BY Parts, CacheOfType DEF MirrorOK
<1>3. JobsOK' /\ job'[t] = Idle /\ \A s \in Actors \ {t} : job'[s] = job[s]
  BY <1>1, <1>2, StopStep
<1>4. job'[t].op = "idle" /\ Follows(t)'
  BY <1>3, IsIdle DEF Follows
<1>5. c1 \in [Cals -> CalendarRows \union {None}]
  BY <1>2 DEF CalOK
<1>6. r1 \in [Cals -> [Uids -> EventRows \union {None}]]
  <2>1. NoEvents \in [Uids -> EventRows \union {None}]
    BY DEF NoEvents
  <2> QED BY <1>2, <2>1 DEF RowOK
<1>7. \A c \in Cals : c1[c] = (IF Met(t, k, c) THEN cal[k][c] ELSE None) /\ r1[c] = IF Met(t, k, c) THEN row[k][c] ELSE NoEvents
  OBVIOUS
<1> HIDE DEF c1, r1
<1>8. CalOK' /\ cal'[k] = c1 /\ \A l \in Caches \ {k} : cal'[l] = cal[l]
  BY <1>1, <1>2, <1>5 DEF CalOK
<1>9. RowOK' /\ row'[k] = r1 /\ \A l \in Caches \ {k} : row'[l] = row[l]
  BY <1>1, <1>2, <1>6 DEF RowOK
<1>10. DavOK' /\ mirror' \subseteq Caches
  BY <1>1, <1>2 DEF DavOK, GhostOK
<1>11. \A c \in Cals, u \in Uids : NoEvents[u] = None
  BY DEF NoEvents
<1>12. ASSUME NEW d \in Cals, NEW u \in kept, Held("web", d, u)'
       PROVE  row'["web"][d][u].of = d
  <2>1. u \in Uids /\ "web" \in Caches
    BY <1>2, CachesAre DEF GhostOK
  <2>2. row'["web"][d][u] = row["web"][d][u]
    <3>1. CASE k = "web"
      BY <1>7, <1>9, <1>11, <1>12, <2>1, <3>1 DEF Held
    <3>2. CASE k # "web"
      BY <1>9, <2>1, <3>2
    <3> QED BY <3>1, <3>2
  <2> QED BY <1>2, <1>12, <2>2 DEF KeptOK, RowsOK, Misplaced, Held
<1> HIDE DEF k
<1>13. k = CacheOf(t)
  BY DEF k
<1>14. (\A s \in Actors \ {t} : s \in On(k) => s \in stir') /\ stir \subseteq stir'
  BY <1>1
<1>15. /\ \A s \in Actors : Follows(s)'
       /\ mirror' \subseteq mirror \ {k} => MirrorOK'
  BY <1>1, <1>2, <1>3, <1>4, <1>8, <1>9, <1>13, <1>14, SyncMirrorFrame
<1>16. MirrorOK'
  <2>1. CASE ~(job[t].good /\ t \notin stir)
    BY <1>1, <1>15, <2>1
  <2>2. CASE job[t].good /\ t \notin stir
    <3>1. Knows(t)
      BY <1>1, <1>2, <2>2 DEF Follows
    <3>2. ASSUME NEW c \in Cals
          PROVE  /\ Shown(k, c)' <=> Listed(c)'
                 /\ Shown(k, c)' => cal'[k][c].title = dav'[c].title
                 /\ \A u \in Uids : SameEvent(k, c, u)'
      <4>1. Listed(c)' <=> Listed(c)
        BY <1>1 DEF Listed
      <4>2. CASE Listed(c)
        <5>1. c \in DOMAIN job[t].known \ job[t].left
          BY <1>1, <3>1, <4>2 DEF Knows
        <5>2. Same(k, c)
          BY <1>13, <2>2, <3>1, <5>1 DEF Knows
        <5>3. Met(t, k, c)
          BY <5>1, <5>2 DEF Met, Same
        <5>4. cal'[k][c] = cal[k][c] /\ row'[k][c] = row[k][c]
          BY <1>7, <1>8, <1>9, <5>3
        <5> QED BY <1>1, <4>1, <4>2, <5>2, <5>4 DEF Same, SameEvent, Shown, Held, Has, Listed
      <4>3. CASE ~Listed(c)
        <5>1. c \notin DOMAIN job[t].known
          BY <3>1, <4>3 DEF Knows
        <5>2. ~Met(t, k, c)
          BY <5>1 DEF Met
        <5>3. cal'[k][c] = None /\ row'[k][c] = NoEvents
          BY <1>7, <1>8, <1>9, <5>2
        <5>4. ~Shown(k, c)' /\ \A u \in Uids : ~Held(k, c, u)' /\ ~Has(c, u)'
          BY <1>11, <4>1, <4>3, <5>3 DEF Shown, Held, Has
        <5> QED BY <4>1, <4>3, <5>4 DEF SameEvent
      <4> QED BY <4>2, <4>3
    <3>3. ASSUME NEW l \in mirror', NEW c \in Cals, l # k
          PROVE  /\ Shown(l, c)' <=> Listed(c)'
                 /\ Shown(l, c)' => cal'[l][c].title = dav'[c].title
                 /\ \A u \in Uids : SameEvent(l, c, u)'
      <4>1. l \in mirror /\ l \in Caches \ {k}
        BY <1>1, <1>2, <3>3 DEF GhostOK
      <4>2. cal'[l] = cal[l] /\ row'[l] = row[l]
        BY <1>8, <1>9, <4>1
      <4> QED BY <1>1, <1>2, <4>1, <4>2 DEF MirrorOK, SyncMirrors, SameEvent, Shown, Held, Has, Listed
    <3>4. SyncMirrors'
      <4>1. SUFFICES ASSUME NEW l \in mirror', NEW c \in Cals
                     PROVE  /\ Shown(l, c)' <=> Listed(c)'
                            /\ Shown(l, c)' => cal'[l][c].title = dav'[c].title
                            /\ \A u \in Uids : SameEvent(l, c, u)'
        BY DEF SyncMirrors, SameEvent
      <4>2. CASE l = k
        BY <3>2, <4>2
      <4>3. CASE l # k
        BY <3>3, <4>3
      <4> QED BY <4>2, <4>3
    <3> QED BY <1>15, <3>4 DEF MirrorOK
  <2> QED BY <2>1, <2>2
<1>17. \A d \in Cals, u \in kept : Held("web", d, u)' => row'["web"][d][u].of = d
  BY <1>12
<1> QED BY <1>1, <1>3, <1>4, <1>8, <1>9, <1>10, <1>16, <1>17, HasStays, SyncRest

-----------------------------------------------------------------------------
(* Every step *)

\* The program starts so.
LEMMA IInvInit == Init => IInv
<1> SUFFICES ASSUME Init PROVE IInv
  OBVIOUS
<1>1. \A t \in Actors : job[t] = Idle
  BY DEF Init
<1>2. JobsOK
  <2>1. \A t \in Actors : Fits(t, job[t])
    BY <1>1, IsIdle DEF Fits
  <2>2. job = [t \in Actors |-> job[t]]
    BY DEF Init
  <2> QED BY <2>1, <2>2 DEF JobsOK
<1>3. DavOK /\ CalOK
  BY DEF Init, DavOK, CalOK
<1>4. RowOK
  <2>1. NoEvents \in [Uids -> EventRows \union {None}]
    BY DEF NoEvents
  <2> QED BY <2>1 DEF Init, RowOK
<1>5. BellOK /\ GhostOK
  BY DEF Init, BellOK, GhostOK
<1>6. \A t \in Actors : job[t].op = "idle"
  BY <1>1, IsIdle
<1>7. RingOK
  BY DEF Init, RingOK
<1>8. KeptOK
  <2>1. \A t \in Threads : job[t].op # "move"
    BY <1>6 DEF Actors
  <2> QED BY <2>1 DEF Init, KeptOK, NeverNowhere, MovesOK, RowsOK
<1>9. MirrorOK
  BY <1>6 DEF Init, MirrorOK, SyncMirrors, Follows
<1> QED BY <1>2, <1>3, <1>4, <1>5, <1>7, <1>8, <1>9 DEF IInv, TypeOK

\* Every step keeps it.
LEMMA IInvNext == IInv /\ [Next]_vars => IInv'
<1> SUFFICES ASSUME IInv, [Next]_vars PROVE IInv'
  OBVIOUS
<1>1. ASSUME NEW t \in Actors, SyncStep(t) PROVE IInv'
  BY <1>1, SyncStepStart, DiscoverStep, MakeHomeStep, UpsertStep, ListStep, ApplyStep, EndStep, SyncStepFails
     DEF SyncStep
<1>2. ASSUME NEW t \in Threads, Request(t) PROVE IInv'
  <2>1. CASE McpCreateEvent(t) \/ IcsRsvp(t) \/ IcsRsvpExisting(t)
    BY <2>1, CreateStep
  <2>2. CASE CheckImipReply(t)
    BY <2>2, CreateStep, ReplyStep DEF CheckImipReply
  <2>3. CASE UpdateEvent(t)
    BY <2>3, UpdateStep
  <2>4. CASE MoveEvent(t) \/ ApiUpdateEvent(t) \/ McpUpdateEvent(t)
    BY <2>4, EditStep
  <2>5. CASE McpDeleteEvent(t)
    BY <2>5, DeleteStep
  <2>6. CASE IcsCancel(t)
    BY <2>6, CancelStep
  <2>7. CASE McpCreateCalendar(t) \/ EditCalendar(t) \/ DeleteCalendar(t)
    BY <2>7, CalendarStep
  <2>8. CASE McpUpdateCalendar(t)
    BY <2>8, TellStep
  <2>9. CASE McpDeleteCalendar(t)
    BY <2>9, ForgetCalendarStep
  <2> QED BY <1>2, <2>1, <2>2, <2>3, <2>4, <2>5, <2>6, <2>7, <2>8, <2>9 DEF Request
<1>3. ASSUME NEW t \in Threads, RequestStep(t) PROVE IInv'
  BY <1>3, PutStep, ReplaceStep, CopyStep, DropStep, FailStep, StoreStep, ForgetStep, MakeStep, StoreCalendarStep,
     PatchStep, StoreTitleStep, RemoveStep, ForgetCalendarStep
     DEF RequestStep
<1>4. CASE WorkerStep
  BY <1>4, DueStep, FireStep, MarkStep, MarkFailsStep, TurnEndsStep DEF WorkerStep
<1>5. CASE Elsewhere
  BY <1>5, ElsewhereStep
<1>6. CASE ProcessEnds
  BY <1>6, ProcessEndsStep
<1>7. ASSUME NEW k \in Caches, ResetCache(k) PROVE IInv'
  BY <1>7, ResetStep
<1>8. CASE UNCHANGED vars
  <2>1. /\ dav' = dav /\ cal' = cal /\ row' = row /\ job' = job /\ UNCHANGED bell /\ UNCHANGED ghosts
    BY <1>8 DEF vars
  <2>2. kept' = kept /\ mirror' = mirror /\ stir' = stir /\ rang' = rang /\ fired' = fired /\ breaks' = breaks
    BY <2>1 DEF ghosts, bell
  <2>3. JobsOK /\ DavOK /\ CalOK /\ RowOK /\ BellOK /\ GhostOK /\ RingOK /\ KeptOK /\ MirrorOK
    BY Parts
  <2>4. JobsOK' /\ DavOK' /\ CalOK' /\ RowOK' /\ GhostOK'
    BY <2>1, <2>2, <2>3, SameJobs DEF DavOK, CalOK, RowOK, GhostOK
  <2>5. RingOK' /\ BellOK'
    BY <2>1, <2>3, RingFrame
  <2>6. KeptOK'
    <3>1. \A c \in Cals, u \in kept' : Has(c, u) => Has(c, u)'
      BY <2>1 DEF Has, Listed
    <3>2. \A c \in Cals, u \in kept' : Held("web", c, u)' => row'["web"][c][u].of = c
      BY <2>1, <2>2, <2>3 DEF KeptOK, RowsOK, Misplaced, Held
    <3> QED BY <2>1, <2>2, <2>3, <3>1, <3>2, KeptFrame
  <2>7. MirrorOK'
    BY <2>1, <2>2, <2>3, MirrorFrame
  <2> QED BY <2>4, <2>5, <2>6, <2>7 DEF IInv, TypeOK
<1> QED BY <1>1, <1>2, <1>3, <1>4, <1>5, <1>6, <1>7, <1>8 DEF Next

\* So it holds in every state.
LEMMA IInvHolds == Spec => []IInv
<1>1. Init => IInv
  BY IInvInit
<1>2. IInv /\ [Next]_vars => IInv'
  BY IInvNext
<1> QED BY <1>1, <1>2, PTL DEF Spec

\* The state keeps its types: collections, rows and jobs are what their names
\* say, and only requests write and only the worker rings.
THEOREM TypeCorrect == Spec => []TypeOK
<1>1. IInv => TypeOK
  BY DEF IInv
<1> QED BY <1>1, IInvHolds, PTL

\* A sync (services/sync.py) beside which nothing happened, and that met no
\* error, has made its cache what the server is, whatever other requests, syncs
\* and clients did before it.
THEOREM MirrorExact == Spec => []SyncMirrors
<1>1. IInv => SyncMirrors
  BY DEF IInv, MirrorOK
<1> QED BY <1>1, IInvHolds, PTL

\* An event put on the server and removed by nobody is there, also while
\* api_event_update has it in two calendars or has failed half way, and however
\* requests overlap.
THEOREM EventsStay == Spec => []NeverNowhere
<1>1. IInv => NeverNowhere
  BY DEF IInv, KeptOK
<1> QED BY <1>1, IInvHolds, PTL

\* However often the mirror makes a reminder's row anew, push_calendar_fired
\* keeps it from ringing again, but for marks lost and ends of the process.
THEOREM RingsOnce == Spec => []PushedOnce
<1>1. IInv => PushedOnce
  <2>1. SUFFICES ASSUME RingOK, BellOK, NEW u \in Uids PROVE rang[u] <= 1 + breaks
    BY DEF IInv, TypeOK, PushedOnce
  <2>2. rang[u] <= breaks + IF u \in fired \/ Marking(u) THEN 1 ELSE 0
    BY <2>1 DEF RingOK
  <2>3. rang[u] \in Nat /\ breaks \in Nat
    BY <2>1 DEF BellOK
  <2> QED BY <2>2, <2>3
<1> QED BY <1>1, IInvHolds, PTL

=============================================================================
