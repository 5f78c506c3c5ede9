------------------------------ MODULE ChatProof ------------------------------
(***************************************************************************)
(* TypeOK, NoGap and RungOnce hold in every state of Chat, for any tabs,   *)
(* any number of events and any window of the homeserver.                  *)
(*                                                                         *)
(* NoGap: the stored token may go back, to that of any answer that was     *)
(* long on its way. So the cache has no gap up to the token of any loop    *)
(* (Gapless), and an answer that is applied adds what happened since.      *)
(*                                                                         *)
(* RungOnce: an intent is logged while others wait to be sent, so no two   *)
(* of them name the same event (Apart).                                    *)
(***************************************************************************)
EXTENDS Chat, FiniteSetTheorems, WellFoundedInduction, TLAPS

-----------------------------------------------------------------------------
(* The inductive invariant *)

EventSet == [kind : Moves \union Posts \union {"edit", "redact"}, by : {"me", "peer"}, of : 0..MaxEvents]
RowSet == [Positions -> {"none", "shown", "edited", "gone"}]
LoopSet == [at : {"off", "ready", "asks", "answered"}, since : 0..MaxEvents, upto : 0..MaxEvents]
Intents(l) == [of : SUBSET DOMAIN l, sent : BOOLEAN]
ReqSet == [do : {"store", "edit", "redact", "join", "leave"}, of : 0..MaxEvents]

\* The last event of l up to b that moves the user.
MovesOf(l, b) == {p \in 1..b : l[p].kind \in Moves}
MineOf(l, b) == IF MovesOf(l, b) = {} THEN None ELSE l[Max(MovesOf(l, b))].kind

\* The parts of TypeOK.
LineType == line \in Seq(EventSet) /\ Len(line) <= MaxEvents
CacheType ==
  /\ room \in {None, "invite", "join", "leave"} /\ cut \subseteq Positions
  /\ row \in RowSet /\ token \in 0..Len(line) /\ logged \subseteq DOMAIN line
LoopType ==
  /\ loop \in [Loops -> LoopSet]
  /\ \A l \in Loops : loop[l].since <= loop[l].upto /\ loop[l].upto <= Len(line)
TodoType == todo \in Seq(Intents(line))
ReqType == req = None \/ req \in ReqSet

\* The room is entered once: an invitation comes before everything else.
InvitesFirst(l) == \A p, q \in DOMAIN l : l[p].kind = "invite" /\ q < p => l[q].kind \notin Moves
InviteFirst == InvitesFirst(line)

\* What was said in l up to b is in the rows r, but for the positions c and for
\* reactions taken back.
BackIn(l, p) == l[p].kind = "react" /\ \E q \in DOMAIN l : l[q].kind = "redact" /\ l[q].of = p
HasIn(l, r, p) == r[p] # "none" \/ BackIn(l, p)
GaplessIn(l, r, c, b) ==
  MineOf(l, b) = "join" /\ MineOf(l, Len(l)) = "join" =>
    \A p \in 1..b : l[p].kind \in Posts /\ p \notin c => HasIn(l, r, p)
Has(p) == HasIn(line, row, p)
Gapless(b) == GaplessIn(line, row, cut, b)

\* A request that takes a reaction back has done so on the homeserver, and one
\* that left the room has left it.
ReqOK ==
  req # None =>
    /\ req.do = "redact" => \E q \in DOMAIN line : line[q].kind = "redact" /\ line[q].of = req.of
    /\ req.do \notin {"store", "edit", "redact", "join"} => Mine(Len(line)) = "leave"

Apart == \A i, j \in DOMAIN todo : i # j => todo[i].of \cap todo[j].of = {}

TypesOK == LineType /\ CacheType /\ LoopType /\ TodoType /\ ReqType

GapInv == InviteFirst /\ Gapless(token) /\ (\A l \in Loops : Gapless(loop[l].since)) /\ ReqOK

IInv == TypesOK /\ GapInv /\ Apart /\ RungOnce

-----------------------------------------------------------------------------
(* Numbers *)

\* A set of numbers that is not empty has a least one.
LEMMA LeastNatural ==
  ASSUME NEW S \in SUBSET Nat, S # {}
  PROVE  \E m \in S : \A k \in S : m <= k
<1> DEFINE T == {1..k : k \in S}
<1>1. T \subseteq FiniteSubsetsOf(Nat) /\ T # {}
  <2>1. \A k \in S : 1..k \subseteq Nat /\ IsFiniteSet(1..k) BY FS_Interval
  <2> QED BY <2>1 DEF FiniteSubsetsOf
<1>2. PICK x \in T : \A y \in T : <<y, x>> \notin StrictSubsetOrdering(Nat)
  <2> HIDE DEF T
  <2> QED BY <1>1, WFMin, FS_StrictSubsetOrderingWellFounded
<1>3. PICK m \in S : x = 1..m OBVIOUS
<1>4. \A k \in S : m <= k
  <2> SUFFICES ASSUME NEW k \in S, k < m PROVE FALSE OBVIOUS
  <2>1. 1..k \subseteq 1..m /\ m \in 1..m /\ m \notin 1..k OBVIOUS
  <2>2. 1..k \in T /\ 1..k \subseteq Nat /\ 1..m \subseteq Nat OBVIOUS
  <2>3. <<1..k, x>> \in StrictSubsetOrdering(Nat)
    BY <1>3, <2>1, <2>2 DEF StrictSubsetOrdering
  <2> QED BY <1>2, <2>2, <2>3
<1> QED BY <1>4

\* The greatest of some positions.
LEMMA GreatestPosition ==
  ASSUME NEW b \in Nat, NEW S \in SUBSET (1..b), S # {}
  PROVE  Max(S) \in S /\ \A q \in S : q <= Max(S)
<1> DEFINE T == {b - q : q \in S}
<1>1. T \subseteq Nat /\ T # {}
  <2>1. \A q \in S : b - q \in Nat OBVIOUS
  <2> QED BY <2>1
<1> HIDE DEF T
<1>2. PICK m \in T : \A k \in T : m <= k BY <1>1, LeastNatural
<1>3. PICK p \in S : m = b - p BY <1>2 DEF T
<1>4. \A q \in S : p >= q
  <2> TAKE q \in S
  <2>1. b - q \in T BY DEF T
  <2> QED BY <1>2, <1>3, <2>1
<1>5. Max(S) \in S /\ \A q \in S : Max(S) >= q BY <1>4 DEF Max
<1> QED BY <1>5


\* The greater of two numbers.
LEMMA MaxOfTwo ==
  ASSUME NEW x \in Int, NEW y \in Int
  PROVE  Max({x, y}) = IF x >= y THEN x ELSE y
<1>1. \E m \in {x, y} : \A k \in {x, y} : m >= k OBVIOUS
<1>2. Max({x, y}) \in {x, y} /\ \A k \in {x, y} : Max({x, y}) >= k BY <1>1 DEF Max
<1> QED BY <1>2

-----------------------------------------------------------------------------
(* The room's moves *)

\* What the user's membership is, in terms of events.
LEMMA MineIs ==
  ASSUME NEW l \in Seq(EventSet), NEW b \in 0..Len(l)
  PROVE  /\ MineOf(l, b) \in Moves \union {None}
         /\ \A k \in Moves :
              MineOf(l, b) = k <=> \E p \in 1..b : l[p].kind = k /\ \A q \in (p + 1)..b : l[q].kind \notin Moves
         /\ MineOf(l, b) = None <=> \A p \in 1..b : l[p].kind \notin Moves
<1> DEFINE S == MovesOf(l, b)
<1>0. None \notin Moves /\ b \in Nat
  <2>1. Len(l) \in Nat OBVIOUS
  <2> QED BY <2>1, ChatAssumption DEF Moves
<1>1. S \in SUBSET (1..b) /\ \A p \in S : l[p].kind \in Moves BY DEF MovesOf
<1>2. \A p \in 1..b : p \in S <=> l[p].kind \in Moves BY DEF MovesOf
<1>3. MineOf(l, b) = IF S = {} THEN None ELSE l[Max(S)].kind BY DEF MineOf
<1> HIDE DEF S
<1>4. CASE S = {} BY <1>0, <1>2, <1>3, <1>4
<1>5. CASE S # {}
  <2>1. Max(S) \in S /\ \A q \in S : q <= Max(S) BY <1>0, <1>1, <1>5, GreatestPosition
  <2>0. PICK m : m = Max(S) OBVIOUS
  <2>2. m \in 1..b /\ l[m].kind \in Moves /\ \A q \in (m + 1)..b : l[q].kind \notin Moves
    <3>1. m \in S /\ m \in 1..b BY <1>1, <2>0, <2>1
    <3>2. \A q \in (m + 1)..b : q \in 1..b /\ ~(q <= m) BY <1>0, <3>1
    <3> QED BY <1>1, <1>2, <2>0, <2>1, <3>1, <3>2
  <2>3. MineOf(l, b) = l[m].kind BY <1>3, <1>5, <2>0
  <2>4. \A p \in 1..b : l[p].kind \in Moves /\ (\A q \in (p + 1)..b : l[q].kind \notin Moves) => p = m
    <3> TAKE p \in 1..b
    <3>1. p < m => m \in (p + 1)..b BY <2>2
    <3>2. m < p => p \in (m + 1)..b BY <2>2
    <3> QED BY <2>2, <3>1, <3>2
  <2> QED BY <1>0, <2>2, <2>3, <2>4
<1> QED BY <1>4, <1>5

\* It is the same in lines that are the same so far.
LEMMA SameMine ==
  ASSUME NEW l, NEW n, NEW b \in Nat, \A p \in 1..b : n[p] = l[p]
  PROVE  MineOf(n, b) = MineOf(l, b)
<1>1. MovesOf(n, b) = MovesOf(l, b) BY DEF MovesOf
<1>2. MovesOf(l, b) # {} => Max(MovesOf(l, b)) \in 1..b
  <2>1. MovesOf(l, b) \in SUBSET (1..b) BY DEF MovesOf
  <2> QED BY <2>1, GreatestPosition
<1> QED BY <1>1, <1>2 DEF MineOf

\* One more event.
LEMMA MoreMine ==
  ASSUME NEW l \in Seq(EventSet), NEW e \in EventSet, NEW n, n = Append(l, e)
  PROVE  /\ n \in Seq(EventSet) /\ Len(n) = Len(l) + 1 /\ n[Len(n)] = e
         /\ \A p \in 1..Len(l) : n[p] = l[p]
         /\ \A b \in 0..Len(l) : MineOf(n, b) = MineOf(l, b)
         /\ MineOf(n, Len(n)) = IF e.kind \in Moves THEN e.kind ELSE MineOf(l, Len(l))
<1>1. /\ n \in Seq(EventSet) /\ Len(n) = Len(l) + 1 /\ n[Len(n)] = e
      /\ \A p \in 1..Len(l) : n[p] = l[p]
  OBVIOUS
<1>2. \A b \in 0..Len(l) : MineOf(n, b) = MineOf(l, b)
  <2> TAKE b \in 0..Len(l)
  <2>1. b \in Nat /\ \A p \in 1..b : n[p] = l[p] BY <1>1
  <2> QED BY <2>1, SameMine
<1>3. Len(l) \in Nat OBVIOUS
<1>4. CASE e.kind \in Moves
  <2>1. n[Len(n)].kind = e.kind /\ \A q \in (Len(n) + 1)..Len(n) : n[q].kind \notin Moves BY <1>1, <1>3
  <2>2. PICK m : m = Len(n) OBVIOUS
  <2>4. m \in 1..m /\ m \in 0..Len(n) /\ n[m].kind = e.kind /\ \A q \in (m + 1)..m : n[q].kind \notin Moves
    BY <1>1, <1>3, <2>1, <2>2
  <2>5. MineOf(n, m) = e.kind
    <3>1. \A k \in Moves :
            MineOf(n, m) = k <=> \E p \in 1..m : n[p].kind = k /\ \A q \in (p + 1)..m : n[q].kind \notin Moves
      BY <1>1, <2>4, MineIs
    <3>2. \E p \in 1..m : n[p].kind = e.kind /\ \A q \in (p + 1)..m : n[q].kind \notin Moves BY <2>4
    <3> QED BY <1>4, <3>1, <3>2
  <2>3. MineOf(n, Len(n)) = e.kind BY <2>2, <2>5
  <2> QED BY <1>1, <1>2, <1>4, <2>3
<1>5. CASE e.kind \notin Moves
  <2>1. MovesOf(n, Len(n)) = MovesOf(n, Len(l)) BY <1>1, <1>3, <1>5 DEF MovesOf
  <2>2. MineOf(n, Len(n)) = MineOf(n, Len(l)) BY <2>1 DEF MineOf
  <2> QED BY <1>1, <1>2, <1>3, <1>5, <2>2
<1> QED BY <1>4, <1>5

\* The same, of what was before.
LEMMA MineBefore ==
  ASSUME NEW l \in Seq(EventSet), NEW e \in EventSet, NEW n, n = Append(l, e), NEW b \in 0..Len(l)
  PROVE  MineOf(n, b) = MineOf(l, b)
BY MoreMine, ZenonT(60)

\* The same, of what is then.
LEMMA MineGrown ==
  ASSUME NEW l \in Seq(EventSet), NEW e \in EventSet, NEW n, n = Append(l, e)
  PROVE  MineOf(n, Len(n)) = IF e.kind \in Moves THEN e.kind ELSE MineOf(l, Len(l))
BY MoreMine, ZenonT(60)

\* What the module says of it.
LEMMA MineDef == \A b : Mine(b) = MineOf(line, b)
BY DEF Mine, MoveTo, MineOf, MovesOf

\* The same after a step.
LEMMA MineDefNext == \A b : Mine(b)' = MineOf(line', b)
BY DEF Mine, MoveTo, MineOf, MovesOf

-----------------------------------------------------------------------------
(* Applying an answer *)

\* One event.
LEMMA OneApplied ==
  ASSUME LineType, NEW r \in RowSet, NEW p \in DOMAIN line
  PROVE  /\ AfterEvent(r, p) \in RowSet
         /\ line[p].kind \in Posts => AfterEvent(r, p)[p] # "none"
         /\ \A q \in Positions : r[q] # "none" \/ TakenBack(q) => AfterEvent(r, p)[q] # "none" \/ TakenBack(q)
<1>1. p \in Positions BY ChatAssumption DEF LineType, Positions
<1>2. r \in [Positions -> {"none", "shown", "edited", "gone"}] BY DEF RowSet
<1>3. CASE line[p].kind \in Posts
  <2>1. AfterEvent(r, p) = [r EXCEPT ![p] = "shown"]
    <3>1. line[p].kind # "edit" /\ line[p].kind # "redact" BY <1>3 DEF Posts
    <3> QED BY <1>3, <3>1 DEF AfterEvent, Inserted
  <2> QED BY <1>1, <1>2, <2>1 DEF RowSet
<1>4. CASE line[p].kind = "edit"
  <2>1. AfterEvent(r, p) = Edited(r, line[p].of) BY <1>4 DEF AfterEvent, Posts
  <2> QED BY <1>1, <1>2, <1>4, <2>1 DEF RowSet, Edited, Posts
<1>5. CASE line[p].kind = "redact"
  <2>1. AfterEvent(r, p) = Redacted(r, line[p].of) BY <1>5 DEF AfterEvent, Posts
  <2>2. line[line[p].of].kind = "react" => TakenBack(line[p].of) BY <1>5 DEF TakenBack
  <2>3. AfterEvent(r, p) \in RowSet BY <1>2, <2>1 DEF RowSet, Redacted
  <2>4. \A q \in Positions : r[q] # "none" => AfterEvent(r, p)[q] # "none" \/ TakenBack(q)
    BY <1>2, <2>1, <2>2 DEF Redacted
  <2> QED BY <1>5, <2>3, <2>4 DEF Posts
<1>6. CASE line[p].kind \notin Posts \union {"edit", "redact"}
  <2>1. AfterEvent(r, p) = r BY <1>6 DEF AfterEvent
  <2> QED BY <1>6, <2>1
<1> QED BY <1>3, <1>4, <1>5, <1>6

\* g holds the rows after each of the events of an answer.
AppliedTo(g, a, n) == g = [p \in a..n |-> IF p = a THEN row ELSE AfterEvent(g[p - 1], p)]

\* There is such a function: AfterEvents is what its recursion says.
LEMMA AppliedExists ==
  ASSUME NEW a \in Nat, NEW n \in Nat, a <= n
  PROVE  \E g : AppliedTo(g, a, n)
<1> DEFINE S == {m \in Nat : a <= m /\ ~\E g : AppliedTo(g, a, m)}
<1> SUFFICES S = {} OBVIOUS
<1> SUFFICES ASSUME S # {} PROVE FALSE OBVIOUS
<1>1. S \in SUBSET Nat OBVIOUS
<1> HIDE DEF S
<1>2. PICK m \in S : \A k \in S : m <= k BY <1>1, LeastNatural
<1>3. m \in Nat /\ a <= m /\ ~\E g : AppliedTo(g, a, m) BY DEF S
<1>4. CASE m = a
  <2>1. AppliedTo([p \in a..a |-> row], a, a) BY DEF AppliedTo
  <2> QED BY <1>3, <1>4, <2>1
<1>5. CASE m # a
  <2>1. m - 1 \in Nat /\ a <= m - 1 /\ m - 1 \notin S BY <1>2, <1>3, <1>5
  <2>2. PICK g : AppliedTo(g, a, m - 1) BY <2>1 DEF S
  <2> DEFINE h == [p \in a..m |-> IF p = m THEN AfterEvent(g[m - 1], m) ELSE g[p]]
  <2>3. \A p \in a..(m - 1) : g[p] = IF p = a THEN row ELSE AfterEvent(g[p - 1], p) BY <2>2 DEF AppliedTo
  <2>4. \A p \in a..m : h[p] = IF p = a THEN row ELSE AfterEvent(h[p - 1], p)
    <3> TAKE p \in a..m
    <3>1. CASE p = m BY <1>3, <1>5, <2>1, <3>1
    <3>2. CASE p # m
      <4>1. p \in a..(m - 1) /\ h[p] = g[p] BY <1>3, <3>2
      <4>2. p # a => p - 1 \in a..m /\ p - 1 # m /\ h[p - 1] = g[p - 1] BY <1>3, <3>2
      <4> QED BY <2>3, <4>1, <4>2
    <3> QED BY <3>1, <3>2
  <2>5. h = [p \in a..m |-> IF p = a THEN row ELSE AfterEvent(h[p - 1], p)]
    <3>1. h = [p \in a..m |-> h[p]] OBVIOUS
    <3> HIDE DEF h
    <3> QED BY <2>4, <3>1
  <2> HIDE DEF h
  <2> QED BY <1>3, <2>5 DEF AppliedTo
<1> QED BY <1>4, <1>5

\* What is said in the events applied has a row afterwards, and what had one
\* keeps it, but for reactions taken back.
LEMMA AllApplied ==
  ASSUME LineType, row \in RowSet, NEW a \in Nat, NEW k \in Nat, a <= k, k <= Len(line)
  PROVE  /\ AfterEvents(a, k) \in RowSet
         /\ \A q \in Positions :
              Has(q) \/ (q \in (a + 1)..k /\ line[q].kind \in Posts) =>
                AfterEvents(a, k)[q] # "none" \/ TakenBack(q)
<1> DEFINE f == CHOOSE g : g = [p \in a..k |-> IF p = a THEN row ELSE AfterEvent(g[p - 1], p)]
<1>1. AfterEvents(a, k) = f[k] BY DEF AfterEvents
<1>2. f = [p \in a..k |-> IF p = a THEN row ELSE AfterEvent(f[p - 1], p)]
  <2>1. \E g : g = [p \in a..k |-> IF p = a THEN row ELSE AfterEvent(g[p - 1], p)] BY AppliedExists DEF AppliedTo
  <2> QED BY <2>1
<1> HIDE DEF f
<1>3. f[a] = row /\ \A p \in (a + 1)..k : f[p] = AfterEvent(f[p - 1], p)
  <2>1. \A p \in a..k : f[p] = IF p = a THEN row ELSE AfterEvent(f[p - 1], p) BY <1>2
  <2> QED BY <2>1
<1> DEFINE Good(n) ==
     /\ f[n] \in RowSet
     /\ \A q \in Positions :
          Has(q) \/ (q \in (a + 1)..n /\ line[q].kind \in Posts) => f[n][q] # "none" \/ TakenBack(q)
<1>4. Good(a) BY <1>3 DEF Has, HasIn, BackIn, TakenBack
<1>5. \A n \in (a + 1)..k : Good(n - 1) => Good(n)
  <2> SUFFICES ASSUME NEW n \in (a + 1)..k, Good(n - 1) PROVE Good(n) OBVIOUS
  <2>1. n \in DOMAIN line /\ f[n - 1] \in RowSet /\ f[n] = AfterEvent(f[n - 1], n) BY <1>3 DEF LineType
  <2> DEFINE r == f[n - 1]
  <2>2. r \in RowSet OBVIOUS
  <2> HIDE DEF r
  <2>3. /\ AfterEvent(r, n) \in RowSet
        /\ line[n].kind \in Posts => AfterEvent(r, n)[n] # "none"
        /\ \A q \in Positions : r[q] # "none" \/ TakenBack(q) => AfterEvent(r, n)[q] # "none" \/ TakenBack(q)
    BY <2>1, <2>2, OneApplied
  <2>4. f[n] = AfterEvent(r, n) BY <2>1 DEF r
  <2>5. \A q \in (a + 1)..n : q = n \/ q \in (a + 1)..(n - 1) OBVIOUS
  <2>6. \A q \in Positions :
          Has(q) \/ (q \in (a + 1)..(n - 1) /\ line[q].kind \in Posts) => r[q] # "none" \/ TakenBack(q)
    BY DEF r
  <2> QED BY <2>3, <2>4, <2>5, <2>6
<1> HIDE DEF Good
<1> DEFINE S == {n \in Nat : n \in a..k /\ ~Good(n)}
<1>6. S = {}
  <2> SUFFICES ASSUME S # {} PROVE FALSE OBVIOUS
  <2>1. S \in SUBSET Nat OBVIOUS
  <2> HIDE DEF S
  <2>2. PICK m \in S : \A n \in S : m <= n BY <2>1, LeastNatural
  <2>3. m \in a..k /\ ~Good(m) BY DEF S
  <2>4. m # a /\ m \in (a + 1)..k /\ m - 1 \in Nat /\ m - 1 \in a..k BY <1>4, <2>3
  <2>5. m - 1 \notin S BY <2>2, <2>4
  <2>6. Good(m - 1) BY <2>4, <2>5 DEF S
  <2> QED BY <1>5, <2>3, <2>4, <2>6
<1>7. Good(k) BY <1>6
<1> QED BY <1>1, <1>7 DEF Good
-----------------------------------------------------------------------------
(* The room grows *)

\* Positions of the timeline are positions.
LEMMA LineFacts ==
  ASSUME LineType
  PROVE  /\ Len(line) \in Nat /\ MaxEvents \in Nat /\ Len(line) <= MaxEvents /\ line \in Seq(EventSet)
         /\ DOMAIN line = 1..Len(line) /\ 1..Len(line) \subseteq Positions
BY ChatAssumption DEF LineType, Positions

\* Who is not in the room, and has not left it, was never in it.
LEMMA NeverIn ==
  ASSUME NEW l \in Seq(EventSet), InvitesFirst(l), MineOf(l, Len(l)) \in {None, "invite"},
         NEW b \in 0..Len(l)
  PROVE  MineOf(l, b) # "join"
<1> SUFFICES ASSUME MineOf(l, b) = "join" PROVE FALSE OBVIOUS
<1>1. PICK m : m = Len(l) OBVIOUS
<1>2. m \in Nat /\ m \in 0..Len(l) /\ b \in 0..m /\ DOMAIN l = 1..m BY <1>1
<1>3. PICK p \in 1..b : l[p].kind = "join" BY MineIs DEF Moves
<1>4. p \in 1..m /\ l[p].kind \in Moves BY <1>2, <1>3 DEF Moves
<1>5. MineOf(l, m) # None BY <1>2, <1>4, MineIs
<1>6. MineOf(l, m) = "invite" BY <1>1, <1>5
<1>7. PICK i \in 1..m : l[i].kind = "invite" /\ \A q \in (i + 1)..m : l[q].kind \notin Moves
  BY <1>2, <1>6, MineIs DEF Moves
<1>8. ~(p < i) BY <1>2, <1>4, <1>7 DEF InvitesFirst
<1>9. ~(i < p)
  <2> SUFFICES ASSUME i < p PROVE FALSE OBVIOUS
  <2>1. p \in (i + 1)..m BY <1>2, <1>4
  <2> QED BY <1>4, <1>7, <2>1
<1> QED BY <1>3, <1>4, <1>7, <1>8, <1>9

\* One more event leaves no gap where there was none.
LEMMA GapGrown ==
  ASSUME NEW l \in Seq(EventSet), InvitesFirst(l), NEW e \in EventSet, NEW n, n = Append(l, e),
         e.kind = "join" => MineOf(l, Len(l)) \in {None, "invite"},
         NEW r, NEW c, NEW b \in 0..Len(l), GaplessIn(l, r, c, b)
  PROVE  GaplessIn(n, r, c, b)
<1>1. /\ n \in Seq(EventSet) /\ Len(n) = Len(l) + 1 /\ n[Len(n)] = e
      /\ \A p \in 1..Len(l) : n[p] = l[p]
      /\ MineOf(n, b) = MineOf(l, b)
      /\ MineOf(n, Len(n)) = IF e.kind \in Moves THEN e.kind ELSE MineOf(l, Len(l))
  <2>1. /\ n \in Seq(EventSet) /\ Len(n) = Len(l) + 1 /\ n[Len(n)] = e
        /\ \A p \in 1..Len(l) : n[p] = l[p]
    BY MoreMine
  <2>2. MineOf(n, b) = MineOf(l, b) BY MineBefore
  <2>3. MineOf(n, Len(n)) = IF e.kind \in Moves THEN e.kind ELSE MineOf(l, Len(l)) BY MineGrown
  <2> QED BY <2>1, <2>2, <2>3
<1> SUFFICES ASSUME MineOf(n, b) = "join", MineOf(n, Len(n)) = "join"
             PROVE  \A p \in 1..b : n[p].kind \in Posts /\ p \notin c => HasIn(n, r, p)
  BY DEF GaplessIn
<1>2. MineOf(l, b) = "join" /\ MineOf(l, Len(l)) = "join" BY <1>1, NeverIn
<1> TAKE p \in 1..b
<1> HAVE n[p].kind \in Posts /\ p \notin c
<1>3. p \in 1..Len(l) /\ n[p] = l[p] BY <1>1
<1>4. HasIn(l, r, p) BY <1>2, <1>3 DEF GaplessIn
<1>5. BackIn(l, p) => BackIn(n, p)
  <2>1. DOMAIN l = 1..Len(l) /\ DOMAIN n = 1..Len(n) BY <1>1
  <2>2. \A q \in DOMAIN l : q \in DOMAIN n /\ n[q] = l[q] BY <1>1, <2>1
  <2> QED BY <1>3, <2>2 DEF BackIn
<1> QED BY <1>4, <1>5 DEF HasIn

\* An invitation to a room without moves comes first.
LEMMA InvitedFirst ==
  ASSUME NEW l \in Seq(EventSet), InvitesFirst(l), NEW e \in EventSet, NEW n, n = Append(l, e),
         e.kind = "invite" => MineOf(l, Len(l)) = None
  PROVE  InvitesFirst(n)
<1>1. PICK m : m = Len(l) OBVIOUS
<1>2. /\ m \in Nat /\ m \in 0..Len(l) /\ DOMAIN l = 1..m /\ DOMAIN n = 1..(m + 1)
      /\ n[m + 1] = e /\ \A p \in 1..m : n[p] = l[p]
  BY <1>1
<1> SUFFICES ASSUME NEW p \in DOMAIN n, NEW q \in DOMAIN n, n[p].kind = "invite", q < p
             PROVE  n[q].kind \notin Moves
  BY DEF InvitesFirst
<1>3. q \in 1..m /\ n[q] = l[q] BY <1>2
<1>4. CASE p = m + 1
  <2>1. MineOf(l, m) = None BY <1>1, <1>2, <1>4
  <2> QED BY <1>2, <1>3, <2>1, MineIs
<1>5. CASE p # m + 1
  <2>1. p \in 1..m /\ l[p].kind = "invite" BY <1>2, <1>5
  <2> QED BY <1>2, <1>3, <2>1 DEF InvitesFirst
<1> QED BY <1>4, <1>5

\* The timeline grows; the cache, the loops and the worker's intents stay.
LEMMA GrowKeeps ==
  ASSUME IInv, NEW e \in EventSet, Grows(e), UNCHANGED <<cacheVars, loop, todo>>,
         e.kind = "invite" => Mine(Len(line)) = None,
         e.kind = "join" => Mine(Len(line)) \in {None, "invite"},
         ReqType', ReqOK'
  PROVE  IInv'
<1> USE DEF IInv, TypesOK, GapInv
<1>0. line' = Append(line, e) /\ Len(line) < MaxEvents BY DEF Grows
<1>1. /\ UNCHANGED <<room, cut, row, token, logged, loop, todo>>
  BY DEF cacheVars
<1>2. /\ Len(line) \in Nat /\ MaxEvents \in Nat /\ line \in Seq(EventSet) /\ DOMAIN line = 1..Len(line)
  BY LineFacts
<1>3. line' \in Seq(EventSet) /\ Len(line') = Len(line) + 1 /\ DOMAIN line \subseteq DOMAIN line'
  BY <1>0, <1>2
<1>4. LineType' BY <1>0, <1>2, <1>3 DEF LineType
<1>5. CacheType' BY <1>1, <1>2, <1>3 DEF CacheType
<1>6. LoopType'
  <2>1. \A l \in Loops : loop[l] \in LoopSet /\ loop[l].upto \in 0..MaxEvents BY DEF LoopType, LoopSet
  <2> QED BY <1>1, <1>2, <1>3, <2>1 DEF LoopType
<1>7. TodoType'
  <2>1. Intents(line) \subseteq Intents(line') BY <1>3 DEF Intents
  <2> QED BY <1>1, <2>1 DEF TodoType
<1>8. e.kind = "invite" => MineOf(line, Len(line)) = None BY MineDef
<1>9. e.kind = "join" => MineOf(line, Len(line)) \in {None, "invite"} BY MineDef
<1>10. InviteFirst' BY <1>0, <1>2, <1>8, InvitedFirst DEF InviteFirst
<1>11. \A b \in 0..Len(line) : GaplessIn(line, row, cut, b) => GaplessIn(line', row, cut, b)
  BY <1>0, <1>2, <1>9, GapGrown DEF InviteFirst
<1>12. Gapless(token)' BY <1>1, <1>11 DEF Gapless, CacheType
<1>13. \A l \in Loops : Gapless(loop[l].since)'
  <2> TAKE l \in Loops
  <2>1. loop[l].since \in 0..Len(line)
    <3>1. /\ loop[l].since \in 0..MaxEvents /\ loop[l].upto \in 0..MaxEvents
          /\ loop[l].since <= loop[l].upto /\ loop[l].upto <= Len(line)
      BY DEF LoopType, LoopSet
    <3> QED BY <1>2, <3>1
  <2> QED BY <1>1, <1>11, <2>1 DEF Gapless
<1>14. Apart' /\ RungOnce' BY <1>1 DEF Apart, RungOnce
<1> QED BY <1>4, <1>5, <1>6, <1>7, <1>10, <1>12, <1>13, <1>14

\* The peer acts.
LEMMA PeerStep ==
  ASSUME IInv, Peer
  PROVE  IInv'
<1>1. /\ UNCHANGED <<cacheVars, loop, todo, req>>
      /\ PeerActs
  BY DEF Peer
<1>2. LineType /\ ReqType /\ ReqOK BY DEF IInv, TypesOK, GapInv
<1>3. Len(line) \in Nat /\ line \in Seq(EventSet) /\ DOMAIN line = 1..Len(line) /\ 1..Len(line) \subseteq 0..MaxEvents
  BY <1>2, LineFacts DEF Positions
<1>4. PICK kind, p : /\ Grows(Event(kind, "peer", p)) /\ p \in 0..MaxEvents
                     /\ \/ kind = "invite" /\ Mine(Len(line)) = None
                        \/ kind \in {"msg", "call", "edit", "redact"} /\ Mine(Len(line)) \in {"invite", "join"}
  <2>1. 0 \in 0..MaxEvents BY ChatAssumption
  <2>2. CASE Mine(Len(line)) = None /\ Grows(Event("invite", "peer", 0)) BY <2>1, <2>2
  <2>3. CASE /\ Mine(Len(line)) \in {"invite", "join"}
             /\ \/ Grows(Event("msg", "peer", 0)) \/ Grows(Event("call", "peer", 0))
                \/ \E p \in Posted(Len(line)) :
                      Grows(Event("edit", "peer", p)) \/ Grows(Event("redact", "peer", p))
    <3>1. \A p \in Posted(Len(line)) : p \in 0..MaxEvents BY <1>3 DEF Posted
    <3> QED BY <2>1, <2>3, <3>1
  <2> QED BY <1>1, <2>2, <2>3 DEF PeerActs
<1>5. PICK e : e = Event(kind, "peer", p) OBVIOUS
<1>6. e \in EventSet /\ e.kind = kind BY <1>4, <1>5 DEF Event, EventSet, Moves, Posts
<1>7. Mine(Len(line)) # "leave" BY <1>4, ChatAssumption
<1>8. ReqType' BY <1>1, <1>2 DEF ReqType
<1>9. ReqOK'
  <2>1. line' = Append(line, e) BY <1>4, <1>5 DEF Grows
  <2>2. \A q \in DOMAIN line : q \in DOMAIN line' /\ line'[q] = line[q] BY <1>3, <2>1
  <2> QED BY <1>1, <1>2, <1>7, <2>2 DEF ReqOK
<1>10. Grows(e) /\ UNCHANGED <<cacheVars, loop, todo>> BY <1>1, <1>4, <1>5
<1>11. e.kind = "invite" => Mine(Len(line)) = None BY <1>4, <1>6
<1>12. e.kind = "join" => Mine(Len(line)) \in {None, "invite"} BY <1>4, <1>6
<1> QED BY <1>6, <1>8, <1>9, <1>10, <1>11, <1>12, GrowKeeps

\* The homeserver does what a request asks.
LEMMA RequestKeeps ==
  ASSUME IInv, NEW kind \in {"join", "leave"} \union Posts \union {"edit", "redact"}, NEW of \in 0..MaxEvents,
         NEW do \in {"store", "edit", "redact", "join", "leave"}, NEW p \in 0..MaxEvents,
         Requests(Event(kind, "me", of), do, p),
         kind = "join" => Mine(Len(line)) \in {None, "invite"},
         do = "redact" => kind = "redact" /\ of = p,
         do = "leave" => kind = "leave"
  PROVE  IInv'
<1>1. PICK e : e = Event(kind, "me", of) OBVIOUS
<1>2. e \in EventSet /\ e.kind = kind /\ e.of = of BY <1>1 DEF Event, EventSet, Moves, Posts
<1>3. Grows(e) /\ UNCHANGED <<cacheVars, loop, todo>> /\ req' = [do |-> do, of |-> p]
  BY <1>1 DEF Requests, Then
<1>4. line' = Append(line, e) BY <1>3 DEF Grows
<1>5. line \in Seq(EventSet) BY LineFacts DEF IInv, TypesOK
<1>6. /\ line' \in Seq(EventSet) /\ DOMAIN line' = 1..Len(line') /\ Len(line') \in 1..Len(line')
      /\ line'[Len(line')] = e
      /\ MineOf(line', Len(line')) = IF e.kind \in Moves THEN e.kind ELSE MineOf(line, Len(line))
  <2>1. /\ line' \in Seq(EventSet) /\ Len(line') = Len(line) + 1 /\ line'[Len(line')] = e
        /\ MineOf(line', Len(line')) = IF e.kind \in Moves THEN e.kind ELSE MineOf(line, Len(line))
    <3>1. line' \in Seq(EventSet) /\ Len(line') = Len(line) + 1 /\ line'[Len(line')] = e
      BY <1>2, <1>4, <1>5, MoreMine
    <3>2. MineOf(line', Len(line')) = IF e.kind \in Moves THEN e.kind ELSE MineOf(line, Len(line))
      BY <1>2, <1>4, <1>5, MineGrown
    <3> QED BY <3>1, <3>2
  <2> QED BY <1>5, <2>1
<1>7. ReqType' BY <1>3 DEF ReqType, ReqSet
<1>8. ReqOK'
  <2>1. req'.do = do /\ req'.of = p BY <1>3
  <2>2. ASSUME do = "redact" PROVE \E q \in DOMAIN line' : line'[q].kind = "redact" /\ line'[q].of = p
    BY <1>2, <1>6, <2>2
  <2>3. ASSUME do = "leave" PROVE Mine(Len(line))' = "leave"
    <3>1. MineOf(line', Len(line')) = "leave" BY <1>2, <1>6, <2>3 DEF Moves
    <3> QED BY <3>1 DEF Mine, MoveTo, MineOf, MovesOf
  <2> QED BY <2>1, <2>2, <2>3 DEF ReqOK
<1>9. e.kind = "invite" => Mine(Len(line)) = None BY <1>2 DEF Posts
<1>10. e.kind = "join" => Mine(Len(line)) \in {None, "invite"} BY <1>2
<1> QED BY <1>2, <1>3, <1>7, <1>8, <1>9, <1>10, GrowKeeps

\* The requests that move the user.
LEMMA RoomStep ==
  ASSUME IInv, RoomNext
  PROVE  IInv'
<1>1. 0 \in 0..MaxEvents BY ChatAssumption
<1>2. CASE CreateDm BY <1>1, <1>2, RequestKeeps DEF CreateDm
<1>3. CASE JoinRoom BY <1>1, <1>3, RequestKeeps DEF JoinRoom
<1>4. CASE LeaveRoom BY <1>1, <1>4, RequestKeeps DEF LeaveRoom
<1>5. CreateDm \/ JoinRoom \/ LeaveRoom
  BY DEF RoomNext, CreateRoom, ApiCreateRoom, McpCreateRoom, ApiJoinRoom, ApiLeaveRoom, McpLeaveRoom
<1> QED BY <1>2, <1>3, <1>4, <1>5

\* The requests that say something.
LEMMA MessageStep ==
  ASSUME IInv, MessageNext
  PROVE  IInv'
<1>1. LineType BY DEF IInv, TypesOK
<1>2. Len(line) \in Nat /\ MaxEvents \in Nat /\ 1..Len(line) \subseteq 0..MaxEvents BY <1>1, LineFacts DEF Positions
<1>3. 0 \in 0..MaxEvents BY <1>2
<1>4. \A p \in Posted(Len(line)) : p \in 0..MaxEvents BY <1>2 DEF Posted
<1>5. ASSUME NEW kind \in Posts, NEW of \in 0..MaxEvents, Requests(Event(kind, "me", of), "store", Here)
      PROVE  IInv'
  <2>1. Len(line) < MaxEvents BY <1>5 DEF Requests, Grows
  <2>2. PICK p : p = Here OBVIOUS
  <2>3. p \in 0..MaxEvents BY <1>2, <2>1, <2>2 DEF Here
  <2>4. Requests(Event(kind, "me", of), "store", p) BY <1>5, <2>2
  <2> QED BY <1>5, <2>3, <2>4, RequestKeeps DEF Posts
<1>6. ASSUME NEW p \in 0..MaxEvents, Requests(Event("redact", "me", p), "redact", p)
      PROVE  IInv'
  BY <1>6, RequestKeeps
<1>7. ASSUME NEW p \in 0..MaxEvents, Requests(Event("edit", "me", p), "edit", p)
      PROVE  IInv'
  BY <1>7, RequestKeeps
<1>8. CASE SendMessage BY <1>3, <1>5, <1>8 DEF SendMessage, Posts
<1>9. CASE StartCall BY <1>3, <1>5, <1>9 DEF StartCall, Posts
<1>10. ASSUME NEW p \in Posted(Len(line)), React(p) PROVE IInv' BY <1>4, <1>5, <1>10 DEF React, Posts
<1>11. ASSUME NEW p \in Posted(Len(line)), ReactToMessage(p) PROVE IInv'
  <2>1. CASE React(p) BY <1>10, <2>1
  <2>2. CASE \E q \in MyReactions(p) : Unreact(q)
    <3>1. PICK q \in Posted(Len(line)) : Unreact(q) BY <2>2 DEF MyReactions
    <3> QED BY <1>4, <1>6, <3>1 DEF Unreact
  <2> QED BY <1>11, <2>1, <2>2 DEF ReactToMessage
<1>12. ASSUME NEW p \in Posted(Len(line)), ApiReactToMessage(p) PROVE IInv'
  BY <1>10, <1>12 DEF ApiReactToMessage
<1>13. ASSUME NEW p \in Posted(Len(line)), EditMessage(p) PROVE IInv' BY <1>4, <1>7, <1>13 DEF EditMessage
<1>14. ASSUME NEW p \in Posted(Len(line)), RedactMessage(p) PROVE IInv'
  BY <1>4, <1>6, <1>14 DEF RedactMessage
<1>15. ASSUME NEW p \in Posted(Len(line)), AnswerCall(p) PROVE IInv' BY <1>4, <1>5, <1>15 DEF AnswerCall, Posts
<1>16. \/ SendMessage \/ StartCall
       \/ \E p \in Posted(Len(line)) :
            \/ ReactToMessage(p) \/ ApiReactToMessage(p) \/ EditMessage(p) \/ RedactMessage(p) \/ AnswerCall(p)
  BY DEF MessageNext, UploadToRoom, ApiSendMessage, McpSendMessage, McpReact, ApiEditMessage, McpEditMessage,
         ApiRedactMessage, McpDeleteMessage, SendCandidates, HangupCall
<1> QED BY <1>8, <1>9, <1>11, <1>12, <1>13, <1>14, <1>15, <1>16

-----------------------------------------------------------------------------
(* An answer is applied *)

\* Where the events of an answer begin.
LEMMA FromIs ==
  ASSUME NEW a \in Nat, NEW b \in Nat, a <= b
  PROVE  /\ Since(a, b) \in {0, a} /\ Since(a, b) \in Nat /\ Since(a, b) <= From(a, b)
         /\ From(a, b) \in Nat /\ From(a, b) <= b
         /\ Since(a, b) = a \/ New("join", a, b)
<1>1. Since(a, b) \in {0, a} /\ (New("join", a, b) => Since(a, b) = 0) /\ (~New("join", a, b) => Since(a, b) = a)
  BY DEF Since
<1>2. PICK s \in Nat : s = Since(a, b) BY <1>1
<1>3. Window \in Nat /\ Window > 0 BY ChatAssumption
<1>4. From(a, b) = IF s >= b - Window THEN s ELSE b - Window
  <2>1. b - Window \in Int BY <1>3
  <2>2. Max({s, b - Window}) = IF s >= b - Window THEN s ELSE b - Window BY <2>1, MaxOfTwo
  <2> QED BY <1>2, <2>2 DEF From
<1>5. s <= b BY <1>1, <1>2
<1> QED BY <1>1, <1>2, <1>3, <1>4, <1>5

\* Rows that keep what they have, and more positions left out, have no new gap.
LEMMA GapKept ==
  ASSUME NEW l \in Seq(EventSet), NEW r, NEW c, NEW s, NEW d, c \subseteq d,
         \A q \in 1..Len(l) : HasIn(l, r, q) => HasIn(l, s, q),
         NEW b \in 0..Len(l), GaplessIn(l, r, c, b)
  PROVE  GaplessIn(l, s, d, b)
<1>1. \A p \in 1..b : p \in 1..Len(l) OBVIOUS
<1> QED BY <1>1 DEF GaplessIn

\* There is no gap in nothing.
LEMMA NothingBefore == \A l, r, c : GaplessIn(l, r, c, 0)
<1>1. 1..0 = {} OBVIOUS
<1> QED BY <1>1 DEF GaplessIn

\* What has a row keeps it.
RowsKept == \A q \in 1..Len(line) : HasIn(line, row, q) => HasIn(line, row', q)

\* What an answer, or a part of it, does to the cache.
LEMMA RoomsApplied ==
  ASSUME LineType, CacheType, NEW a \in Nat, NEW b \in Nat, a <= b, b <= Len(line),
         NEW k \in From(a, b)..b, ProcessRooms(a, b, k)
  PROVE  /\ room' \in {None, "invite", "join", "leave"} /\ cut' \subseteq Positions /\ row' \in RowSet
         /\ cut \subseteq cut' /\ RowsKept
<1>1. /\ Len(line) \in Nat /\ DOMAIN line = 1..Len(line) /\ 1..Len(line) \subseteq Positions
  BY LineFacts
<1>2. /\ Since(a, b) \in Nat /\ From(a, b) \in Nat /\ From(a, b) <= b BY FromIs
<1>3. CASE ProcessJoined(a, b, k)
  <2>1. PICK f \in Nat : f = From(a, b) BY <1>2
  <2>2. k \in Nat /\ f <= k /\ k <= Len(line) BY <1>1, <1>2, <2>1
  <2>3. /\ AfterEvents(f, k) \in RowSet
        /\ \A q \in Positions : Has(q) => AfterEvents(f, k)[q] # "none" \/ TakenBack(q)
    BY <2>2, AllApplied DEF CacheType
  <2>4. row' = AfterEvents(f, k) BY <1>3, <2>1 DEF ProcessJoined
  <2>5. RowsKept
    <3> SUFFICES ASSUME NEW q \in 1..Len(line), HasIn(line, row, q) PROVE HasIn(line, row', q) BY DEF RowsKept
    <3>1. q \in Positions /\ Has(q) BY <1>1 DEF Has
    <3>2. row'[q] # "none" \/ TakenBack(q) BY <2>3, <2>4, <3>1
    <3> QED BY <3>2 DEF HasIn, BackIn, TakenBack
  <2>6. cut \subseteq cut' /\ cut' \subseteq Positions
    <3>1. (Since(a, b) + 1)..From(a, b) \subseteq Positions
      <4>1. (Since(a, b) + 1)..From(a, b) \subseteq 1..Len(line) BY <1>1, <1>2
      <4> QED BY <1>1, <4>1
    <3> QED BY <1>3, <3>1 DEF ProcessJoined, CacheType
  <2> QED BY <1>3, <2>3, <2>4, <2>5, <2>6 DEF ProcessJoined
<1>4. CASE row' = row /\ cut' = cut /\ room' \in {room, "invite", "leave"}
  BY <1>4 DEF CacheType, RowsKept
<1>5. \/ ProcessJoined(a, b, k)
      \/ row' = row /\ cut' = cut /\ room' \in {room, "invite", "leave"}
  <2>1. ProcessInvite => row' = row /\ cut' = cut /\ room' \in {room, "invite", "leave"} BY DEF ProcessInvite
  <2>2. ProcessLeave => row' = row /\ cut' = cut /\ room' \in {room, "invite", "leave"} BY DEF ProcessLeave
  <2> QED BY <2>1, <2>2, Zenon DEF ProcessRooms
<1> QED BY <1>3, <1>4, <1>5

\* All of an answer closes the gap it is about.
LEMMA GapClosed ==
  ASSUME LineType, CacheType, NEW a \in Nat, NEW b \in Nat, a <= b, b <= Len(line),
         ProcessRooms(a, b, b), Gapless(a), UNCHANGED line
  PROVE  GaplessIn(line, row', cut', b)
<1>1. /\ Len(line) \in Nat /\ DOMAIN line = 1..Len(line) /\ 1..Len(line) \subseteq Positions
      /\ line \in Seq(EventSet)
  BY LineFacts
<1>2. /\ Since(a, b) \in {0, a} /\ Since(a, b) \in Nat /\ Since(a, b) <= From(a, b)
      /\ From(a, b) \in Nat /\ From(a, b) <= b
      /\ Since(a, b) = a \/ New("join", a, b)
  BY FromIs
<1>3. cut \subseteq cut' /\ RowsKept
  <2>1. b \in From(a, b)..b BY <1>2
  <2> QED BY <2>1, RoomsApplied
<1>4. CASE a = b
  <2>1. a \in 0..Len(line) BY <1>1
  <2>2. GaplessIn(line, row', cut', a) BY <1>1, <1>3, <2>1, GapKept DEF RowsKept, Gapless
  <2> QED BY <1>4, <2>2
<1>5. CASE a < b
  <2> SUFFICES ASSUME MineOf(line, b) = "join", MineOf(line, Len(line)) = "join",
                      NEW p \in 1..b, line[p].kind \in Posts, p \notin cut'
               PROVE  HasIn(line, row', p)
    BY DEF GaplessIn
  <2>1. ProcessJoined(a, b, b)
    <3>1. Mine(b) = "join" BY MineDef
    <3> QED BY <1>5, <3>1 DEF ProcessRooms
  <2>2. PICK f \in Nat : f = From(a, b) BY <1>2
  <2>3. row' = AfterEvents(f, b) /\ cut' = cut \union (Since(a, b) + 1)..f BY <2>1, <2>2 DEF ProcessJoined
  <2>4. p \in 1..Len(line) /\ p \in Positions BY <1>1
  <2>5. CASE p \in (f + 1)..b
    <3>1. \A q \in Positions : q \in (f + 1)..b /\ line[q].kind \in Posts =>
            AfterEvents(f, b)[q] # "none" \/ TakenBack(q)
      BY <1>2, <2>2, AllApplied DEF CacheType
    <3>2. row'[p] # "none" \/ TakenBack(p) BY <2>3, <2>4, <2>5, <3>1
    <3> QED BY <3>2 DEF HasIn, BackIn, TakenBack
  <2>6. CASE p \in 1..Since(a, b)
    <3>1. Since(a, b) = a /\ p \in 1..a BY <1>2, <2>6
    <3>2. ~New("join", a, b) \/ Since(a, b) = 0 BY DEF Since
    <3>3. \A q \in (a + 1)..b : line[q].kind # "join" BY <2>6, <3>2 DEF New
    <3>4. MineOf(line, a) = "join"
      <4>1. b \in 0..Len(line) /\ a \in 0..Len(line) BY <1>1, <1>5
      <4>2. PICK j \in 1..b : line[j].kind = "join" /\ \A q \in (j + 1)..b : line[q].kind \notin Moves
        BY <1>1, <4>1, MineIs DEF Moves
      <4>3. j \in 1..a /\ \A q \in (j + 1)..a : line[q].kind \notin Moves BY <1>5, <3>3, <4>2
      <4> QED BY <1>1, <4>1, <4>2, <4>3, MineIs DEF Moves
    <3>5. p \notin cut BY <2>3
    <3>6. HasIn(line, row, p) BY <3>1, <3>4, <3>5 DEF Gapless, GaplessIn
    <3> QED BY <1>3, <2>4, <3>6 DEF RowsKept
  <2>7. p \in 1..Since(a, b) \/ p \in (f + 1)..b BY <1>2, <2>2, <2>3
  <2> QED BY <2>5, <2>6, <2>7
<1> QED BY <1>4, <1>5

-----------------------------------------------------------------------------
(* The loops *)

\* What is known of the answer a loop waits for.
LEMMA LoopFacts ==
  ASSUME IInv, NEW l \in Loops
  PROVE  /\ loop[l].since \in 0..Len(line) /\ loop[l].upto \in 0..Len(line)
         /\ loop[l].since <= loop[l].upto /\ Gapless(loop[l].since)
         /\ loop[l] \in LoopSet
<1>1. /\ loop[l] \in LoopSet /\ Gapless(loop[l].since)
      /\ loop[l].since <= loop[l].upto /\ loop[l].upto <= Len(line)
  BY DEF IInv, TypesOK, GapInv, LoopType
<1>2. Len(line) \in Nat /\ MaxEvents \in Nat BY LineFacts DEF IInv, TypesOK
<1> QED BY <1>1, <1>2 DEF LoopSet

\* A loop leaves the place it is at.
LEMMA GoesIs ==
  ASSUME IInv, NEW l \in Loops, NEW at \in {"off", "ready"}, Goes(l, at)
  PROVE  /\ loop' \in [Loops -> LoopSet] /\ loop'[l].since = 0 /\ loop'[l].upto = 0
         /\ \A m \in Loops : m # l => loop'[m] = loop[m]
<1>1. PICK r : r = [Idle EXCEPT !.at = at] OBVIOUS
<1>2. r = [at |-> at, since |-> 0, upto |-> 0] BY <1>1 DEF Idle
<1>3. loop' = [loop EXCEPT ![l] = r] BY <1>1 DEF Goes
<1>4. r \in LoopSet /\ r.since = 0 /\ r.upto = 0 BY <1>2, ChatAssumption DEF LoopSet
<1>5. loop \in [Loops -> LoopSet] BY DEF IInv, TypesOK, LoopType
<1> QED BY <1>3, <1>4, <1>5

\* A loop leaves the place it is at, with what it did to the cache and to the
\* worker's intents.
LEMMA GoesKeeps ==
  ASSUME IInv, NEW l \in Loops, NEW at \in {"off", "ready"}, Goes(l, at),
         UNCHANGED <<line, logged, req>>,
         room' \in {None, "invite", "join", "leave"}, cut' \subseteq Positions, row' \in RowSet,
         cut \subseteq cut', RowsKept, token' \in 0..Len(line), GaplessIn(line, row', cut', token'),
         TodoType', Apart', RungOnce'
  PROVE  IInv'
<1> USE DEF IInv, TypesOK, GapInv
<1>1. line \in Seq(EventSet) /\ Len(line) \in Nat BY LineFacts
<1>2. \A b \in 0..Len(line) : GaplessIn(line, row, cut, b) => GaplessIn(line, row', cut', b)
  BY <1>1, GapKept DEF RowsKept
<1>3. /\ loop' \in [Loops -> LoopSet] /\ loop'[l].since = 0 /\ loop'[l].upto = 0
      /\ \A m \in Loops : m # l => loop'[m] = loop[m]
  BY GoesIs
<1>4. \A m \in Loops : /\ loop[m].since <= loop[m].upto /\ loop[m].upto <= Len(line)
                       /\ loop[m].since \in 0..Len(line) /\ Gapless(loop[m].since)
  BY LoopFacts
<1>5. LoopType'
  <2>1. \A m \in Loops : loop'[m].since <= loop'[m].upto /\ loop'[m].upto <= Len(line)
    <3> TAKE m \in Loops
    <3>1. CASE m = l BY <1>1, <1>3, <3>1
    <3>2. CASE m # l BY <1>3, <1>4, <3>2
    <3> QED BY <3>1, <3>2
  <2> QED BY <1>3, <2>1 DEF LoopType
<1>6. \A m \in Loops : Gapless(loop[m].since)'
  <2> TAKE m \in Loops
  <2>1. GaplessIn(line, row', cut', loop'[m].since)
    <3>1. CASE m = l BY <1>3, <3>1, NothingBefore
    <3>2. CASE m # l
      <4>1. GaplessIn(line, row, cut, loop[m].since) BY <1>4 DEF Gapless
      <4>2. GaplessIn(line, row', cut', loop[m].since) BY <1>2, <1>4, <4>1
      <4> QED BY <1>3, <3>2, <4>2
    <3> QED BY <3>1, <3>2
  <2> QED BY <2>1 DEF Gapless
<1>7. LineType' /\ CacheType' /\ ReqType' BY DEF LineType, CacheType, ReqType
<1>8. InviteFirst' BY DEF InviteFirst
<1>9. Gapless(token)' BY DEF Gapless
<1>10. ReqOK' BY DEF ReqOK, Mine, MoveTo
<1> QED BY <1>5, <1>6, <1>7, <1>8, <1>9, <1>10

\* A loop asks, or gets an answer.
LEMMA LoopKeeps ==
  ASSUME IInv, NEW l \in Loops, NEW r \in LoopSet, loop' = [loop EXCEPT ![l] = r],
         UNCHANGED <<line, cacheVars, todo, req>>,
         r.since <= r.upto, r.upto <= Len(line), Gapless(r.since)
  PROVE  IInv'
<1> USE DEF IInv, TypesOK, GapInv
<1>1. UNCHANGED <<line, room, cut, row, token, logged, todo, req>> BY DEF cacheVars
<1>2. \A m \in Loops : loop'[m] = IF m = l THEN r ELSE loop[m] BY DEF LoopType
<1>3. LoopType'
  <2>1. loop' \in [Loops -> LoopSet] BY DEF LoopType
  <2>2. \A m \in Loops : loop'[m].since <= loop'[m].upto /\ loop'[m].upto <= Len(line)
    BY <1>2 DEF LoopType
  <2> QED BY <1>1, <2>1, <2>2 DEF LoopType
<1>4. \A m \in Loops : Gapless(loop[m].since)'
  <2> TAKE m \in Loops
  <2>1. GaplessIn(line, row, cut, loop'[m].since)
    <3>1. CASE m = l BY <1>2, <3>1 DEF Gapless
    <3>2. CASE m # l BY <1>2, <3>2 DEF Gapless
    <3> QED BY <3>1, <3>2
  <2> QED BY <1>1, <2>1 DEF Gapless
<1>5. LineType' /\ CacheType' /\ ReqType' /\ TodoType' BY <1>1 DEF LineType, CacheType, ReqType, TodoType
<1>6. InviteFirst' /\ Gapless(token)' BY <1>1 DEF InviteFirst, Gapless
<1>7. ReqOK' BY <1>1 DEF ReqOK, Mine, MoveTo
<1>8. Apart' /\ RungOnce' BY <1>1 DEF Apart, RungOnce
<1> QED BY <1>3, <1>4, <1>5, <1>6, <1>7, <1>8

\* It asks for what is new since the stored token.
LEMMA AsksStep ==
  ASSUME IInv, NEW l \in Loops, Asks(l)
  PROVE  IInv'
<1>1. PICK r : r = [at |-> "asks", since |-> token, upto |-> token] OBVIOUS
<1>2. token \in 0..Len(line) /\ Gapless(token) BY DEF IInv, TypesOK, GapInv, CacheType
<1>3. Len(line) \in Nat /\ MaxEvents \in Nat /\ Len(line) <= MaxEvents BY LineFacts DEF IInv, TypesOK
<1>4. r \in LoopSet /\ r.since = token /\ r.upto = token BY <1>1, <1>2, <1>3 DEF LoopSet
<1>5. loop' = [loop EXCEPT ![l] = r] /\ UNCHANGED <<line, cacheVars, todo, req>> BY <1>1 DEF Asks
<1>6. r.since <= r.upto /\ r.upto <= Len(line) /\ Gapless(r.since) BY <1>2, <1>3, <1>4
<1> QED BY <1>4, <1>5, <1>6, LoopKeeps

\* The homeserver answers with the timeline as it is.
LEMMA AnswerStep ==
  ASSUME IInv, NEW l \in Loops, Answer(l)
  PROVE  IInv'
<1>1. /\ loop[l].since \in 0..Len(line) /\ loop[l] \in LoopSet /\ Gapless(loop[l].since)
  BY LoopFacts
<1>2. Len(line) \in Nat /\ MaxEvents \in Nat /\ Len(line) <= MaxEvents BY LineFacts DEF IInv, TypesOK
<1>3. PICK r : r = [at |-> "answered", since |-> loop[l].since, upto |-> Len(line)] OBVIOUS
<1>4. r \in LoopSet /\ r.since = loop[l].since /\ r.upto = Len(line) BY <1>1, <1>2, <1>3 DEF LoopSet
<1>5. loop' = [loop EXCEPT ![l] = r]
  <2>1. PICK x : x = loop[l] OBVIOUS
  <2>2. PICK y : y = [x EXCEPT !.at = "answered", !.upto = Len(line)] OBVIOUS
  <2>3. y = r
    <3>1. x \in LoopSet BY <1>1, <2>1
    <3>2. y.at = "answered" /\ y.since = x.since /\ y.upto = Len(line) BY <2>2, <3>1 DEF LoopSet
    <3>3. y = [at |-> y.at, since |-> y.since, upto |-> y.upto] BY <2>2, <3>1 DEF LoopSet
    <3> QED BY <1>3, <2>1, <3>2, <3>3
  <2>4. loop' = [loop EXCEPT ![l] = [x EXCEPT !.at = "answered", !.upto = Len(line)]]
    BY <2>1 DEF Answer
  <2> QED BY <2>2, <2>3, <2>4
<1>6. UNCHANGED <<line, cacheVars, todo, req>> BY DEF Answer
<1>7. r.since <= r.upto /\ r.upto <= Len(line) /\ Gapless(r.since) BY <1>1, <1>2, <1>4
<1> QED BY <1>4, <1>5, <1>6, <1>7, LoopKeeps

\* A loop applies an answer, or a part of it.
LEMMA AppliedKeeps ==
  ASSUME IInv, NEW l \in Loops, NEW at \in {"off", "ready"}, Goes(l, at), UNCHANGED <<line, logged, req>>,
         ProcessSync(loop[l].since, loop[l].upto) \/ ProcessPart(loop[l].since, loop[l].upto),
         TodoType', Apart', RungOnce'
  PROVE  IInv'
<1>1. PICK a, b : a = loop[l].since /\ b = loop[l].upto OBVIOUS
<1>2. a \in Nat /\ b \in Nat /\ a <= b /\ b <= Len(line) /\ b \in 0..Len(line) /\ Gapless(a)
  <2>1. /\ loop[l].since \in 0..Len(line) /\ loop[l].upto \in 0..Len(line)
        /\ loop[l].since <= loop[l].upto /\ Gapless(loop[l].since)
    BY LoopFacts
  <2>2. Len(line) \in Nat BY LineFacts DEF IInv, TypesOK
  <2> QED BY <1>1, <2>1, <2>2
<1>3. LineType /\ CacheType /\ Gapless(token) /\ token \in 0..Len(line) BY DEF IInv, TypesOK, GapInv, CacheType
<1>4. CASE ProcessSync(a, b)
  <2>1. b \in From(a, b)..b BY <1>2, FromIs
  <2>2. /\ room' \in {None, "invite", "join", "leave"} /\ cut' \subseteq Positions /\ row' \in RowSet
        /\ cut \subseteq cut' /\ RowsKept
    BY <1>2, <1>3, <1>4, <2>1, RoomsApplied DEF ProcessSync
  <2>3. GaplessIn(line, row', cut', token') /\ token' \in 0..Len(line)
    BY <1>2, <1>3, <1>4, GapClosed DEF ProcessSync
  <2> QED BY <2>2, <2>3, GoesKeeps
<1>5. CASE ProcessPart(a, b)
  <2>1. PICK k \in From(a, b)..b : ProcessRooms(a, b, k) BY <1>5 DEF ProcessPart
  <2>2. /\ room' \in {None, "invite", "join", "leave"} /\ cut' \subseteq Positions /\ row' \in RowSet
        /\ cut \subseteq cut' /\ RowsKept
    BY <1>2, <1>3, <2>1, RoomsApplied
  <2>3. token' = token BY <1>5 DEF ProcessPart
  <2>4. GaplessIn(line, row', cut', token')
    <3>1. line \in Seq(EventSet) BY <1>3, LineFacts
    <3> QED BY <1>3, <2>2, <2>3, <3>1, GapKept DEF RowsKept, Gapless
  <2> QED BY <1>3, <2>2, <2>3, <2>4, GoesKeeps
<1> QED BY <1>1, <1>4, <1>5

\* A loop stops before it has an answer.
LEMMA StopsKeeps ==
  ASSUME IInv, NEW l \in Loops, NEW at \in {"off", "ready"}, Goes(l, at),
         UNCHANGED <<line, cacheVars, todo, req>>
  PROVE  IInv'
<1>1. UNCHANGED <<line, room, cut, row, token, logged, todo, req>> BY DEF cacheVars
<1>2. /\ room' \in {None, "invite", "join", "leave"} /\ cut' \subseteq Positions /\ row' \in RowSet
      /\ cut \subseteq cut' /\ token' \in 0..Len(line)
  BY <1>1 DEF IInv, TypesOK, CacheType
<1>3. RowsKept BY <1>1 DEF RowsKept
<1>4. GaplessIn(line, row', cut', token') BY <1>1 DEF IInv, GapInv, Gapless
<1>5. TodoType' /\ Apart' /\ RungOnce' BY <1>1 DEF IInv, TypesOK, TodoType, Apart, RungOnce
<1> QED BY <1>1, <1>2, <1>3, <1>4, <1>5, GoesKeeps

\* Intents that stay are still right.
LEMMA TodoKept ==
  ASSUME IInv, UNCHANGED <<line, logged, todo>>
  PROVE  TodoType' /\ Apart' /\ RungOnce'
BY DEF IInv, TypesOK, TodoType, Apart, RungOnce

\* The steps of a stream.
LEMMA StreamStep ==
  ASSUME IInv, NEW t \in Tabs, StreamNext(t)
  PROVE  IInv'
<1>1. t \in Loops BY DEF Loops
<1>2. CASE OpenTab(t) BY <1>1, <1>2, StopsKeeps DEF OpenTab
<1>3. CASE StreamAsks(t) BY <1>1, <1>3, AsksStep DEF StreamAsks
<1>4. CASE Answer(t) BY <1>1, <1>4, AnswerStep
<1>5. CASE StreamSync(t)
  <2>1. TodoType' /\ Apart' /\ RungOnce' BY <1>5, TodoKept DEF StreamSync
  <2>2. /\ ProcessSync(loop[t].since, loop[t].upto) /\ UNCHANGED <<line, logged, req>>
        /\ Goes(t, "ready") \/ Goes(t, "off")
    BY <1>5 DEF StreamSync, StreamGoesOn
  <2> QED BY <1>1, <2>1, <2>2, AppliedKeeps
<1>6. CASE StreamFails(t)
  <2>1. TodoType' /\ Apart' /\ RungOnce' BY <1>6, TodoKept DEF StreamFails
  <2>2. UNCHANGED <<line, logged, todo, req>> /\ (Goes(t, "ready") \/ Goes(t, "off"))
    BY <1>6 DEF StreamFails, StreamGoesOn
  <2>3. CASE UNCHANGED <<room, cut, row, token>>
    <3>1. UNCHANGED <<line, cacheVars, todo, req>> BY <2>2, <2>3 DEF cacheVars
    <3> QED BY <1>1, <2>2, <3>1, StopsKeeps
  <2>4. CASE ProcessPart(loop[t].since, loop[t].upto) BY <1>1, <2>1, <2>2, <2>4, AppliedKeeps
  <2> QED BY <1>6, <2>3, <2>4 DEF StreamFails
<1> QED BY <1>2, <1>3, <1>4, <1>5, <1>6 DEF StreamNext

\* The steps of sync_now.
LEMMA NowStep ==
  ASSUME IInv, SyncNow \/ Answer(Now) \/ SyncNowEnds
  PROVE  IInv'
<1>1. Now \in Loops BY DEF Loops
<1>2. CASE SyncNow BY <1>1, <1>2, AsksStep DEF SyncNow
<1>3. CASE Answer(Now) BY <1>1, <1>3, AnswerStep
<1>4. CASE SyncNowEnds
  <2>1. TodoType' /\ Apart' /\ RungOnce' BY <1>4, TodoKept DEF SyncNowEnds
  <2>2. UNCHANGED <<line, logged, todo, req>> /\ Goes(Now, "off") BY <1>4 DEF SyncNowEnds
  <2>3. CASE UNCHANGED <<room, cut, row, token>>
    <3>1. UNCHANGED <<line, cacheVars, todo, req>> BY <2>2, <2>3 DEF cacheVars
    <3> QED BY <1>1, <2>2, <3>1, StopsKeeps
  <2>4. CASE ProcessSync(loop[Now].since, loop[Now].upto) \/ ProcessPart(loop[Now].since, loop[Now].upto)
    BY <1>1, <2>1, <2>2, <2>4, AppliedKeeps
  <2> QED BY <1>4, <2>3, <2>4 DEF SyncNowEnds
<1> QED BY <1>2, <1>3, <1>4

-----------------------------------------------------------------------------
(* The push worker *)

\* The positions of S up to m.
UpTo(S, m) == {q \in S : q <= m}
Below(S, m) == {q \in S : q < m}

\* InOrder names an element for each number.
LEMMA InOrderExists ==
  ASSUME NEW n \in Nat, NEW S \in SUBSET (1..n), NEW i \in 1..Cardinality(S)
  PROVE  \E p \in S : Cardinality({q \in S : q < p}) = i - 1
<1>0. \A q \in S : q \in Nat /\ q >= 1 /\ q <= n OBVIOUS
<1>1. IsFiniteSet(S) /\ Cardinality(S) \in Nat
  <2>1. IsFiniteSet(1..n) BY FS_Interval
  <2>2. IsFiniteSet(S) BY <2>1, FS_Subset
  <2> QED BY <2>2, FS_CardinalityType
<1>2. \A m : /\ IsFiniteSet(UpTo(S, m)) /\ Cardinality(UpTo(S, m)) \in Nat
             /\ IsFiniteSet(Below(S, m)) /\ Cardinality(Below(S, m)) \in Nat
  <2> TAKE m
  <2>1. UpTo(S, m) \subseteq S /\ Below(S, m) \subseteq S BY DEF UpTo, Below
  <2> QED BY <1>1, <2>1, FS_Subset, FS_CardinalityType
<1> DEFINE T == {m \in 0..n : Cardinality(UpTo(S, m)) >= i}
<1>3. n \in T
  <2>1. UpTo(S, n) = S
    <3>1. \A q \in S : q <= n BY <1>0
    <3> QED BY <3>1 DEF UpTo
  <2> QED BY <1>1, <2>1
<1>4. T \subseteq Nat OBVIOUS
<1>5. PICK m \in T : \A k \in T : m <= k
  <2> HIDE DEF T
  <2> QED BY <1>3, <1>4, LeastNatural
<1>6. m # 0
  <2>1. UpTo(S, 0) = {}
    <3>1. \A q \in S : ~(q <= 0) BY <1>0
    <3> QED BY <3>1 DEF UpTo
  <2>2. Cardinality(UpTo(S, 0)) = 0 BY <2>1, FS_EmptySet
  <2> QED BY <2>2
<1>7. m \in 1..n /\ m - 1 \in 0..n BY <1>5, <1>6
<1>8. Cardinality(UpTo(S, m - 1)) < i
  <2>1. m - 1 \notin T BY <1>5, <1>7
  <2> QED BY <1>2, <1>7, <2>1
<1>9. UpTo(S, m - 1) = Below(S, m)
  <2>1. \A q \in S : q <= m - 1 <=> q < m BY <1>0, <1>7
  <2> QED BY <2>1 DEF UpTo, Below
<1>10. m \in S
  <2> SUFFICES ASSUME m \notin S PROVE FALSE OBVIOUS
  <2>1. UpTo(S, m) = Below(S, m)
    <3>1. \A q \in S : q <= m <=> q < m BY <1>0, <1>7
    <3> QED BY <3>1 DEF UpTo, Below
  <2> QED BY <1>2, <1>5, <1>8, <1>9, <2>1
<1>11. UpTo(S, m) = Below(S, m) \union {m} /\ m \notin Below(S, m)
  <2>1. \A q \in S : q <= m <=> q < m \/ q = m BY <1>0, <1>7
  <2>2. m <= m /\ ~(m < m) BY <1>7
  <2> QED BY <1>10, <2>1, <2>2 DEF UpTo, Below
<1>12. Cardinality(UpTo(S, m)) = Cardinality(Below(S, m)) + 1 BY <1>2, <1>11, FS_AddElement
<1>13. Cardinality(Below(S, m)) = i - 1 BY <1>2, <1>5, <1>8, <1>9, <1>12
<1> QED BY <1>10, <1>13 DEF Below

\* One intent for each element, no two of the same.
LEMMA OneEachIs ==
  ASSUME NEW l \in Seq(EventSet), NEW S \in SUBSET (1..Len(l))
  PROVE  /\ OneEach(S) \in Seq(Intents(l))
         /\ \A i \in DOMAIN OneEach(S) : OneEach(S)[i].sent = FALSE /\ OneEach(S)[i].of \subseteq S
         /\ \A i, j \in DOMAIN OneEach(S) : i # j => OneEach(S)[i].of \cap OneEach(S)[j].of = {}
<1>1. PICK n \in Nat : n = Len(l) /\ DOMAIN l = 1..n OBVIOUS
<1>2. PICK c : c = Cardinality(S) OBVIOUS
<1>3. c \in Nat
  <2>1. IsFiniteSet(1..n) BY FS_Interval
  <2>2. IsFiniteSet(S) BY <1>1, <2>1, FS_Subset
  <2> QED BY <1>2, <2>2, FS_CardinalityType
<1>4. PICK ps : ps = InOrder(S) OBVIOUS
<1>5. ps = [i \in 1..c |-> CHOOSE p \in S : Cardinality({q \in S : q < p}) = i - 1] BY <1>2, <1>4 DEF InOrder
<1>6. \A i \in 1..c : ps[i] \in S /\ Cardinality({q \in S : q < ps[i]}) = i - 1
  <2> TAKE i \in 1..c
  <2>1. \E p \in S : Cardinality({q \in S : q < p}) = i - 1 BY <1>1, <1>2, InOrderExists
  <2>2. ps[i] = CHOOSE p \in S : Cardinality({q \in S : q < p}) = i - 1 BY <1>5
  <2> QED BY <2>1, <2>2
<1>7. \A i, j \in 1..c : ps[i] = ps[j] => i = j
  <2> TAKE i, j \in 1..c
  <2> HAVE ps[i] = ps[j]
  <2>1. i - 1 = j - 1 BY <1>6
  <2> QED BY <1>3, <2>1
<1>8. OneEach(S) = [i \in 1..c |-> [of |-> {ps[i]}, sent |-> FALSE]]
  <2>1. DOMAIN ps = 1..c BY <1>5
  <2> QED BY <1>4, <2>1 DEF OneEach, Intent
<1>9. PICK os : os = OneEach(S) OBVIOUS
<1>10. DOMAIN os = 1..c /\ \A i \in 1..c : os[i].of = {ps[i]} /\ os[i].sent = FALSE /\ os[i] \in Intents(l)
  <2>1. DOMAIN os = 1..c /\ \A i \in 1..c : os[i] = [of |-> {ps[i]}, sent |-> FALSE] BY <1>8, <1>9
  <2>2. \A i \in 1..c : {ps[i]} \in SUBSET DOMAIN l BY <1>1, <1>6
  <2>3. \A i \in 1..c : [of |-> {ps[i]}, sent |-> FALSE] \in Intents(l) BY <2>2 DEF Intents
  <2> QED BY <2>1, <2>3
<1>11. os \in Seq(Intents(l)) BY <1>3, <1>8, <1>9, <1>10
<1>12. \A i \in 1..c : os[i].sent = FALSE /\ os[i].of \subseteq S BY <1>6, <1>10
<1>13. \A i, j \in 1..c : i # j => os[i].of \cap os[j].of = {}
  <2> TAKE i, j \in 1..c
  <2> HAVE i # j
  <2>1. ps[i] # ps[j] BY <1>7
  <2>2. os[i].of = {ps[i]} /\ os[j].of = {ps[j]} BY <1>10
  <2> QED BY <2>1, <2>2
<1> QED BY <1>9, <1>10, <1>11, <1>12, <1>13

\* The intents w are unsent, about S, and name no event twice.
Sound(l, w, S) ==
  /\ w \in Seq(Intents(l))
  /\ \A i \in DOMAIN w : w[i].sent = FALSE /\ w[i].of \subseteq S
  /\ \A i, j \in DOMAIN w : i # j => w[i].of \cap w[j].of = {}

\* Two lists of intents about different events, one after the other.
LEMMA SoundTogether ==
  ASSUME NEW l, NEW S, NEW T, S \cap T = {}, NEW v, NEW w, Sound(l, v, S), Sound(l, w, T)
  PROVE  Sound(l, v \o w, S \union T)
<1>1. v \in Seq(Intents(l)) /\ w \in Seq(Intents(l)) BY DEF Sound
<1>2. PICK m \in Nat, n \in Nat : m = Len(v) /\ n = Len(w) BY <1>1
<1>3. PICK x : x = v \o w OBVIOUS
<1>4. /\ x \in Seq(Intents(l)) /\ DOMAIN x = 1..(m + n) /\ DOMAIN v = 1..m /\ DOMAIN w = 1..n
      /\ \A i \in 1..m : x[i] = v[i]
      /\ \A i \in (m + 1)..(m + n) : x[i] = w[i - m] /\ i - m \in 1..n
  BY <1>1, <1>2, <1>3
<1>5. \A i \in DOMAIN x : i \in 1..m \/ i \in (m + 1)..(m + n) BY <1>2, <1>4
<1>6. \A i \in DOMAIN x : x[i].sent = FALSE /\ x[i].of \subseteq S \union T
  <2> TAKE i \in DOMAIN x
  <2>1. CASE i \in 1..m
    <3>1. v[i].sent = FALSE /\ v[i].of \subseteq S BY <1>4, <2>1 DEF Sound
    <3> QED BY <1>4, <2>1, <3>1
  <2>2. CASE i \in (m + 1)..(m + n)
    <3>1. w[i - m].sent = FALSE /\ w[i - m].of \subseteq T BY <1>4, <2>2 DEF Sound
    <3> QED BY <1>4, <2>2, <3>1
  <2> QED BY <1>5, <2>1, <2>2
<1>7. \A i, j \in DOMAIN x : i # j => x[i].of \cap x[j].of = {}
  <2> SUFFICES ASSUME NEW i \in DOMAIN x, NEW j \in DOMAIN x, i # j PROVE x[i].of \cap x[j].of = {} OBVIOUS
  <2>1. CASE i \in 1..m /\ j \in 1..m BY <1>4, <2>1 DEF Sound
  <2>2. CASE i \in 1..m /\ j \in (m + 1)..(m + n) BY <1>4, <2>2 DEF Sound
  <2>3. CASE i \in (m + 1)..(m + n) /\ j \in 1..m BY <1>4, <2>3 DEF Sound
  <2>4. CASE i \in (m + 1)..(m + n) /\ j \in (m + 1)..(m + n)
    <3>1. PICK f, g : f = i - m /\ g = j - m OBVIOUS
    <3>2. f # g BY <1>2, <2>4, <3>1
    <3>3. f \in DOMAIN w /\ g \in DOMAIN w /\ x[i] = w[f] /\ x[j] = w[g] BY <1>4, <2>4, <3>1
    <3> QED BY <3>2, <3>3 DEF Sound
  <2> QED BY <1>5, <2>1, <2>2, <2>3, <2>4
<1> QED BY <1>3, <1>4, <1>6, <1>7 DEF Sound

\* What the worker plans is not logged, and names no event twice.
LEMMA PlanIs ==
  ASSUME LineType, NEW a \in Nat, NEW b \in Nat, a <= b, b <= Len(line)
  PROVE  \E S : Sound(line, PlanPushes(a, b), S) /\ S \cap logged = {}
<1>1. Len(line) \in Nat /\ DOMAIN line = 1..Len(line) /\ line \in Seq(EventSet) BY LineFacts
<1>2. \A kind : \A f \in Nat : Fresh(kind, f, b) \subseteq 1..Len(line) /\ Fresh(kind, f, b) \cap logged = {}
  BY <1>1 DEF Fresh
<1>3. \A S \in SUBSET (1..Len(line)) : Sound(line, OneEach(S), S) BY <1>1, OneEachIs DEF Sound
<1>4. Sound(line, <<>>, {}) BY DEF Sound
<1>5. \A S \in SUBSET (1..Len(line)) : Sound(line, AllAtOnce(S), S)
  <2> TAKE S \in SUBSET (1..Len(line))
  <2>1. CASE S = {} BY <1>4, <2>1 DEF AllAtOnce
  <2>2. CASE S # {}
    <3>1. AllAtOnce(S) = <<[of |-> S, sent |-> FALSE]>> BY <2>2 DEF AllAtOnce, Intent
    <3>2. [of |-> S, sent |-> FALSE] \in Intents(line) BY <1>1 DEF Intents
    <3> QED BY <3>1, <3>2 DEF Sound
  <2> QED BY <2>1, <2>2
<1>6. CASE PlanPushes(a, b) = AllAtOnce(Fresh("msg", From(a, b), b)) \o OneEach(Fresh("call", From(a, b), b))
  <2>1. From(a, b) \in Nat BY FromIs
  <2>2. PICK M, C : M = Fresh("msg", From(a, b), b) /\ C = Fresh("call", From(a, b), b) OBVIOUS
  <2>3. M \in SUBSET (1..Len(line)) /\ C \in SUBSET (1..Len(line)) /\ (M \union C) \cap logged = {}
    <3>1. M \subseteq 1..Len(line) /\ M \cap logged = {} BY <1>2, <2>1, <2>2
    <3>2. C \subseteq 1..Len(line) /\ C \cap logged = {} BY <1>2, <2>1, <2>2
    <3> QED BY <3>1, <3>2
  <2>4. M \cap C = {} BY <2>2 DEF Fresh
  <2>5. Sound(line, AllAtOnce(M), M) /\ Sound(line, OneEach(C), C) BY <1>3, <1>5, <2>3
  <2>6. Sound(line, AllAtOnce(M) \o OneEach(C), M \union C) BY <2>4, <2>5, SoundTogether
  <2> QED BY <1>6, <2>2, <2>3, <2>6
<1>7. CASE PlanPushes(a, b) = OneEach(Fresh("invite", a, b))
  <2>1. PICK I : I = Fresh("invite", a, b) OBVIOUS
  <2>2. I \in SUBSET (1..Len(line)) /\ I \cap logged = {} BY <1>2, <2>1
  <2> QED BY <1>3, <1>7, <2>1, <2>2
<1>8. CASE PlanPushes(a, b) = <<>> BY <1>4, <1>8
<1>9. \/ PlanPushes(a, b) = AllAtOnce(Fresh("msg", From(a, b), b)) \o OneEach(Fresh("call", From(a, b), b))
      \/ PlanPushes(a, b) = OneEach(Fresh("invite", a, b))
      \/ PlanPushes(a, b) = <<>>
  BY Zenon DEF PlanPushes
<1> QED BY <1>6, <1>7, <1>8, <1>9

\* The worker applies an answer and plans what to ring.
LEMMA WorkerSyncStep ==
  ASSUME IInv, WorkerSync
  PROVE  IInv'
<1>1. Worker \in Loops BY DEF Loops
<1>2. PICK a, b : a = loop[Worker].since /\ b = loop[Worker].upto OBVIOUS
<1>3. a \in Nat /\ b \in Nat /\ a <= b /\ b <= Len(line)
  <2>1. /\ loop[Worker].since \in 0..Len(line) /\ loop[Worker].upto \in 0..Len(line)
        /\ loop[Worker].since <= loop[Worker].upto
    BY <1>1, LoopFacts
  <2>2. Len(line) \in Nat BY LineFacts DEF IInv, TypesOK
  <2> QED BY <1>2, <2>1, <2>2
<1>4. PICK S : Sound(line, PlanPushes(a, b), S) /\ S \cap logged = {}
  BY <1>3, PlanIs DEF IInv, TypesOK
<1>5. PICK w : w = PlanPushes(a, b) OBVIOUS
<1>6. todo' = w /\ UNCHANGED <<line, logged, req>> BY <1>2, <1>5 DEF WorkerSync
<1>7. Sound(line, w, S) BY <1>4, <1>5
<1>8. TodoType' BY <1>6, <1>7 DEF TodoType, Sound
<1>9. Apart' BY <1>6, <1>7 DEF Apart, Sound
<1>10. RungOnce' BY <1>4, <1>6, <1>7 DEF RungOnce, Sound
<1>11. ProcessSync(loop[Worker].since, loop[Worker].upto) /\ Goes(Worker, "off") BY DEF WorkerSync
<1> QED BY <1>1, <1>6, <1>8, <1>9, <1>10, <1>11, AppliedKeeps

\* The worker's intents and its log change.
LEMMA TodoKeeps ==
  ASSUME IInv, UNCHANGED <<line, room, cut, row, token, loop, req>>, logged' \subseteq DOMAIN line,
         TodoType', Apart', RungOnce'
  PROVE  IInv'
<1> USE DEF IInv, TypesOK, GapInv
<1>1. LineType' /\ CacheType' /\ ReqType' BY DEF LineType, CacheType, ReqType
<1>2. LoopType' BY DEF LoopType
<1>3. InviteFirst' /\ Gapless(token)' BY DEF InviteFirst, Gapless
<1>4. \A l \in Loops : Gapless(loop[l].since)' BY DEF Gapless
<1>5. ReqOK' BY DEF ReqOK, Mine, MoveTo
<1> QED BY <1>1, <1>2, <1>3, <1>4, <1>5

\* What the worker has to send: of one intent, all is known.
LEMMA TodoFacts ==
  ASSUME IInv
  PROVE  /\ todo \in Seq(Intents(line)) /\ Len(todo) \in Nat /\ DOMAIN todo = 1..Len(todo)
         /\ logged \subseteq DOMAIN line
         /\ \A i \in DOMAIN todo : todo[i] \in Intents(line)
BY DEF IInv, TypesOK, TodoType, CacheType

\* A push is sent, noted in the log, or fails.
LEMMA PushStep ==
  ASSUME IInv, DispatchPush \/ MarkPushed \/ DispatchFails
  PROVE  IInv'
<1>1. /\ todo \in Seq(Intents(line)) /\ Len(todo) \in Nat /\ DOMAIN todo = 1..Len(todo)
      /\ logged \subseteq DOMAIN line
      /\ \A i \in DOMAIN todo : todo[i] \in Intents(line)
  BY TodoFacts
<1>2. CASE DispatchPush
  <2>1. UNCHANGED <<line, room, cut, row, token, logged, loop, req>> BY <1>2 DEF DispatchPush, cacheVars
  <2>2. 1 \in DOMAIN todo BY <1>1, <1>2 DEF DispatchPush
  <2>3. PICK x : x = [todo[1] EXCEPT !.sent = TRUE] OBVIOUS
  <2>4. x \in Intents(line) /\ x.of = todo[1].of /\ x.sent = TRUE BY <1>1, <2>2, <2>3 DEF Intents
  <2>5. todo' = [todo EXCEPT ![1] = x] BY <1>2, <2>3 DEF DispatchPush
  <2>6. TodoType'
    <3>1. [todo EXCEPT ![1] = x] \in Seq(Intents(line))
      <4>1. PICK I : I = Intents(line) OBVIOUS
      <4>2. todo \in Seq(I) /\ x \in I BY <1>1, <2>4, <4>1
      <4>3. PICK n : n = Len(todo) OBVIOUS
      <4>4. n \in Nat /\ DOMAIN todo = 1..n /\ \A i \in 1..n : todo[i] \in I BY <1>1, <4>1, <4>3
      <4>5. todo = [i \in 1..n |-> todo[i]] BY <4>2, <4>3
      <4>6. [todo EXCEPT ![1] = x] = [i \in 1..n |-> IF i = 1 THEN x ELSE todo[i]] BY <4>4, <4>5
      <4>7. [i \in 1..n |-> IF i = 1 THEN x ELSE todo[i]] \in Seq(I) BY <4>2, <4>4
      <4> QED BY <4>1, <4>6, <4>7
    <3> QED BY <2>1, <2>5, <3>1 DEF TodoType
  <2>7. DOMAIN todo' = DOMAIN todo /\ \A i \in DOMAIN todo : todo'[i] = IF i = 1 THEN x ELSE todo[i]
    BY <1>1, <2>5
  <2>8. \A i \in DOMAIN todo : todo'[i].of = todo[i].of BY <2>4, <2>7
  <2>9. Apart' BY <2>7, <2>8 DEF IInv, Apart
  <2>10. RungOnce'
    <3>1. \A i \in DOMAIN todo : ~todo'[i].sent => ~todo[i].sent BY <2>4, <2>7
    <3> QED BY <2>1, <2>7, <2>8, <3>1 DEF IInv, RungOnce
  <2> QED BY <1>1, <2>1, <2>6, <2>9, <2>10, TodoKeeps
<1>3. CASE MarkPushed
  <2>1. UNCHANGED <<line, room, cut, row, token, loop, req>> BY <1>3 DEF MarkPushed
  <2>2. 1 \in DOMAIN todo /\ Head(todo) = todo[1] BY <1>1, <1>3 DEF MarkPushed
  <2>3. logged' = logged \union todo[1].of /\ todo' = Tail(todo) BY <1>3, <2>2 DEF MarkPushed
  <2>4. todo[1].of \subseteq DOMAIN line BY <1>1, <2>2 DEF Intents
  <2>5. TodoType'
    <3>1. todo # <<>> BY <1>3 DEF MarkPushed
    <3> QED BY <1>1, <2>1, <2>3, <3>1 DEF TodoType
  <2>6. \A i \in DOMAIN todo' : i + 1 \in DOMAIN todo /\ i + 1 # 1 /\ todo'[i] = todo[i + 1]
    BY <1>1, <1>3, <2>3 DEF MarkPushed
  <2>7. Apart'
    <3> SUFFICES ASSUME NEW i \in DOMAIN todo', NEW j \in DOMAIN todo', i # j
                 PROVE  todo'[i].of \cap todo'[j].of = {}
      BY DEF Apart
    <3>1. i \in Int /\ j \in Int
      <4>1. todo' \in Seq(Intents(line)) BY <2>1, <2>5 DEF TodoType
      <4> QED BY <4>1
    <3>2. i + 1 # j + 1 BY <3>1
    <3> QED BY <2>6, <3>2 DEF IInv, Apart
  <2>8. RungOnce'
    <3> SUFFICES ASSUME NEW i \in DOMAIN todo', ~todo'[i].sent
                 PROVE  todo'[i].of \cap logged' = {}
      BY DEF RungOnce
    <3>1. todo[i + 1].of \cap logged = {} BY <2>6 DEF IInv, RungOnce
    <3>2. todo[i + 1].of \cap todo[1].of = {} BY <2>2, <2>6 DEF IInv, Apart
    <3> QED BY <2>3, <2>6, <3>1, <3>2
  <2> QED BY <1>1, <2>1, <2>3, <2>4, <2>5, <2>7, <2>8, TodoKeeps
<1>4. CASE DispatchFails
  <2>1. UNCHANGED <<line, room, cut, row, token, logged, loop, req>> /\ todo' = <<>>
    BY <1>4 DEF DispatchFails, cacheVars
  <2>2. TodoType' /\ Apart' /\ RungOnce' BY <2>1 DEF TodoType, Apart, RungOnce
  <2> QED BY <1>1, <2>1, <2>2, TodoKeeps
<1> QED BY <1>2, <1>3, <1>4

\* The steps of the worker.
LEMMA WorkerStep ==
  ASSUME IInv, WorkerNext
  PROVE  IInv'
<1>1. Worker \in Loops BY DEF Loops
<1>2. CASE Tick BY <1>1, <1>2, AsksStep DEF Tick
<1>3. CASE Answer(Worker) BY <1>1, <1>3, AnswerStep
<1>4. CASE WorkerSync BY <1>4, WorkerSyncStep
<1>5. CASE WorkerFails
  <2>1. TodoType' /\ Apart' /\ RungOnce' BY <1>5, TodoKept DEF WorkerFails
  <2>2. UNCHANGED <<line, logged, todo, req>> /\ Goes(Worker, "off") BY <1>5 DEF WorkerFails
  <2>3. CASE UNCHANGED <<room, cut, row, token>>
    <3>1. UNCHANGED <<line, cacheVars, todo, req>> BY <2>2, <2>3 DEF cacheVars
    <3> QED BY <1>1, <2>2, <3>1, StopsKeeps
  <2>4. CASE ProcessPart(loop[Worker].since, loop[Worker].upto) BY <1>1, <2>1, <2>2, <2>4, AppliedKeeps
  <2> QED BY <1>5, <2>3, <2>4 DEF WorkerFails
<1>6. CASE DispatchPush \/ MarkPushed \/ DispatchFails BY <1>6, PushStep
<1> QED BY <1>2, <1>3, <1>4, <1>5, <1>6 DEF WorkerNext

-----------------------------------------------------------------------------
(* Answers to requests, and restarts *)

\* The cache is told what the homeserver did.
LEMMA RequestEndsStep ==
  ASSUME IInv, RequestEnds
  PROVE  IInv'
<1> USE DEF IInv, TypesOK, GapInv
<1>1. UNCHANGED <<line, cut, token, logged, loop, todo>> /\ req' = None /\ req # None BY DEF RequestEnds
<1>2. /\ line \in Seq(EventSet) /\ Len(line) \in Nat /\ DOMAIN line = 1..Len(line) /\ 1..Len(line) \subseteq Positions
  BY LineFacts
<1>3. req \in ReqSet /\ row \in RowSet /\ room \in {None, "invite", "join", "leave"}
  BY <1>1 DEF ReqType, CacheType
<1>4. /\ room' \in {None, "invite", "join", "leave"} /\ row' \in RowSet
      /\ RowsKept \/ MineOf(line, Len(line)) = "leave"
  <2>1. CASE UNCHANGED <<room, row>> BY <1>3, <2>1 DEF RowsKept
  <2>2. CASE row' = Inserted(row, req.of) /\ UNCHANGED room
    <3>1. row' \in RowSet BY <1>3, <2>2 DEF RowSet, Inserted
    <3>2. RowsKept BY <1>2, <1>3, <2>2 DEF RowSet, Inserted, RowsKept, HasIn
    <3> QED BY <1>3, <2>2, <3>1, <3>2
  <2>3. CASE row' = Edited(row, req.of) /\ UNCHANGED room
    <3>1. row' \in RowSet BY <1>3, <2>3 DEF RowSet, Edited
    <3>2. RowsKept BY <1>2, <1>3, <2>3 DEF RowSet, Edited, RowsKept, HasIn
    <3> QED BY <1>3, <2>3, <3>1, <3>2
  <2>4. CASE req.do = "redact" /\ row' = Redacted(row, req.of) /\ UNCHANGED room
    <3>1. row' \in RowSet BY <1>3, <2>4 DEF RowSet, Redacted
    <3>2. line[req.of].kind = "react" => BackIn(line, req.of)
      BY <1>1, <2>4 DEF ReqOK, BackIn
    <3>3. RowsKept BY <1>2, <1>3, <2>4, <3>2 DEF RowSet, Redacted, RowsKept, HasIn
    <3> QED BY <1>3, <2>4, <3>1, <3>3
  <2>5. CASE room' = "join" /\ UNCHANGED row BY <1>3, <2>5 DEF RowsKept
  <2>6. CASE req.do \notin {"store", "edit", "redact", "join"} /\ DeleteRoom
    <3>1. MineOf(line, Len(line)) = "leave" BY <1>1, <2>6, MineDef DEF ReqOK
    <3>2. row' \in RowSet BY <1>3, <2>6 DEF DeleteRoom, RowSet
    <3> QED BY <2>6, <3>1, <3>2 DEF DeleteRoom
  <2>7. Stored =>
          \/ row' = Inserted(row, req.of) /\ UNCHANGED room
          \/ row' = Edited(row, req.of) /\ UNCHANGED room
          \/ req.do = "redact" /\ row' = Redacted(row, req.of) /\ UNCHANGED room
          \/ room' = "join" /\ UNCHANGED row
          \/ req.do \notin {"store", "edit", "redact", "join"} /\ DeleteRoom
    <3> SUFFICES ASSUME Stored
                 PROVE  \/ row' = Inserted(row, req.of) /\ UNCHANGED room
                        \/ row' = Edited(row, req.of) /\ UNCHANGED room
                        \/ req.do = "redact" /\ row' = Redacted(row, req.of) /\ UNCHANGED room
                        \/ room' = "join" /\ UNCHANGED row
                        \/ req.do \notin {"store", "edit", "redact", "join"} /\ DeleteRoom
      OBVIOUS
    <3>1. PICK d : d = req.do OBVIOUS
    <3>2. CASE d = "store" BY <3>1, <3>2 DEF Stored
    <3>3. CASE d = "edit" BY <3>1, <3>3 DEF Stored
    <3>4. CASE d = "redact" BY <3>1, <3>4 DEF Stored
    <3>5. CASE d = "join" BY <3>1, <3>5 DEF Stored
    <3>6. CASE d \notin {"store", "edit", "redact", "join"} BY <3>1, <3>6 DEF Stored
    <3> QED BY <3>2, <3>3, <3>4, <3>5, <3>6
  <2> QED BY <2>1, <2>2, <2>3, <2>4, <2>5, <2>6, <2>7 DEF RequestEnds
<1>5. \A b \in 0..Len(line) : GaplessIn(line, row, cut, b) => GaplessIn(line, row', cut, b)
  <2>1. CASE RowsKept BY <1>2, <2>1, GapKept DEF RowsKept
  <2>2. CASE MineOf(line, Len(line)) = "leave" BY <2>2 DEF GaplessIn
  <2> QED BY <1>4, <2>1, <2>2
<1>6. Gapless(token)' BY <1>1, <1>5 DEF Gapless, CacheType
<1>7. \A l \in Loops : Gapless(loop[l].since)'
  <2> TAKE l \in Loops
  <2>1. loop[l].since \in 0..Len(line) /\ Gapless(loop[l].since) BY LoopFacts
  <2> QED BY <1>1, <1>5, <2>1 DEF Gapless
<1>8. LineType' /\ ReqType' /\ TodoType' BY <1>1 DEF LineType, ReqType, TodoType
<1>9. CacheType' BY <1>1, <1>4 DEF CacheType
<1>10. LoopType' BY <1>1 DEF LoopType
<1>11. InviteFirst' /\ ReqOK' BY <1>1 DEF InviteFirst, ReqOK
<1>12. Apart' /\ RungOnce' BY <1>1 DEF Apart, RungOnce
<1> QED BY <1>6, <1>7, <1>8, <1>9, <1>10, <1>11, <1>12

\* The web process starts anew.
LEMMA RestartStep ==
  ASSUME IInv, Restart
  PROVE  IInv'
<1> USE DEF IInv, TypesOK, GapInv
<1>1. UNCHANGED <<line, room, cut, row, token, logged>> /\ todo' = <<>> /\ req' \in {req, None}
  BY DEF Restart, cacheVars
<1>2. \A l \in Loops : loop'[l] = [at |-> "off", since |-> 0, upto |-> 0] BY DEF Restart, Idle
<1>3. Len(line) \in Nat BY LineFacts
<1>4. LoopType'
  <2>1. [at |-> "off", since |-> 0, upto |-> 0] \in LoopSet BY ChatAssumption DEF LoopSet
  <2>2. loop' \in [Loops -> LoopSet] BY <2>1 DEF Restart, Idle
  <2> QED BY <1>1, <1>2, <1>3, <2>2 DEF LoopType
<1>5. \A l \in Loops : Gapless(loop[l].since)' BY <1>1, <1>2, NothingBefore DEF Gapless
<1>6. LineType' /\ CacheType' /\ TodoType' BY <1>1 DEF LineType, CacheType, TodoType
<1>7. ReqType' BY <1>1 DEF ReqType
<1>8. InviteFirst' /\ Gapless(token)' BY <1>1 DEF InviteFirst, Gapless
<1>9. ReqOK' BY <1>1 DEF ReqOK, Mine, MoveTo
<1>10. Apart' /\ RungOnce' BY <1>1 DEF Apart, RungOnce
<1> QED BY <1>4, <1>5, <1>6, <1>7, <1>8, <1>9, <1>10

-----------------------------------------------------------------------------
(* The theorems *)

\* In the initial state.
LEMMA InitIInv == Init => IInv
<1> SUFFICES ASSUME Init PROVE IInv OBVIOUS
<1> USE DEF Init, Idle
<1>1. LineType
  <2>1. line = <<>> /\ <<>> \in Seq(EventSet) /\ Len(<<>>) = 0 OBVIOUS
  <2> QED BY <2>1, ChatAssumption DEF LineType
<1>2. CacheType BY <1>1, LineFacts DEF CacheType, RowSet
<1>3. LoopType BY ChatAssumption DEF LoopType, LoopSet
<1>4. TodoType /\ ReqType BY DEF TodoType, ReqType
<1>5. InviteFirst BY DEF InviteFirst, InvitesFirst
<1>6. Gapless(token) /\ \A l \in Loops : Gapless(loop[l].since) BY NothingBefore DEF Gapless
<1>7. ReqOK /\ Apart /\ RungOnce BY DEF ReqOK, Apart, RungOnce
<1> QED BY <1>1, <1>2, <1>3, <1>4, <1>5, <1>6, <1>7 DEF IInv, TypesOK, GapInv

\* In every step.
LEMMA StepIInv == IInv /\ [Next]_vars => IInv'
<1> SUFFICES ASSUME IInv, [Next]_vars PROVE IInv' OBVIOUS
<1>1. CASE Peer BY <1>1, PeerStep
<1>2. CASE RoomNext BY <1>2, RoomStep
<1>3. CASE MessageNext BY <1>3, MessageStep
<1>4. CASE RequestEnds BY <1>4, RequestEndsStep
<1>5. CASE \E t \in Tabs : StreamNext(t) BY <1>5, StreamStep
<1>6. CASE SyncNow \/ Answer(Now) \/ SyncNowEnds BY <1>6, NowStep
<1>7. CASE WorkerNext BY <1>7, WorkerStep
<1>8. CASE Restart BY <1>8, RestartStep
<1>9. CASE UNCHANGED vars
  <2>1. UNCHANGED <<line, room, cut, row, token, logged, loop, todo, req>> BY <1>9 DEF vars
  <2>2. logged \subseteq DOMAIN line BY TodoFacts
  <2>3. TodoType' /\ Apart' /\ RungOnce' BY <2>1, TodoKept
  <2> QED BY <2>1, <2>2, <2>3, TodoKeeps
<1> QED BY <1>1, <1>2, <1>3, <1>4, <1>5, <1>6, <1>7, <1>8, <1>9 DEF Next

\* So always.
LEMMA AlwaysIInv == Spec => []IInv
BY InitIInv, StepIInv, PTL DEF Spec

\* TypeOK of Chat: every value has its type, and no token is ahead of the room.
THEOREM ChatTypes == Spec => []TypeOK
<1>1. IInv => TypeOK
  BY DEF IInv, TypesOK, LineType, CacheType, LoopType, TodoType, ReqType, EventSet, RowSet, LoopSet,
         Intents, ReqSet, TypeOK
<1> QED BY <1>1, AlwaysIInv, PTL

\* Up to the stored token, everything said in a room the user is in is in the
\* cache, but for reactions taken back and what the homeserver left out.
THEOREM NothingMissing == Spec => []NoGap
<1>1. IInv => NoGap
  <2> SUFFICES ASSUME IInv, Mine(token) = "join", Mine(Len(line)) = "join", NEW p \in Posted(token) \ cut
               PROVE  row[p] # "none" \/ TakenBack(p)
    BY DEF NoGap
  <2>1. GaplessIn(line, row, cut, token) BY DEF IInv, GapInv, Gapless
  <2>2. MineOf(line, token) = "join" /\ MineOf(line, Len(line)) = "join" BY MineDef
  <2>3. p \in 1..token /\ line[p].kind \in Posts /\ p \notin cut BY DEF Posted
  <2>4. HasIn(line, row, p) BY <2>1, <2>2, <2>3 DEF GaplessIn
  <2> QED BY <2>4 DEF HasIn, BackIn, TakenBack
<1> QED BY <1>1, AlwaysIInv, PTL

\* An intent of the worker that is still to be sent names nothing in the log of
\* what was rung.
THEOREM RungOnlyOnce == Spec => []RungOnce
<1>1. IInv => RungOnce BY DEF IInv
<1> QED BY <1>1, AlwaysIInv, PTL

=============================================================================
