---------------------------- MODULE ManagerProof ----------------------------
(***************************************************************************)
(* Theorems about what the worker manager keeps going beside the syncs:    *)
(* the watchers of mailboxes (IdleWatch), for any users, accounts, folders *)
(* and threads, and the imports (ImportRunner), for any mailbox, files,    *)
(* page size and bounds.                                                   *)
(*                                                                         *)
(* IdleWatch: a handler applies _stop_idle and _ensure_idle in a row, so   *)
(* they are shown to keep what is said of a registry and its threads       *)
(* (PoolOK); the steps of a thread change one record (ThreadKeeps).  A     *)
(* thread that nobody stopped is named by the registry: _ensure_idle       *)
(* replaces an entry only when its thread serves the mailbox no more,      *)
(* which is what the registry's naming it says (Named).                    *)
(*                                                                         *)
(* ImportRunner: a copy is accounted for by the record of its message, by  *)
(* the append whose record is still to come, or by a break (Accounted).    *)
(* The runner appends what has no record: of a file it asks for each       *)
(* message, of a mailbox once a page, since when only its own records came *)
(* (PageSeen).  What is completed is complete: there is one task at a      *)
(* time, of the last run (OneTask), it reads what was there when it was    *)
(* asked for (RunOK), and what is behind it, or behind its cursor, was     *)
(* recorded (PlaceOK, CursorOK).                                           *)
(***************************************************************************)
EXTENDS IdleWatch, ImportRunner, FiniteSetTheorems, TLAPS

\* A thread on its way has not failed often enough to give up.
Trying(t) == t.at \in {"top", "idle"} => t.failures < Threshold

\* What is said of one thread's record.
ThreadOK(t) ==
  /\ t \in ThreadType /\ Trying(t)
  /\ t.at = "dead" <=> t = Dead
  /\ t.at # "dead" => t.watch \in Watches

\* The registry names every thread that was not told to stop.
Named(pool) ==
  \A w \in Workers :
    pool.thread[w].at # "dead" /\ ~pool.thread[w].stop => pool.registry[pool.thread[w].watch] = w

\* All that is said of a registry and its threads.
PoolOK(pool) ==
  /\ pool.registry \in [Watches -> Workers \union {None}]
  /\ pool.thread \in [Workers -> ThreadType]
  /\ \A w \in Workers : ThreadOK(pool.thread[w])
  /\ Named(pool)

\* Sessions, keys and the sets of the manager are of their types.
SessionType ==
  /\ current \in [Users -> Accounts \union {None}]
  /\ selected \in [Accounts -> Folders \union {None}]
KeysType == armedUsers \subseteq Users /\ keyed \subseteq Users /\ stored \subseteq Users
SetsType ==
  /\ supported \subseteq Accounts /\ armedAccounts \subseteq Accounts
  /\ enabled \subseteq Accounts /\ serving \subseteq Accounts
  /\ arming \subseteq Accounts /\ disarming \subseteq Accounts /\ visiting \subseteq Accounts

IInv == SessionType /\ KeysType /\ SetsType /\ calls \in 0..MaxCalls /\ PoolOK(Pool)

-----------------------------------------------------------------------------
(* _stop_idle and _ensure_idle *)

\* Threads that end and threads that start are of the right form.
LEMMA NewThreads == /\ ThreadOK(Dead)
                    /\ \A k \in Watches : ThreadOK(Fresh(k)) /\ Fresh(k).watch = k /\ Fresh(k).at = "top"
BY WatchAssumption DEF ThreadOK, ThreadType, Trying, Dead, Fresh

\* A dead thread serves nothing.
LEMMA DeadServesNothing ==
  ASSUME NEW t, ThreadOK(t), NEW k \in Watches, t.watch = k
  PROVE  t.at # "dead"
BY NoWatchAssumption DEF ThreadOK, Dead

\* _stop_idle drops watches and tells their threads; it ends none.
LEMMA StopOK ==
  ASSUME NEW pool, PoolOK(pool), NEW ks \in SUBSET Watches
  PROVE  PoolOK(Stop(pool, ks)) /\ Idle(Stop(pool, ks)) = Idle(pool)
<1> DEFINE q == Stop(pool, ks)
           Told(w) == \E k \in ks : pool.registry[k] = w /\ Serves(pool, w, k)
<1>1. q.registry = [k \in Watches |-> IF k \in ks THEN None ELSE pool.registry[k]] BY DEF Stop
<1>2. q.thread = [w \in Workers |-> IF Told(w) THEN [pool.thread[w] EXCEPT !.stop = TRUE] ELSE pool.thread[w]]
  BY DEF Stop
<1>3. q.registry \in [Watches -> Workers \union {None}] BY <1>1 DEF PoolOK
<1>4. ASSUME NEW w \in Workers
      PROVE  /\ ThreadOK(q.thread[w]) /\ q.thread[w].at = pool.thread[w].at
             /\ q.thread[w].watch = pool.thread[w].watch
             /\ ~Told(w) => q.thread[w].stop = pool.thread[w].stop
             /\ Told(w) => q.thread[w].stop
  <2>1. ThreadOK(pool.thread[w]) BY DEF PoolOK
  <2>2. CASE Told(w)
    <3>1. PICK k \in ks : Serves(pool, w, k) BY <2>2
    <3>2. pool.thread[w].at # "dead" BY <2>1, <3>1, DeadServesNothing DEF Serves
    <3>3. q.thread[w] = [pool.thread[w] EXCEPT !.stop = TRUE] BY <1>2, <2>2
    <3>4. pool.thread[w] \in ThreadType BY <2>1 DEF ThreadOK
    <3>5. /\ q.thread[w] \in ThreadType /\ q.thread[w].stop = TRUE /\ q.thread[w].at = pool.thread[w].at
          /\ q.thread[w].watch = pool.thread[w].watch /\ q.thread[w].failures = pool.thread[w].failures
      BY <3>3, <3>4 DEF ThreadType
    <3> QED BY <2>1, <2>2, <3>2, <3>5 DEF ThreadOK, Trying, Dead
  <2>3. CASE ~Told(w)
    <3>1. q.thread[w] = pool.thread[w] BY <1>2, <2>3
    <3> QED BY <2>1, <2>3, <3>1
  <2> QED BY <2>2, <2>3
<1>5. q.thread \in [Workers -> ThreadType]
  <2>1. \A w \in Workers : q.thread[w] \in ThreadType BY <1>4 DEF ThreadOK
  <2> QED BY <1>2, <2>1
<1>6. Named(q)
  <2> SUFFICES ASSUME NEW w \in Workers, q.thread[w].at # "dead", ~q.thread[w].stop
               PROVE  q.registry[q.thread[w].watch] = w
    BY DEF Named
  <2> DEFINE k == pool.thread[w].watch
  <2>1. ~Told(w) /\ ~pool.thread[w].stop /\ pool.thread[w].at # "dead" BY <1>4
  <2>2. pool.registry[k] = w BY <2>1 DEF PoolOK, Named
  <2>3. w # None BY WatchAssumption
  <2>4. k \notin ks BY <2>1, <2>2, <2>3 DEF Serves
  <2>5. k \in Watches BY <2>1 DEF PoolOK, ThreadOK
  <2> QED BY <1>1, <1>4, <2>2, <2>4, <2>5
<1>7. Idle(q) = Idle(pool) BY <1>4 DEF Idle
<1> QED BY <1>3, <1>4, <1>5, <1>6, <1>7 DEF PoolOK

\* _ensure_idle starts a thread, one at most, where none serves the mailbox.
LEMMA EnsureOK ==
  ASSUME NEW pool, PoolOK(pool), NEW ok, NEW k \in Watches, Idle(pool) # {}
  PROVE  /\ PoolOK(Ensure(pool, ok, k))
         /\ \E x \in Workers : Idle(pool) \subseteq Idle(Ensure(pool, ok, k)) \union {x}
<1> DEFINE q == Ensure(pool, ok, k)
           w == CHOOSE x \in Idle(pool) : TRUE
<1>1. w \in Workers /\ pool.thread[w].at = "dead" BY DEF Idle
<1> HIDE DEF w
<1>2. CASE ~ok \/ Serves(pool, pool.registry[k], k)
  <2>1. q = pool BY <1>2 DEF Ensure
  <2> QED BY <1>1, <2>1
<1>3. CASE ok /\ ~Serves(pool, pool.registry[k], k)
  <2>1. q = [registry |-> [pool.registry EXCEPT ![k] = w], thread |-> [pool.thread EXCEPT ![w] = Fresh(k)]]
    BY <1>3 DEF Ensure, w
  <2>2. q.registry = [pool.registry EXCEPT ![k] = w] /\ q.thread = [pool.thread EXCEPT ![w] = Fresh(k)] BY <2>1
  <2>3. q.registry \in [Watches -> Workers \union {None}] BY <1>1, <2>2 DEF PoolOK
  <2>4. \A x \in Workers : q.thread[x] = IF x = w THEN Fresh(k) ELSE pool.thread[x] BY <2>2 DEF PoolOK
  <2>5. \A x \in Workers : ThreadOK(q.thread[x]) BY <2>4, NewThreads DEF PoolOK
  <2>6. q.thread \in [Workers -> ThreadType]
    <3>1. Fresh(k) \in ThreadType BY NewThreads DEF ThreadOK
    <3> QED BY <2>2, <3>1 DEF PoolOK
  <2>7. Named(q)
    <3> SUFFICES ASSUME NEW x \in Workers, q.thread[x].at # "dead", ~q.thread[x].stop
                 PROVE  q.registry[q.thread[x].watch] = x
      BY DEF Named
    <3>1. CASE x = w
      <4>1. q.thread[x].watch = k BY <2>4, <3>1, NewThreads
      <4> QED BY <2>2, <3>1, <4>1 DEF PoolOK
    <3>2. CASE x # w
      <4>1. q.thread[x] = pool.thread[x] BY <2>4, <3>2
      <4>2. pool.registry[pool.thread[x].watch] = x BY <4>1 DEF PoolOK, Named
      <4>3. x # None BY WatchAssumption
      <4>4. pool.thread[x].watch # k BY <1>3, <4>2, <4>3 DEF Serves
      <4>5. pool.thread[x].watch \in Watches BY <4>1, <3>2 DEF PoolOK, ThreadOK
      <4> QED BY <2>2, <4>1, <4>2, <4>4, <4>5 DEF PoolOK
    <3> QED BY <3>1, <3>2
  <2>8. Idle(pool) \subseteq Idle(q) \union {w} BY <2>4 DEF Idle
  <2> QED BY <1>1, <2>3, <2>5, <2>6, <2>7, <2>8 DEF PoolOK
<1> QED BY <1>2, <1>3

\* After it a mailbox is served, unless the server cannot IDLE.
LEMMA EnsureServes ==
  ASSUME NEW pool, PoolOK(pool), NEW ok, NEW k \in Watches, Idle(pool) # {}
  PROVE  LET q == Ensure(pool, ok, k) IN q = pool \/ Serves(q, q.registry[k], k)
<1> DEFINE q == Ensure(pool, ok, k)
           w == CHOOSE x \in Idle(pool) : TRUE
<1>1. w \in Workers BY DEF Idle
<1> HIDE DEF w
<1>2. CASE ok /\ ~Serves(pool, pool.registry[k], k)
  <2>1. q = [registry |-> [pool.registry EXCEPT ![k] = w], thread |-> [pool.thread EXCEPT ![w] = Fresh(k)]]
    BY <1>2 DEF Ensure, w
  <2>2. q.registry[k] = w /\ q.thread[w].watch = k BY <1>1, <2>1, NewThreads DEF PoolOK
  <2> QED BY <1>1, <2>2, WatchAssumption DEF Serves
<1>3. CASE ~ok \/ Serves(pool, pool.registry[k], k) BY <1>3 DEF Ensure
<1> QED BY <1>2, <1>3

\* Two mailboxes in a row need two threads at most.
LEMMA TwoIdle ==
  ASSUME NEW pool, Cardinality(Idle(pool)) >= 2, NEW x
  PROVE  Idle(pool) \ {x} # {}
<1> SUFFICES ASSUME Idle(pool) \subseteq {x} PROVE FALSE OBVIOUS
<1>1. Idle(pool) = {} \/ Idle(pool) = {x} OBVIOUS
<1>2. Cardinality({}) = 0 /\ Cardinality({x}) = 1 BY FS_EmptySet, FS_Singleton
<1> QED BY <1>1, <1>2

\* Where enough threads are left there is one.
LEMMA OneIdle == ASSUME NEW pool, NEW n \in {1, 2}, Cardinality(Idle(pool)) >= n PROVE Idle(pool) # {}
<1>1. Cardinality({}) = 0 BY FS_EmptySet
<1> QED BY <1>1

\* _ensure_idle twice, as a handler with two mailboxes does.
LEMMA EnsureTwo ==
  ASSUME NEW pool, PoolOK(pool), NEW ok, NEW k \in Watches, NEW l \in Watches, Cardinality(Idle(pool)) >= 2
  PROVE  PoolOK(Ensure(Ensure(pool, ok, k), ok, l))
<1> DEFINE q == Ensure(pool, ok, k)
<1>1. Idle(pool) # {} BY OneIdle
<1>2. PoolOK(q) BY <1>1, EnsureOK
<1>3. PICK x \in Workers : Idle(pool) \subseteq Idle(q) \union {x} BY <1>1, EnsureOK
<1>4. Idle(q) # {}
  <2>1. Idle(pool) \ {x} # {} BY TwoIdle
  <2> QED BY <1>3, <2>1
<1> HIDE DEF q
<1>5. PoolOK(Ensure(q, ok, l)) BY <1>2, <1>4, EnsureOK
<1> QED BY <1>5 DEF q

\* A folder that is not the Inbox makes two mailboxes of it.
LEMMA Pairs == \A f \in Folders : f # INBOX => Cardinality({f, INBOX}) = 2
<1> SUFFICES ASSUME NEW f \in Folders, f # INBOX PROVE Cardinality({f, INBOX}) = 2 OBVIOUS
<1>1. IsFiniteSet({INBOX}) /\ Cardinality({INBOX}) = 1 BY FS_Singleton
<1>2. Cardinality({INBOX} \union {f}) = Cardinality({INBOX}) + 1 BY <1>1, FS_AddElement
<1>3. {f, INBOX} = {INBOX} \union {f} OBVIOUS
<1> QED BY <1>1, <1>2, <1>3

-----------------------------------------------------------------------------
(* Handlers *)

\* What a handler makes of the registry and the threads is what is there then.
LEMMA BecomesOK == ASSUME NEW pool, PoolOK(pool), Becomes(pool) PROVE PoolOK(Pool)'
BY DEF Becomes, PoolOK, Pool, Named

\* What leaves registry and threads alone keeps what is said of them.
LEMMA SamePool == ASSUME PoolOK(Pool), UNCHANGED <<registry, thread>> PROVE PoolOK(Pool)'
BY DEF PoolOK, Pool, Named

\* The watches of an account are watches.
LEMMA WatchesType == \A a \in Accounts, f \in Folders : WatchesOf(a) \subseteq Watches /\ <<a, f>> \in Watches
BY DEF WatchesOf, Watches

\* It holds at first.
LEMMA InitInv == Init => IInv
<1> SUFFICES ASSUME Init PROVE IInv OBVIOUS
<1>1. SessionType /\ KeysType /\ SetsType /\ calls \in 0..MaxCalls
  BY WatchAssumption DEF Init, SessionType, KeysType, SetsType
<1>2. Dead \in ThreadType BY NewThreads DEF ThreadOK
<1>3. PoolOK(Pool) BY <1>2, NewThreads DEF Init, PoolOK, Pool, Named, Dead
<1> QED BY <1>1, <1>3 DEF IInv

\* A customer selects an account.
LEMMA ActivateKeeps ==
  ASSUME IInv, NEW u \in Users, NEW a \in Accounts, SetActiveAccount(u, a)
  PROVE  SessionType' /\ KeysType' /\ SetsType' /\ PoolOK(Pool)'
<1>1. SessionType' /\ KeysType' /\ SetsType'
  BY WatchAssumption DEF SetActiveAccount, IInv, SessionType, KeysType, SetsType, flags, pending, keys
<1> DEFINE left == IF current[u] = None THEN {} ELSE WatchesOf(current[u])
<1>2. left \in SUBSET Watches
  <2>1. current[u] \in Accounts \union {None} BY DEF IInv, SessionType
  <2> QED BY <2>1 DEF WatchesOf, Watches
<1>3. Idle(Pool) # {} BY OneIdle DEF SetActiveAccount, Room
<1>4. PoolOK(Stop(Pool, left)) /\ Idle(Stop(Pool, left)) # {} BY <1>2, <1>3, StopOK DEF IInv
<1>5. Becomes(Ensure(Stop(Pool, left), TRUE, <<a, INBOX>>)) BY DEF SetActiveAccount
<1>6. <<a, INBOX>> \in Watches BY WatchesType, WatchAssumption
<1> HIDE DEF left
<1>7. PoolOK(Ensure(Stop(Pool, left), TRUE, <<a, INBOX>>)) BY <1>4, <1>6, EnsureOK
<1> QED BY <1>1, <1>5, <1>7, BecomesOK

\* A customer opens a folder: its watch and the one of the Inbox.
LEMMA FolderKeeps ==
  ASSUME IInv, NEW a \in Accounts, NEW f \in Folders, SetActiveFolder(a, f)
  PROVE  SessionType' /\ KeysType' /\ SetsType' /\ PoolOK(Pool)'
<1>1. SessionType' /\ KeysType' /\ SetsType'
  BY DEF SetActiveFolder, IInv, SessionType, KeysType, SetsType, flags, pending, keys
<1> DEFINE left == IF selected[a] \in {None, INBOX} THEN {} ELSE {<<a, selected[a]>>}
           ok == a \in supported
           stopped == Stop(Pool, left)
           moved == Ensure(stopped, ok, <<a, f>>)
<1>2. left \in SUBSET Watches BY WatchesType DEF IInv, SessionType
<1>3. PoolOK(stopped) /\ Idle(stopped) = Idle(Pool) BY <1>2, StopOK DEF IInv
<1>4. Becomes(Ensure(moved, ok, <<a, INBOX>>)) BY DEF SetActiveFolder
<1>5. <<a, f>> \in Watches /\ <<a, INBOX>> \in Watches BY WatchesType, WatchAssumption
<1>6. Cardinality(Idle(Pool)) >= Cardinality({f, INBOX}) BY DEF SetActiveFolder, Room
<1> HIDE DEF left, ok, stopped
<1>7. PoolOK(Ensure(moved, ok, <<a, INBOX>>))
  <2>1. CASE f # INBOX
    <3>1. Cardinality(Idle(stopped)) >= 2 BY <1>3, <1>6, <2>1, Pairs
    <3> QED BY <1>3, <1>5, <3>1, EnsureTwo
  <2>2. CASE f = INBOX
    <3>1. Cardinality({f, INBOX}) = 1
      <4>1. {f, INBOX} = {INBOX} BY <2>2
      <4> QED BY <4>1, FS_Singleton
    <3>2. Idle(stopped) # {} BY <1>3, <1>6, <3>1, OneIdle
    <3> HIDE DEF moved
    <3>3. PoolOK(moved) BY <1>3, <1>5, <3>2, EnsureOK DEF moved
    <3>4. moved = stopped \/ Serves(moved, moved.registry[<<a, INBOX>>], <<a, INBOX>>)
      BY <1>3, <1>5, <2>2, <3>2, EnsureServes DEF moved
    <3>5. Ensure(moved, ok, <<a, INBOX>>) = moved \/ moved = stopped BY <3>4 DEF Ensure
    <3> QED BY <1>3, <1>5, <3>2, <3>3, <3>5, EnsureOK
  <2> QED BY <2>1, <2>2
<1> QED BY <1>1, <1>4, <1>7, BecomesOK

\* A customer logs in or out, or push is armed or disarmed.
LEMMA SessionKeeps ==
  ASSUME IInv, NEW u \in Users, Login(u) \/ Logout(u) \/ Arm(u) \/ Disarm(u)
  PROVE  SessionType' /\ KeysType' /\ SetsType' /\ PoolOK(Pool)'
<1>1. CASE Login(u)
  <2>1. SessionType' /\ KeysType' /\ SetsType'
    BY <1>1 DEF Login, IInv, SessionType, KeysType, SetsType, flags, manager, pending
  <2> QED BY <1>1, <2>1, SamePool DEF Login, IInv
<1>2. CASE Logout(u)
  <2>1. SessionType' /\ KeysType' /\ SetsType'
    BY <1>2 DEF Logout, IInv, SessionType, KeysType, SetsType, flags, pending
  <2> DEFINE left == IF current[u] \in armedAccounts THEN {} ELSE WatchesOf(current[u])
  <2>2. left \in SUBSET Watches BY <1>2, WatchesType DEF Logout, IInv, SessionType, WatchesOf, Watches
  <2>3. Becomes(Stop(Pool, left)) BY <1>2 DEF Logout
  <2> HIDE DEF left
  <2>4. PoolOK(Stop(Pool, left)) BY <2>2, StopOK DEF IInv
  <2> QED BY <2>1, <2>3, <2>4, BecomesOK
<1>3. CASE Arm(u)
  <2>1. SessionType' /\ KeysType' /\ SetsType'
    BY <1>3 DEF Arm, IInv, SessionType, KeysType, SetsType, flags, AccountsOf
  <2> QED BY <1>3, <2>1, SamePool DEF Arm, IInv
<1>4. CASE Disarm(u)
  <2>1. SessionType' /\ KeysType' /\ SetsType'
    BY <1>4 DEF Disarm, IInv, SessionType, KeysType, SetsType, flags, AccountsOf
  <2> QED BY <1>4, <2>1, SamePool DEF Disarm, IInv
<1> QED BY <1>1, <1>2, <1>3, <1>4

\* An administrator acts, or the process restarts.
LEMMA WorldKeeps ==
  ASSUME IInv, Restart \/ \E a \in Accounts : ToggleAccount(a)
  PROVE  SessionType' /\ KeysType' /\ SetsType' /\ PoolOK(Pool)'
<1>1. CASE Restart
  <2>1. SessionType' /\ KeysType' /\ SetsType' BY <1>1 DEF Restart, IInv, SessionType, KeysType, SetsType, flags
  <2>2. Dead \in ThreadType BY NewThreads DEF ThreadOK
  <2>3. PoolOK(Pool)' BY <1>1, <2>2, NewThreads DEF Restart, PoolOK, Pool, Named, Dead
  <2> QED BY <2>1, <2>3
<1>2. ASSUME NEW a \in Accounts, ToggleAccount(a) PROVE SessionType' /\ KeysType' /\ SetsType' /\ PoolOK(Pool)'
  <2>1. SessionType' /\ KeysType' /\ SetsType'
    BY <1>2 DEF ToggleAccount, Toggle, IInv, SessionType, KeysType, SetsType, flags, manager, pending, keys
  <2> QED BY <1>2, <2>1, SamePool DEF ToggleAccount, IInv
<1> QED BY <1>1, <1>2

\* One account of an arming, a disarming or the loop's list.
LEMMA AccountKeeps ==
  ASSUME IInv, NEW a \in Accounts, AccountStep(a)
  PROVE  SessionType' /\ KeysType' /\ SetsType' /\ PoolOK(Pool)'
<1>0. <<a, INBOX>> \in Watches BY WatchesType, WatchAssumption
<1>1. CASE ArmAccount(a)
  <2>1. SessionType' /\ KeysType' /\ SetsType'
    BY <1>1 DEF ArmAccount, IInv, SessionType, KeysType, SetsType, flags, manager, keys
  <2>2. Idle(Pool) # {} BY <1>1, OneIdle DEF ArmAccount, Room
  <2>3. PoolOK(Ensure(Pool, a \in supported, <<a, INBOX>>)) BY <1>0, <2>2, EnsureOK DEF IInv
  <2> QED BY <1>1, <2>1, <2>3, BecomesOK DEF ArmAccount
<1>2. CASE DisarmAccount(a)
  <2>1. SessionType' /\ KeysType' /\ SetsType'
    BY <1>2 DEF DisarmAccount, IInv, SessionType, KeysType, SetsType, flags, manager, keys
  <2>2. WatchesOf(a) \in SUBSET Watches BY DEF WatchesOf, Watches
  <2>3. PoolOK(Stop(Pool, WatchesOf(a))) BY <2>2, StopOK DEF IInv
  <2> QED BY <1>2, <2>1, <2>3, BecomesOK DEF DisarmAccount
<1>3. CASE Visit(a)
  <2>1. SessionType' /\ SetsType' BY <1>3 DEF Visit, IInv, SessionType, SetsType, flags, manager
  <2>2. KeysType' BY <1>3, WatchAssumption DEF Visit, IInv, KeysType, manager
  <2> DEFINE ok == a \in supported
             inbox == Ensure(Pool, ok, <<a, INBOX>>)
  <2>3. \/ Becomes(IF selected[a] \in {None, INBOX} THEN inbox ELSE Ensure(inbox, ok, <<a, selected[a]>>))
        \/ UNCHANGED <<registry, thread>>
    BY <1>3, Zenon DEF Visit, Revived
  <2>4. Cardinality(Idle(Pool)) >= Cardinality({selected[a], INBOX} \ {None}) BY <1>3 DEF Visit, Room
  <2> HIDE DEF ok
  <2>5. CASE selected[a] \in {None, INBOX}
    <3>1. {selected[a], INBOX} \ {None} = {INBOX} BY <2>5, WatchAssumption
    <3>2. Idle(Pool) # {} BY <2>4, <3>1, FS_Singleton, OneIdle
    <3>3. PoolOK(inbox) BY <1>0, <3>2, EnsureOK DEF IInv
    <3>4. PoolOK(Pool)' BY <2>3, <2>5, <3>3, BecomesOK, SamePool DEF IInv
    <3> QED BY <2>1, <2>2, <3>4
  <2>6. CASE selected[a] \notin {None, INBOX}
    <3>1. selected[a] \in Folders BY <2>6 DEF IInv, SessionType
    <3>2. {selected[a], INBOX} \ {None} = {selected[a], INBOX} BY <2>6, WatchAssumption
    <3>3. Cardinality(Idle(Pool)) >= 2 BY <2>4, <2>6, <3>1, <3>2, Pairs
    <3>4. <<a, selected[a]>> \in Watches BY <3>1, WatchesType
    <3>5. PoolOK(Ensure(inbox, ok, <<a, selected[a]>>)) BY <1>0, <3>3, <3>4, EnsureTwo DEF IInv
    <3>6. PoolOK(Pool)' BY <2>3, <2>6, <3>5, BecomesOK, SamePool DEF IInv
    <3> QED BY <2>1, <2>2, <3>6
  <2> QED BY <2>5, <2>6
<1> QED BY <1>1, <1>2, <1>3 DEF AccountStep

-----------------------------------------------------------------------------
(* Threads *)

\* A thread goes on as it should, or ends; it takes no other mailbox.
LEMMA ThreadKeeps ==
  ASSUME IInv, NEW w \in Workers, NEW t, ThreadOK(t), thread' = [thread EXCEPT ![w] = t], registry' = registry,
         t = Dead \/ (t.watch = thread[w].watch /\ t.stop = thread[w].stop /\ thread[w].at # "dead")
  PROVE  PoolOK(Pool)'
<1>1. /\ thread \in [Workers -> ThreadType] /\ registry \in [Watches -> Workers \union {None}]
      /\ \A x \in Workers : ThreadOK(thread[x])
      /\ \A x \in Workers : thread[x].at # "dead" /\ ~thread[x].stop => registry[thread[x].watch] = x
  BY DEF IInv, PoolOK, Pool, Named
<1>2. t \in ThreadType BY DEF ThreadOK
<1>3. \A x \in Workers : thread'[x] = IF x = w THEN t ELSE thread[x] BY <1>1
<1>4. thread' \in [Workers -> ThreadType] BY <1>1, <1>2
<1>5. \A x \in Workers : ThreadOK(thread'[x]) BY <1>1, <1>3
<1>6. ASSUME NEW x \in Workers, thread'[x].at # "dead", ~thread'[x].stop
      PROVE  registry'[thread'[x].watch] = x
  <2>1. CASE x = w
    <3>1. t # Dead BY <1>3, <1>6, <2>1, NewThreads DEF ThreadOK
    <3> QED BY <1>1, <1>3, <1>6, <2>1, <3>1
  <2>2. CASE x # w BY <1>1, <1>3, <1>6, <2>2
  <2> QED BY <2>1, <2>2
<1> QED BY <1>1, <1>4, <1>5, <1>6 DEF PoolOK, Pool, Named

\* Every step of a thread is such a step.
LEMMA ThreadStepKeeps ==
  ASSUME IInv, NEW w \in Workers, ThreadStep(w)
  PROVE  SessionType' /\ KeysType' /\ SetsType' /\ PoolOK(Pool)'
<1>1. SessionType' /\ KeysType' /\ SetsType'
  BY DEF ThreadStep, End, Connect, WaitReturns, HandshakeFails, GiveUp, ConnectionLost, ThreadOnly, manager,
         pending, keys, flags, IInv, SessionType, KeysType, SetsType
<1>2. registry' = registry
  BY DEF ThreadStep, End, Connect, WaitReturns, HandshakeFails, GiveUp, ConnectionLost, ThreadOnly
<1>3. thread[w] \in ThreadType /\ ThreadOK(thread[w]) BY DEF IInv, PoolOK, Pool
<1>4. ThreadOK(Dead) BY NewThreads
<1>5. CASE thread' = [thread EXCEPT ![w] = Dead] BY <1>1, <1>2, <1>4, <1>5, ThreadKeeps
<1>6. ASSUME NEW t \in ThreadType, t.watch = thread[w].watch, t.stop = thread[w].stop, t.at # "dead", Trying(t),
             thread[w].at # "dead", thread' = [thread EXCEPT ![w] = t]
      PROVE  PoolOK(Pool)'
  <2>1. t # Dead BY <1>6 DEF Dead
  <2>2. t.watch \in Watches BY <1>3, <1>6 DEF ThreadOK
  <2>3. ThreadOK(t) BY <1>6, <2>1, <2>2 DEF ThreadOK
  <2> QED BY <1>2, <1>6, <2>3, ThreadKeeps
<1>7. CASE End(w) \/ GiveUp(w) BY <1>1, <1>5, <1>7 DEF End, GiveUp
<1>8. CASE Connect(w) \/ ConnectionLost(w)
  <2>1. PICK at \in {"top", "idle"} : thread' = [thread EXCEPT ![w].at = at] BY <1>8 DEF Connect, ConnectionLost
  <2>2. thread[w].at \in {"top", "idle"} BY <1>8 DEF Connect, ConnectionLost
  <2>3. thread[w].failures < Threshold BY <1>3, <2>2 DEF ThreadOK, Trying
  <2> DEFINE t == [thread[w] EXCEPT !.at = at]
  <2>4. /\ t \in ThreadType /\ t.watch = thread[w].watch /\ t.stop = thread[w].stop
        /\ t.at = at /\ t.failures = thread[w].failures
    BY <1>3 DEF ThreadType
  <2>5. thread' = [thread EXCEPT ![w] = t] BY <2>1
  <2> HIDE DEF t
  <2>6. Trying(t) BY <2>3, <2>4 DEF Trying
  <2> QED BY <1>1, <1>6, <2>2, <2>4, <2>5, <2>6
<1>9. CASE WaitReturns(w) \/ HandshakeFails(w)
  <2>1. thread[w].at = "idle" BY <1>9 DEF WaitReturns, HandshakeFails
  <2>2. thread[w].failures \in 0..Threshold /\ thread[w].failures < Threshold
    BY <1>3, <2>1 DEF ThreadType, ThreadOK, Trying
  <2>3. CASE thread[w].stop
    <3>1. thread' = [thread EXCEPT ![w] = Dead] BY <1>9, <2>3 DEF WaitReturns, HandshakeFails
    <3> QED BY <1>1, <1>5, <3>1
  <2>4. CASE WaitReturns(w) /\ ~thread[w].stop
    <3> DEFINE t == [thread[w] EXCEPT !.failures = 0]
    <3>1. thread' = [thread EXCEPT ![w] = t] BY <2>4 DEF WaitReturns
    <3>2. 0 \in 0..Threshold /\ 0 < Threshold BY WatchAssumption
    <3>3. /\ t \in ThreadType /\ t.watch = thread[w].watch /\ t.stop = thread[w].stop
          /\ t.at = "idle" /\ t.failures = 0
      BY <1>3, <2>1, <3>2 DEF ThreadType
    <3> HIDE DEF t
    <3>4. Trying(t) BY <3>2, <3>3 DEF Trying
    <3> QED BY <1>1, <1>6, <2>1, <3>1, <3>3, <3>4
  <2>5. CASE HandshakeFails(w) /\ ~thread[w].stop
    <3> DEFINE n == thread[w].failures + 1
               at == IF n >= Threshold THEN "giveup" ELSE "top"
               t == [thread[w] EXCEPT !.failures = n, !.at = at]
    <3>1. thread' = [thread EXCEPT ![w] = IF thread[w].stop THEN Dead ELSE t] BY <2>5, Zenon DEF HandshakeFails
    <3>2. n \in 0..Threshold /\ (at = "top" => n < Threshold) /\ at \in {"top", "giveup"}
      BY <2>2, WatchAssumption
    <3> HIDE DEF n, at
    <3>3. /\ t \in ThreadType /\ t.watch = thread[w].watch /\ t.stop = thread[w].stop
          /\ t.at = at /\ t.failures = n
      BY <1>3, <3>2 DEF ThreadType
    <3> HIDE DEF t
    <3>4. thread' = [thread EXCEPT ![w] = t] BY <2>5, <3>1
    <3>5. Trying(t) BY <3>2, <3>3 DEF Trying
    <3> QED BY <1>1, <1>6, <2>1, <3>2, <3>3, <3>4, <3>5
  <2> QED BY <1>9, <2>3, <2>4, <2>5
<1> QED BY <1>7, <1>8, <1>9 DEF ThreadStep

-----------------------------------------------------------------------------
\* Every step keeps it.
LEMMA StepInv == IInv /\ [Next]_vars => IInv'
<1> SUFFICES ASSUME IInv, [Next]_vars PROVE IInv' OBVIOUS
<1>1. CASE UNCHANGED vars
  <2>1. UNCHANGED <<manager, pending, keys, registry, thread, flags, calls>> BY <1>1 DEF vars
  <2>2. SessionType' /\ KeysType' /\ SetsType' /\ calls' \in 0..MaxCalls
    BY <2>1 DEF IInv, SessionType, KeysType, SetsType, flags, manager, pending, keys
  <2> QED BY <2>1, <2>2, SamePool DEF IInv
<1>2. CASE calls < MaxCalls /\ calls' = calls + 1 /\ Call
  <2>1. calls' \in 0..MaxCalls BY <1>2, WatchAssumption DEF IInv
  <2>2. SessionType' /\ KeysType' /\ SetsType' /\ PoolOK(Pool)'
    BY <1>2, SessionKeeps, ActivateKeeps, FolderKeeps, WorldKeeps DEF Call
  <2> QED BY <2>1, <2>2 DEF IInv
<1>3. CASE BeginChecks /\ UNCHANGED calls
  <2>1. SessionType' /\ KeysType' /\ SetsType'
    BY <1>3 DEF BeginChecks, IInv, SessionType, KeysType, SetsType, flags, manager, keys
  <2>2. UNCHANGED <<registry, thread, calls>> BY <1>3 DEF BeginChecks
  <2> QED BY <2>1, <2>2, SamePool DEF IInv
<1>4. CASE (\E a \in Accounts : AccountStep(a)) /\ UNCHANGED calls BY <1>4, AccountKeeps DEF IInv
<1>5. CASE (\E w \in Workers : ThreadStep(w)) /\ UNCHANGED calls BY <1>5, ThreadStepKeeps DEF IInv
<1> QED BY <1>1, <1>2, <1>3, <1>4, <1>5 DEF Next

\* The watching state of the manager and its threads is of its type.
THEOREM TypeCorrect == Spec => []TypeOK
<1>1. IInv => TypeOK
  BY DEF IInv, SessionType, KeysType, SetsType, PoolOK, Pool, ThreadOK, TypeOK
<1> QED BY <1>1, InitInv, StepInv, PTL DEF Spec

\* However accounts, folders and push are switched while threads fail, end and
\* start anew, a thread nobody told to stop is the one the registry names: an
\* account that is stopped loses all its threads, and no mailbox has two.
THEOREM NoThreadIsLost == Spec => []NoOrphanThread
<1>1. IInv => NoOrphanThread BY DEF IInv, PoolOK, Pool, Named, NoOrphanThread
<1> QED BY <1>1, InitInv, StepInv, PTL DEF Spec

-----------------------------------------------------------------------------
(* Imports *)

Stages == {"connect", "list", "next", "append", "record", "logout"}
Works ==
  [at : Stages, run : Nat, path : Paths \union {Absent}, list : Seq(Msgs), page : Nat, pos : Nat, seen : SUBSET Msgs]
\* nothing under way, or a run that is to be queued again
Rests == {AtRest} \union [at : {"requeue"}, run : Nat]

Running == work.at \in Stages

LinkType == source \in {"google", "google_takeout"}
FileType ==
  /\ staged \in Paths \union {Absent}
  /\ disk \in [Paths -> Nat \union {Absent}]
  /\ \A p \in Paths : disk[p] # Absent => disk[p] <= Len(Files[p[1]])
TaskType == queue \subseteq Nat /\ runs \in Nat
SavedType ==
  /\ saved \in [run : Nat, cursor : Nat, by : Nat]
  /\ known \subseteq Msgs
  /\ box \in [Msgs -> Nat]
  /\ breaks \in Nat
WorkType ==
  /\ work \in Rests \union Works
  /\ Running /\ ~Google => work.path \in Paths
  /\ Running /\ Google /\ work.at # "connect" => work.list = Mailbox
  /\ work.at \in {"append", "record"} => Left /\ Message \notin known

\* What was recorded since a page was listed is behind the runner in it.
PageSeen ==
  work.at \in {"next", "append", "record"} /\ Google =>
    \A m \in known \ work.seen : \E i \in 1..work.pos : i \in DOMAIN Mailbox /\ Mailbox[i] = m

Recorded(m) == IF m \in known THEN 1 ELSE 0
Doubled(m) == IF work.at = "record" /\ Message = m THEN 1 ELSE 0

\* Every copy has a record, is about to have one, or comes from a break.
Accounted == \A m \in Msgs : box[m] <= Recorded(m) + Doubled(m) + breaks

ImportInv == LinkType /\ FileType /\ TaskType /\ SavedType /\ WorkType /\ PageSeen /\ Accounted

-----------------------------------------------------------------------------
\* It holds at first.
LEMMA ImportInitInv == ImportInit => ImportInv
BY ImportAssumption
   DEF ImportInit, ImportInv, LinkType, FileType, TaskType, SavedType, WorkType, PageSeen, Accounted, Recorded, Doubled,
       Running, Stages, Rests, AtRest, NoRun, Google

\* Steps that touch neither runner, mailbox nor records.
LEMMA PageKeeps ==
  ASSUME ImportInv, FileType', TaskType', UNCHANGED <<source, saved, known, work, box, breaks>>
  PROVE  ImportInv'
BY DEF ImportInv, LinkType, SavedType, WorkType, PageSeen, Accounted, Recorded, Doubled, Running, Google, Left, Message

\* An upload begins, goes on, or starts anew.
LEMMA UploadKeeps ==
  ASSUME ImportInv, InitTakeoutUpload \/ UploadTakeoutChunk
  PROVE  ImportInv'
<1>1. ASSUME NEW n \in Names PROVE /\ Ensured(n) \in [Paths -> Nat \union {Absent}]
                                   /\ \A p \in Paths : Ensured(n)[p] # Absent => Ensured(n)[p] <= Len(Files[p[1]])
                                   /\ Part(n) \in Paths /\ Final(n) \in Paths
  <2>1. Part(n) \in Paths /\ Final(n) \in Paths BY DEF Part, Final, Paths
  <2>2. \A p \in Paths : Len(Files[p[1]]) \in Nat BY ImportAssumption DEF Paths, Names
  <2> QED BY <2>1, <2>2 DEF Ensured, Without, ImportInv, FileType
<1>2. CASE InitTakeoutUpload
  <2>1. FileType' BY <1>1, <1>2 DEF InitTakeoutUpload, Ensures, FileType
  <2>2. TaskType' BY <1>2 DEF InitTakeoutUpload, ImportInv, TaskType, tasks
  <2> QED BY <1>2, <2>1, <2>2, PageKeeps DEF InitTakeoutUpload, link
<1>3. CASE UploadTakeoutChunk
  <2>1. FileType'
    <3> DEFINE More(n, offset) == [Ensured(n) EXCEPT ![Part(n)] = offset + 1]
    <3>a. PICK n \in Names : \E offset \in 0..(Len(Files[n]) - 1) :
            \/ \E st \in {"uploading", "pending_upload"} :
                 Ensures(n, st) \/ Appends(n, More(n, offset), st)
            \/ /\ disk' = [More(n, offset) EXCEPT ![Part(n)] = Absent, ![Final(n)] = offset + 1]
               /\ staged' = Final(n)
      BY <1>3 DEF UploadTakeoutChunk
    <3>1. PICK offset \in 0..(Len(Files[n]) - 1) :
            \/ \E st \in {"uploading", "pending_upload"} :
                 Ensures(n, st) \/ Appends(n, More(n, offset), st)
            \/ /\ disk' = [More(n, offset) EXCEPT ![Part(n)] = Absent, ![Final(n)] = offset + 1]
               /\ staged' = Final(n)
      BY <3>a
    <3>2. Len(Files[n]) \in Nat BY ImportAssumption DEF Names
    <3>3. offset + 1 \in Nat /\ offset + 1 <= Len(Files[n]) BY <3>2
    <3>4. Part(n)[1] = n /\ Final(n)[1] = n BY DEF Part, Final
    <3> QED BY <1>1, <3>1, <3>3, <3>4 DEF Ensures, Appends, FileType
  <2>2. TaskType' BY <1>3 DEF UploadTakeoutChunk, ImportInv, TaskType, tasks
  <2> QED BY <1>3, <2>1, <2>2, PageKeeps DEF UploadTakeoutChunk, link
<1> QED BY <1>2, <1>3

\* The other pages, and what the manager does between imports.
LEMMA PagesKeep ==
  ASSUME ImportInv, LinkExpires \/ Expires \/ GoogleCallback \/ ToggleImportRequest \/ RunRequest
               \/ CleanupExpiredUploads \/ DropImport
  PROVE  ImportInv'
<1>1. UNCHANGED <<source, saved, known, work, box, breaks>>
  BY DEF LinkExpires, Expires, GoogleCallback, ToggleImportRequest, RunRequest, CleanupExpiredUploads, DropImport, link
<1>2. FileType'
  <2>1. CASE CleanupExpiredUploads BY <2>1 DEF CleanupExpiredUploads, Without, ImportInv, FileType
  <2>2. CASE ~CleanupExpiredUploads
    <3>1. UNCHANGED <<staged, disk>>
      BY <2>2 DEF LinkExpires, Expires, GoogleCallback, ToggleImportRequest, RunRequest, DropImport, file
    <3> QED BY <3>1 DEF ImportInv, FileType
  <2> QED BY <2>1, <2>2
<1>3. TaskType'
  <2>1. CASE RunRequest
    <3>1. CASE pendingImport BY <2>1, <3>1 DEF RunRequest, tasks, ImportInv, TaskType
    <3>2. CASE ~pendingImport
      <4>1. runs' = runs + 1 /\ Enqueue(runs + 1) BY <2>1, <3>2, Zenon DEF RunRequest
      <4>2. queue' = queue \union {runs + 1} BY <4>1 DEF Enqueue
      <4> QED BY <4>1, <4>2 DEF ImportInv, TaskType
    <3> QED BY <3>1, <3>2
  <2>2. CASE DropImport BY <2>2 DEF DropImport, ImportInv, TaskType
  <2>3. CASE LinkExpires \/ Expires \/ GoogleCallback \/ ToggleImportRequest \/ CleanupExpiredUploads
    <3>1. UNCHANGED <<queue, runs>>
      BY <2>3 DEF LinkExpires, Expires, GoogleCallback, ToggleImportRequest, CleanupExpiredUploads, tasks
    <3> QED BY <3>1 DEF ImportInv, TaskType
  <2> QED BY <2>1, <2>2, <2>3
<1> QED BY <1>1, <1>2, <1>3, PageKeeps

-----------------------------------------------------------------------------
(* The runner *)

\* While no message is under way, what the records and breaks account for.
LEMMA RestAccounted ==
  ASSUME ImportInv, UNCHANGED <<known, box>>, breaks' \in Nat, breaks' >= breaks,
         work.at # "record" \/ breaks' >= breaks + 1
  PROVE  \A m \in Msgs : box'[m] <= Recorded(m)' + breaks'
BY DEF ImportInv, Accounted, Recorded, Doubled, SavedType

\* The runner stops.
LEMMA StopKeeps ==
  ASSUME ImportInv, work' \in Rests, UNCHANGED <<source, known, box>>, FileType', TaskType',
         saved' \in [run : Nat, cursor : Nat, by : Nat],
         breaks' \in Nat, breaks' >= breaks, work.at # "record" \/ breaks' >= breaks + 1
  PROVE  ImportInv'
<1>1. LinkType' /\ SavedType' BY DEF ImportInv, LinkType, SavedType
<1>2. WorkType' /\ PageSeen' BY DEF WorkType, PageSeen, Running, Stages, Rests, AtRest
<1>3. Accounted' BY RestAccounted DEF Accounted, Doubled, Rests, AtRest, Recorded, SavedType, ImportInv
<1> QED BY <1>1, <1>2, <1>3 DEF ImportInv

\* The runner goes on, between messages.
LEMMA GoKeeps ==
  ASSUME ImportInv, work' \in Works, UNCHANGED <<source, known, box, breaks, file>>, TaskType',
         saved' \in [run : Nat, cursor : Nat, by : Nat],
         work.at # "record", work'.at # "record",
         ~Google => work'.path \in Paths,
         Google /\ work'.at # "connect" => work'.list = Mailbox,
         work'.at = "append" => Left' /\ Message' \notin known,
         PageSeen'
  PROVE  ImportInv'
<1>1. LinkType' /\ SavedType' /\ FileType' BY DEF ImportInv, LinkType, SavedType, FileType, file
<1>2. WorkType' BY DEF WorkType, Running, Google
<1>3. Accounted'
  <2>1. \A m \in Msgs : box'[m] <= Recorded(m)' + breaks' BY RestAccounted DEF ImportInv, SavedType
  <2> QED BY <2>1 DEF Accounted, Doubled, Recorded, ImportInv, SavedType
<1> QED BY <1>1, <1>2, <1>3 DEF ImportInv

\* A running import has its record.
LEMMA IdleAt == ASSUME ImportInv, work.at \in Stages PROVE work \in Works /\ Running
BY DEF ImportInv, WorkType, Rests, AtRest, Stages, Running

\* A run is taken from the queue.
LEMMA TakeKeeps == ASSUME ImportInv, TakeImport PROVE ImportInv'
<1>1. PICK r \in queue :
        \/ Retry(r) /\ staged' = Absent /\ UNCHANGED disk /\ queue' = queue \ {r}
        \/ queue' = queue \ {r} /\ work' = Begin(r) /\ UNCHANGED <<staged, disk>>
           /\ (~Google => disk[staged] # Absent)
  BY Zenon DEF TakeImport, file
<1>2. r \in Nat /\ work.at = "idle" /\ UNCHANGED <<source, runs, saved, known, box, breaks>>
  BY DEF ImportInv, TaskType, TakeImport, AtRest, link
<1>3. Runnable BY DEF TakeImport
<1>4. CASE Retry(r) /\ staged' = Absent /\ UNCHANGED disk /\ queue' = queue \ {r}
  <2>1. FileType' BY <1>4 DEF ImportInv, FileType
  <2>2. TaskType' BY <1>2, <1>4 DEF Retry, ImportInv, TaskType
  <2>3. saved' \in [run : Nat, cursor : Nat, by : Nat] /\ breaks' \in Nat /\ breaks' >= breaks
    BY <1>2 DEF ImportInv, SavedType
  <2> QED BY <1>2, <1>4, <2>1, <2>2, <2>3, StopKeeps DEF Retry, Rests
<1>5. CASE queue' = queue \ {r} /\ work' = Begin(r) /\ UNCHANGED <<staged, disk>>
  <2>1. TaskType' BY <1>2, <1>5 DEF ImportInv, TaskType
  <2>2. FileType' BY <1>5 DEF ImportInv, FileType
  <2>3. <<>> \in Seq(Msgs) OBVIOUS
  <2>4. Begin(r) \in Works BY <1>2, <2>3 DEF Begin, Works, Stages, ImportInv, FileType
  <2>5. work'.at = "connect" /\ work'.path = staged BY <1>5 DEF Begin
  <2>6. ~Google => work'.path \in Paths BY <1>3, <2>5 DEF Runnable, ImportInv, FileType
  <2>7. LinkType' /\ SavedType' BY <1>2 DEF ImportInv, LinkType, SavedType
  <2>8. WorkType' BY <1>2, <1>5, <2>4, <2>5, <2>6 DEF WorkType, Running, Google
  <2>9. PageSeen' BY <2>5 DEF PageSeen
  <2>10. Accounted' BY <1>2, <2>5 DEF ImportInv, Accounted, Recorded, Doubled
  <2> QED BY <2>1, <2>2, <2>7, <2>8, <2>9, <2>10 DEF ImportInv
<1> QED BY <1>1, <1>4, <1>5

\* What fails is to be queued again.
LEMMA RetryKeeps ==
  ASSUME ImportInv, work.at \in Stages, Retry(work.run), UNCHANGED <<source, staged, disk, runs, queue, known, box>>,
         saved' \in [run : Nat, cursor : Nat, by : Nat],
         breaks' \in Nat, breaks' >= breaks, work.at # "record" \/ breaks' >= breaks + 1
  PROVE  ImportInv'
<1>1. work.run \in Nat BY IdleAt DEF Works
<1>2. TaskType' BY DEF ImportInv, TaskType
<1>3. FileType' BY DEF ImportInv, FileType
<1> QED BY <1>1, <1>2, <1>3, StopKeeps DEF Retry, Rests

\* It is, or the page was first.
LEMMA RequeueKeeps == ASSUME ImportInv, Requeue PROVE ImportInv'
<1>1. /\ work' \in Rests /\ UNCHANGED <<source, staged, disk, runs, saved, known, box, breaks>>
      /\ work.at = "requeue"
  BY DEF Requeue, Rests, link, file
<1>2. work.run \in Nat BY <1>1 DEF ImportInv, WorkType, Rests, AtRest, Works, Stages
<1>3. queue' = queue \/ queue' = queue \union {work.run} BY Zenon DEF Requeue, Enqueue, tasks
<1>4. TaskType' BY <1>1, <1>2, <1>3 DEF ImportInv, TaskType
<1>5. FileType' BY <1>1 DEF ImportInv, FileType
<1>6. saved \in [run : Nat, cursor : Nat, by : Nat] /\ breaks \in Nat BY DEF ImportInv, SavedType
<1> QED BY <1>1, <1>4, <1>5, <1>6, StopKeeps

\* Google, the mailbox or the disk refuses, or a record is lost.
LEMMA FailKeeps == ASSUME ImportInv, ImportFails \/ RecordLost PROVE ImportInv'
<1>1. saved' \in [run : Nat, cursor : Nat, by : Nat] /\ breaks \in Nat
  BY DEF ImportFails, RecordLost, ImportInv, SavedType
<1>2. UNCHANGED <<source, staged, disk, runs, queue, known, box>> /\ Retry(work.run) /\ work.at \in Stages
  BY DEF ImportFails, RecordLost, link, file, Stages
<1>3. (breaks' = breaks /\ work.at # "record") \/ breaks' = breaks + 1
  BY DEF ImportFails, RecordLost, Breaks
<1> QED BY <1>1, <1>2, <1>3, RetryKeeps

\* The destination answers, and the source is opened at the run's cursor.
LEMMA PrepareKeeps == ASSUME ImportInv, PrepareDestination PROVE ImportInv'
<1>1. work \in Works /\ Running /\ work.at = "connect" BY IdleAt DEF PrepareDestination, Stages
<1>2. Cursor(work.run) \in Nat BY DEF Cursor, ImportInv, SavedType
<1>3. UNCHANGED <<source, file, runs, queue, known, box, breaks>> BY DEF PrepareDestination, link
<1>4. CASE Retry(work.run) /\ saved' = [saved EXCEPT !.run = work.run]
  <2>1. saved' \in [run : Nat, cursor : Nat, by : Nat] /\ breaks' \in Nat /\ breaks' >= breaks
    BY <1>1, <1>3, <1>4 DEF ImportInv, SavedType, Works
  <2> QED BY <1>1, <1>3, <1>4, <2>1, RetryKeeps DEF Stages, file
<1>5. ASSUME NEW list \in Seq(Msgs), Opened(list), Google => list = Mailbox PROVE ImportInv'
  <2> DEFINE at == IF Google THEN "list" ELSE "next"
  <2>1. work' = [work EXCEPT !.at = at, !.list = list, !.page = Cursor(work.run), !.pos = Cursor(work.run)]
    BY <1>5 DEF Opened
  <2>2. work' \in Works /\ work'.at = at /\ work'.list = list /\ work'.path = work.path
    BY <1>1, <1>2, <2>1 DEF Works, Stages
  <2>3. saved' \in [run : Nat, cursor : Nat, by : Nat] BY <1>1, <1>5 DEF Opened, ImportInv, SavedType, Works
  <2>4. TaskType' BY <1>3, <1>5 DEF Opened, ImportInv, TaskType, tasks
  <2>5. PageSeen' BY <1>3, <2>2 DEF PageSeen, Google
  <2>6. ~Google => work'.path \in Paths BY <1>1, <2>2 DEF ImportInv, WorkType
  <2> QED BY <1>1, <1>3, <1>5, <2>2, <2>3, <2>4, <2>5, <2>6, GoKeeps
<1>6. CASE Google BY <1>5, <1>6, ImportAssumption DEF PrepareDestination
<1>7. CASE ~Google /\ disk[work.path] # Absent
  <2> DEFINE s == Files[work.path[1]]
  <2>1. work.path \in Paths BY <1>1, <1>7 DEF ImportInv, WorkType
  <2>2. s \in Seq(Msgs) BY <2>1, ImportAssumption DEF Paths, Names
  <2>3. disk[work.path] \in Nat /\ disk[work.path] <= Len(s) BY <1>7, <2>1 DEF ImportInv, FileType
  <2>4. SubSeq(s, 1, disk[work.path]) \in Seq(Msgs) BY <2>2, <2>3
  <2> QED BY <1>5, <1>7, <2>4 DEF PrepareDestination
<1>8. CASE ~Google /\ disk[work.path] = Absent BY <1>4, <1>8 DEF PrepareDestination
<1> QED BY <1>6, <1>7, <1>8

\* A page is listed, or is done with.
LEMMA ListKeeps == ASSUME ImportInv, ListPage \/ NextPage PROVE ImportInv'
<1>1. CASE ListPage
  <2>1. work \in Works /\ Running /\ work.at = "list" BY <1>1, IdleAt DEF ListPage, Stages
  <2>2. /\ work' = [work EXCEPT !.at = "next", !.seen = known]
        /\ UNCHANGED <<source, known, box, breaks, file, saved, tasks, runs>>
    BY <1>1 DEF ListPage, link
  <2>3. known \subseteq Msgs /\ saved \in [run : Nat, cursor : Nat, by : Nat] BY DEF ImportInv, SavedType
  <2>4. /\ work' \in Works /\ work'.at = "next" /\ work'.seen = known
        /\ work'.list = work.list /\ work'.path = work.path
    BY <2>1, <2>2, <2>3 DEF Works, Stages
  <2>5. PageSeen' BY <2>2, <2>4 DEF PageSeen
  <2>6. TaskType' BY <2>2 DEF ImportInv, TaskType, tasks
  <2>7. (~Google => work'.path \in Paths) /\ (Google => work'.list = Mailbox) BY <2>1, <2>4 DEF ImportInv, WorkType
  <2> QED BY <2>1, <2>2, <2>3, <2>4, <2>5, <2>6, <2>7, GoKeeps
<1>2. CASE NextPage
  <2>1. work \in Works /\ Running /\ work.at = "next" BY <1>2, IdleAt DEF NextPage, Stages
  <2>2. /\ work' = [work EXCEPT !.at = "list", !.page = work.pos]
        /\ UNCHANGED <<source, known, box, breaks, file, tasks, runs>>
        /\ saved' = [saved EXCEPT !.cursor = work.pos, !.by = work.run]
    BY <1>2 DEF NextPage, link
  <2>3. saved' \in [run : Nat, cursor : Nat, by : Nat] BY <2>1, <2>2 DEF ImportInv, SavedType, Works
  <2>4. /\ work' \in Works /\ work'.at = "list"
        /\ work'.list = work.list /\ work'.path = work.path
    BY <2>1, <2>2 DEF Works, Stages
  <2>5. PageSeen' BY <2>4 DEF PageSeen
  <2>6. TaskType' BY <2>2 DEF ImportInv, TaskType, tasks
  <2>7. (~Google => work'.path \in Paths) /\ (Google => work'.list = Mailbox) BY <2>1, <2>4 DEF ImportInv, WorkType
  <2> QED BY <2>1, <2>2, <2>3, <2>4, <2>5, <2>6, <2>7, GoKeeps
<1> QED BY <1>1, <1>2

\* The checkpoint is written.
LEMMA PersistType ==
  ASSUME ImportInv, work \in Works, NEW pos \in Nat, Persist(pos)
  PROVE  saved' \in [run : Nat, cursor : Nat, by : Nat]
<1> DEFINE c == IF Google THEN work.page ELSE pos
<1>1. c \in Nat /\ work.run \in Nat BY DEF Works
<1>2. saved' = [saved EXCEPT !.cursor = c, !.by = work.run] BY DEF Persist
<1> HIDE DEF c
<1> QED BY <1>1, <1>2 DEF ImportInv, SavedType

\* A message is passed over, or read.
LEMMA MoveKeeps == ASSUME ImportInv, SkipMessage \/ ReadMessage PROVE ImportInv'
<1>1. /\ work \in Works /\ Running /\ work.at = "next" /\ Left
      /\ UNCHANGED <<source, file, runs, tasks, known, box, breaks>>
  BY IdleAt DEF SkipMessage, ReadMessage, Stages, link
<1>2. TaskType' BY <1>1 DEF ImportInv, TaskType, tasks
<1>3. (~Google => work.path \in Paths) /\ (Google => work.list = Mailbox) BY <1>1 DEF ImportInv, WorkType
<1>4. saved \in [run : Nat, cursor : Nat, by : Nat] BY DEF ImportInv, SavedType
<1>5. CASE SkipMessage
  <2>1. work' = [work EXCEPT !.pos = @ + 1] BY <1>5 DEF SkipMessage
  <2>2. /\ work' \in Works /\ work'.at = "next" /\ work'.pos = work.pos + 1
        /\ work'.list = work.list /\ work'.path = work.path /\ work'.seen = work.seen
    BY <1>1, <2>1 DEF Works, Stages
  <2>3. saved' = saved \/ Persist(work.pos + 1) BY <1>5, Zenon DEF SkipMessage
  <2>4. saved' \in [run : Nat, cursor : Nat, by : Nat] 
    <3>1. work.pos + 1 \in Nat BY <1>1 DEF Works
    <3> QED BY <1>1, <1>4, <2>3, <3>1, PersistType
  <2>5. PageSeen' BY <1>1, <2>2 DEF ImportInv, PageSeen, Works, Google
  <2> QED BY <1>1, <1>2, <1>3, <2>2, <2>4, <2>5, GoKeeps
<1>6. CASE ReadMessage
  <2>1. work' = [work EXCEPT !.at = "append"] BY <1>6 DEF ReadMessage
  <2>2. /\ work' \in Works /\ work'.at = "append" /\ work'.pos = work.pos
        /\ work'.list = work.list /\ work'.path = work.path /\ work'.seen = work.seen
    BY <1>1, <2>1 DEF Works, Stages
  <2>3. saved' = saved BY <1>6 DEF ReadMessage
  <2>4. PageSeen' BY <1>1, <2>2 DEF ImportInv, PageSeen, Google
  <2>5. Left' /\ Message' = Message BY <1>1, <2>2 DEF Left, Message
  <2>6. ~Imported(Message) BY <1>6 DEF ReadMessage
  <2>7. Message \notin known
    <3>1. CASE ~Google BY <2>6, <3>1 DEF Imported
    <3>2. CASE Google
      <4>1. Message = Mailbox[work.pos + 1] /\ work.pos + 1 \in DOMAIN Mailbox
        BY <1>1, <1>3, <3>2, ImportAssumption DEF Message, Left, Works
      <4>2. Message \notin work.seen BY <2>6, <3>2 DEF Imported
      <4>3. \A i \in 1..work.pos : i \in DOMAIN Mailbox => Mailbox[i] # Message
        BY <1>1, <4>1, ImportAssumption DEF Works
      <4> QED BY <1>1, <3>2, <4>2, <4>3 DEF ImportInv, PageSeen
    <3> QED BY <3>1, <3>2
  <2> QED BY <1>1, <1>2, <1>3, <1>4, <2>2, <2>3, <2>4, <2>5, <2>7, GoKeeps
<1> QED BY <1>5, <1>6

\* A message that had no record is appended.
LEMMA AppendKeeps == ASSUME ImportInv, AppendMessage PROVE ImportInv'
<1>1. /\ work \in Works /\ Running /\ work.at = "append"
      /\ UNCHANGED <<source, file, saved, runs, tasks, known, breaks>>
  BY IdleAt DEF AppendMessage, Stages, link
<1>2. work' = [work EXCEPT !.at = "record"] /\ box' = [box EXCEPT ![Message] = @ + 1] BY DEF AppendMessage
<1>3. /\ work' \in Works /\ work'.at = "record" /\ work'.pos = work.pos
      /\ work'.list = work.list /\ work'.path = work.path /\ work'.seen = work.seen
  BY <1>1, <1>2 DEF Works, Stages
<1>4. Left' /\ Message' = Message /\ Message \notin known
  BY <1>1, <1>3 DEF Left, Message, ImportInv, WorkType
<1>5. LinkType' /\ FileType' /\ TaskType' BY <1>1 DEF ImportInv, LinkType, FileType, TaskType, file, tasks
<1>6. SavedType'
  <2>1. Message \in Msgs BY <1>1 DEF ImportInv, WorkType, Left, Message, Works
  <2>2. box' \in [Msgs -> Nat] BY <1>2, <2>1 DEF ImportInv, SavedType
  <2> QED BY <1>1, <2>2 DEF ImportInv, SavedType
<1>7. WorkType' BY <1>1, <1>3, <1>4 DEF ImportInv, WorkType, Running, Google
<1>8. PageSeen' BY <1>1, <1>3 DEF ImportInv, PageSeen, Google
<1>9. Accounted'
  <2>1. \A m \in Msgs : box[m] <= Recorded(m) + breaks BY <1>1 DEF ImportInv, Accounted, Doubled, Recorded, SavedType
  <2> QED BY <1>1, <1>2, <1>3, <1>4, <2>1 DEF ImportInv, Accounted, Doubled, Recorded, SavedType
<1> QED BY <1>5, <1>6, <1>7, <1>8, <1>9 DEF ImportInv

\* It is recorded, and the runner is past it.
LEMMA RecordKeeps == ASSUME ImportInv, RecordMessage PROVE ImportInv'
<1>1. /\ work \in Works /\ Running /\ work.at = "record" /\ Left
      /\ UNCHANGED <<source, file, runs, tasks, box, breaks>>
  BY IdleAt DEF RecordMessage, Stages, link, ImportInv, WorkType
<1>2. /\ work' = [work EXCEPT !.at = "next", !.pos = @ + 1]
      /\ known' = known \union {Message} /\ Persist(work.pos + 1)
  BY DEF RecordMessage
<1>3. /\ work' \in Works /\ work'.at = "next" /\ work'.pos = work.pos + 1
      /\ work'.list = work.list /\ work'.path = work.path /\ work'.seen = work.seen
  <2>1. work.pos + 1 \in Nat BY <1>1 DEF Works
  <2>2. work' = [work EXCEPT !.at = "next", !.pos = work.pos + 1] BY <1>2
  <2> QED BY <1>1, <2>1, <2>2 DEF Works, Stages
<1>4. Message \in Msgs /\ work.pos + 1 \in DOMAIN work.list BY <1>1 DEF Left, Message, Works
<1>5. LinkType' /\ FileType' /\ TaskType' BY <1>1 DEF ImportInv, LinkType, FileType, TaskType, file, tasks
<1>6. saved' \in [run : Nat, cursor : Nat, by : Nat] 
  <2>1. work.pos + 1 \in Nat BY <1>1 DEF Works
  <2> QED BY <1>1, <1>2, <2>1, PersistType
<1>7. SavedType' BY <1>1, <1>2, <1>4, <1>6 DEF ImportInv, SavedType
<1>8. WorkType' BY <1>1, <1>3 DEF ImportInv, WorkType, Running, Google
<1>9. PageSeen'
  <2>1. CASE Google
    <3>1. Message = Mailbox[work.pos + 1] /\ work.pos + 1 \in DOMAIN Mailbox
      BY <1>1, <1>4, <2>1 DEF ImportInv, WorkType, Message
    <3> QED BY <1>1, <1>2, <1>3, <2>1, <3>1 DEF ImportInv, PageSeen, Google, Works
  <2>2. CASE ~Google BY <1>1, <2>2 DEF PageSeen, Google
  <2> QED BY <2>1, <2>2
<1>10. Accounted'
  <2> SUFFICES ASSUME NEW m \in Msgs PROVE box'[m] <= Recorded(m)' + Doubled(m)' + breaks' BY DEF Accounted
  <2>1. box[m] <= Recorded(m) + Doubled(m) + breaks /\ breaks \in Nat BY DEF ImportInv, Accounted, SavedType
  <2>2. Doubled(m)' = 0 BY <1>3 DEF Doubled
  <2>3. CASE m = Message
    <3>1. Recorded(m) = 0 /\ Doubled(m) = 1 BY <1>1, <2>3 DEF ImportInv, WorkType, Recorded, Doubled
    <3>2. Recorded(m)' = 1 BY <1>2, <2>3 DEF Recorded
    <3> QED BY <1>1, <2>1, <2>2, <3>1, <3>2
  <2>4. CASE m # Message
    <3>1. Doubled(m) = 0 BY <2>4 DEF Doubled
    <3>2. Recorded(m)' = Recorded(m) BY <1>2, <2>4 DEF Recorded
    <3> QED BY <1>1, <2>1, <2>2, <3>1, <3>2
  <2> QED BY <2>3, <2>4
<1> QED BY <1>5, <1>7, <1>8, <1>9, <1>10 DEF ImportInv

\* The source is done with, the import completed, or the process ends.
LEMMA EndKeeps == ASSUME ImportInv, CloseImport \/ CompleteImport \/ ProcessEnds PROVE ImportInv'
<1>1. saved \in [run : Nat, cursor : Nat, by : Nat] /\ breaks \in Nat BY DEF ImportInv, SavedType
<1>2. ASSUME work.at = "next", EndCursor PROVE saved' \in [run : Nat, cursor : Nat, by : Nat]
  <2>1. work \in Works BY <1>2, IdleAt DEF Stages
  <2> QED BY <1>1, <1>2, <2>1 DEF EndCursor, Works
<1>3. disk' \in {disk, Without(disk, staged)} /\ staged' \in {staged, Absent} => FileType'
  BY DEF ImportInv, FileType, Without
<1>4. CASE CloseImport
  <2>1. work \in Works /\ Running /\ work.at = "next" BY <1>4, IdleAt DEF CloseImport, Stages
  <2>2. work' = [work EXCEPT !.at = "logout"] /\ UNCHANGED <<source, known, box, breaks, runs, queue>> /\ EndCursor
    BY <1>4 DEF CloseImport, link, tasks
  <2>3. /\ work' \in Works /\ work'.at = "logout" /\ work'.pos = work.pos
        /\ work'.list = work.list /\ work'.path = work.path /\ work'.seen = work.seen
    BY <2>1, <2>2 DEF Works, Stages
  <2>4. saved' \in [run : Nat, cursor : Nat, by : Nat] BY <1>2, <2>1, <2>2
  <2>5. FileType' BY <1>3, <1>4, Zenon DEF CloseImport, file
  <2>6. TaskType' BY <2>2 DEF ImportInv, TaskType
  <2>7. LinkType' /\ SavedType' BY <2>2, <2>4 DEF ImportInv, LinkType, SavedType
  <2>8. WorkType' /\ PageSeen' BY <2>1, <2>2, <2>3 DEF ImportInv, WorkType, PageSeen, Running, Stages, Google
  <2>9. Accounted' BY <2>1, <2>2, <2>3 DEF ImportInv, Accounted, Recorded, Doubled, SavedType
  <2> QED BY <2>5, <2>6, <2>7, <2>8, <2>9 DEF ImportInv
<1>5. CASE CompleteImport
  <2>1. work.at # "record" /\ work' \in Rests /\ UNCHANGED <<source, staged, disk, saved, known, box, breaks, runs, queue>>
    BY <1>5 DEF CompleteImport, link, file, Rests
  <2>2. TaskType' /\ FileType' BY <2>1 DEF ImportInv, TaskType, FileType
  <2> QED BY <1>1, <2>1, <2>2, StopKeeps
<1>6. CASE ProcessEnds
  <2>1. work' \in Rests /\ queue' = {} /\ breaks' = breaks + 1 /\ UNCHANGED <<source, staged, known, box, runs>>
    BY <1>6 DEF ProcessEnds, Breaks, link, Rests
  <2>2. disk' \in {disk, Without(disk, staged)} /\ (saved' = saved \/ (work.at = "next" /\ EndCursor))
    BY <1>6 DEF ProcessEnds
  <2>3. TaskType' /\ FileType' BY <1>3, <2>1, <2>2 DEF TaskType, ImportInv
  <2>4. saved' \in [run : Nat, cursor : Nat, by : Nat] BY <1>1, <1>2, <2>2
  <2> QED BY <1>1, <2>1, <2>3, <2>4, StopKeeps
<1> QED BY <1>4, <1>5, <1>6

-----------------------------------------------------------------------------
\* Every step keeps it.
LEMMA ImportStepInv == ImportInv /\ [ImportNext]_importVars => ImportInv'
<1> SUFFICES ASSUME ImportInv, [ImportNext]_importVars PROVE ImportInv' OBVIOUS
<1>1. CASE LinkExpires \/ Expires \/ GoogleCallback \/ ToggleImportRequest \/ RunRequest
           \/ CleanupExpiredUploads \/ DropImport
  BY <1>1, PagesKeep
<1>2. CASE InitTakeoutUpload \/ UploadTakeoutChunk BY <1>2, UploadKeeps
<1>3. CASE TakeImport BY <1>3, TakeKeeps
<1>4. CASE ImportFails \/ RecordLost BY <1>4, FailKeeps
<1>5. CASE PrepareDestination BY <1>5, PrepareKeeps
<1>6. CASE ListPage \/ NextPage BY <1>6, ListKeeps
<1>7. CASE SkipMessage \/ ReadMessage BY <1>7, MoveKeeps
<1>8. CASE AppendMessage BY <1>8, AppendKeeps
<1>9. CASE RecordMessage BY <1>9, RecordKeeps
<1>10. CASE CloseImport \/ CompleteImport \/ ProcessEnds BY <1>10, EndKeeps
<1>12. CASE Requeue BY <1>12, RequeueKeeps
<1>11. CASE UNCHANGED importVars
  <2>1. UNCHANGED <<source, saved, known, work, box, breaks, staged, disk, queue, runs>>
    BY <1>11 DEF importVars, link, file, tasks
  <2>2. FileType' /\ TaskType' BY <2>1 DEF ImportInv, FileType, TaskType
  <2> QED BY <2>1, <2>2, PageKeeps
<1> QED BY <1>1, <1>2, <1>3, <1>4, <1>5, <1>6, <1>7, <1>8, <1>9, <1>10, <1>11, <1>12
   DEF ImportNext, Page, Manager

\* However an import is interrupted, resumed and retried, every copy in the
\* mailbox has its record, is about to have it, or comes from a break.
THEOREM CopiesAccounted == ImportSpec => []ImportInv
BY ImportInitInv, ImportStepInv, PTL DEF ImportSpec

\* A message is in the mailbox once, and once more at most for each record
\* that was lost and each end of the process.
THEOREM ImportedOnce == ImportSpec => []OneCopy
<1>1. ImportInv => OneCopy
  <2> SUFFICES ASSUME ImportInv, NEW m \in Msgs PROVE box[m] <= 1 + breaks BY DEF OneCopy
  <2>1. Recorded(m) + Doubled(m) <= 1 BY DEF ImportInv, WorkType, Recorded, Doubled
  <2>2. Recorded(m) \in Nat /\ Doubled(m) \in Nat BY DEF Recorded, Doubled
  <2> QED BY <2>1, <2>2 DEF ImportInv, Accounted, SavedType
<1> QED BY <1>1, CopiesAccounted, PTL

-----------------------------------------------------------------------------
(* What is completed has brought everything.                               *)

\* There is one task, of the last run.
OneTask ==
  /\ queue \subseteq {runs}
  /\ Running => queue = {} /\ work.run = runs
  /\ ~pendingImport => queue = {} /\ ~Running
  /\ work.at = "requeue" /\ ~pendingImport => work.run = runs
  /\ saved.by <= runs

\* What is said to be uploaded is there to its end, or was removed already.
Entire == disk[staged] \in {Absent, Len(Files[staged[1]])}
Whole == upload = "uploaded" /\ staged # Absent => Entire

\* What a run is to bring is what its source lists, while no upload came.
AskedOK ==
  asked # Absent =>
    /\ asked \subseteq Msgs
    /\ (~Google => staged # Absent) =>
         /\ asked = SeqRange(Listing) \ Unwanted
         /\ ~Google => Entire

\* The runner reads that source.
RunOK ==
  asked # Absent /\ Running /\ work.at # "logout" =>
    /\ ~Google => staged # Absent /\ work.path = staged
    /\ work.at # "connect" => work.list = Listing

\* Everything wanted among the first n of a list is among these messages.
Covered(list, n, msgs) == \A i \in 1..n : i \in DOMAIN list => list[i] \in msgs \union Unwanted

\* It has its record up to the cursor that the run left.
CursorOK ==
  asked # Absent /\ ~strayed /\ saved.by = runs /\ (~Google => staged # Absent) => Covered(Listing, saved.cursor, known)

\* It has its record up to where the runner is.
PlaceOK ==
  asked # Absent /\ ~strayed /\ Running /\ work.at \notin {"connect", "logout"} =>
    Covered(work.list, work.pos, known) /\ work.page <= work.pos

\* Before it says so, it has brought everything.
BroughtOK == work.at = "logout" /\ asked # Absent /\ ~strayed => \A m \in asked : box[m] > 0

\* A record comes after its message; what a page was compared with stays.
Had ==
  /\ \A m \in known : box[m] > 0
  /\ work.at = "record" => box[Message] > 0
  /\ Running => work.seen \subseteq known

CompleteInv ==
  ImportInv /\ OneTask /\ Whole /\ AskedOK /\ RunOK /\ CursorOK /\ PlaceOK /\ BroughtOK /\ Had /\ Complete

-----------------------------------------------------------------------------
\* It holds at first.
LEMMA InitComplete == ImportInit => CompleteInv
<1> SUFFICES ASSUME ImportInit PROVE CompleteInv OBVIOUS
<1>1. ImportInv BY ImportInitInv
<1>2. OneTask BY DEF ImportInit, OneTask, Running, Stages, AtRest, NoRun
<1>3. Whole BY DEF ImportInit, Whole
<1>4. AskedOK /\ RunOK /\ CursorOK /\ PlaceOK /\ BroughtOK /\ Complete
  BY DEF ImportInit, AskedOK, RunOK, CursorOK, PlaceOK, BroughtOK, Complete
<1>5. Had BY DEF ImportInit, Had, Running, Stages, AtRest
<1> QED BY <1>1, <1>2, <1>3, <1>4, <1>5 DEF CompleteInv

\* The source of a run is a sequence of messages.
LEMMA ListingType == ASSUME ImportInv, ~Google => staged # Absent PROVE Listing \in Seq(Msgs)
<1>1. CASE Google BY <1>1, ImportAssumption DEF Listing
<1>2. CASE ~Google
  <2>1. staged \in Paths BY <1>2 DEF ImportInv, FileType
  <2>2. staged[1] \in DOMAIN Files BY <2>1 DEF Paths, Names
  <2> QED BY <1>2, <2>2, ImportAssumption DEF Listing
<1> QED BY <1>1, <1>2

\* What was said of the files and of what is asked stays true of them.
LEMMA FileStays ==
  ASSUME CompleteInv, UNCHANGED <<source, staged, upload, asked>>, disk' \in {disk, Without(disk, staged)}
  PROVE  Whole' /\ AskedOK' /\ Listing' = Listing /\ Google' = Google
<1>1. staged # Absent /\ Entire => Entire' BY DEF CompleteInv, ImportInv, FileType, Entire, Without
<1>2. Listing' = Listing /\ Google' = Google BY DEF Listing, Google
<1>3. SeqRange(Listing)' = SeqRange(Listing) BY <1>2 DEF SeqRange
<1> QED BY <1>1, <1>2, <1>3 DEF CompleteInv, Whole, AskedOK

\* An import that is completed stays so while no copy goes away.
LEMMA CompleteStays ==
  ASSUME CompleteInv, asked' = asked, strayed => strayed', status' = "completed" => status = "completed",
         \A m \in Msgs : box[m] > 0 => box'[m] > 0
  PROVE  Complete'
<1>1. asked # Absent => asked \subseteq Msgs BY DEF CompleteInv, AskedOK
<1>2. Complete BY DEF CompleteInv
<1> QED BY <1>1, <1>2 DEF Complete

\* What has its record keeps it.
LEMMA CoveredStays ==
  ASSUME NEW list, NEW n, Covered(list, n, known), known \subseteq known'
  PROVE  Covered(list, n, known')
BY DEF Covered

\* A cursor that was not moved is as good as it was.
LEMMA CursorStays ==
  ASSUME CompleteInv, UNCHANGED <<source, staged, runs, asked, strayed>>, known \subseteq known',
         saved'.cursor = saved.cursor, saved'.by = saved.by
  PROVE  CursorOK'
<1> SUFFICES ASSUME asked' # Absent, ~strayed', saved'.by = runs', (~Google)' => staged' # Absent
             PROVE  Covered(Listing', saved'.cursor, known')
  BY DEF CursorOK
<1>1. Covered(Listing, saved.cursor, known) BY DEF CompleteInv, CursorOK, Google
<1>2. Listing' = Listing BY DEF Listing, Google
<1> QED BY <1>1, <1>2, CoveredStays

\* Steps that touch neither runner, upload, records nor mailbox.
LEMMA PageStays ==
  ASSUME CompleteInv, ImportInv',
         UNCHANGED <<source, staged, upload, disk, runs, saved, known, queue, pendingImport, work, box, asked, strayed>>,
         status' = "completed" => status = "completed"
  PROVE  CompleteInv'
<1>1. OneTask' BY DEF CompleteInv, OneTask, Running
<1>2. Whole' /\ AskedOK' /\ Listing' = Listing /\ Google' = Google BY FileStays
<1>3. RunOK' BY <1>2 DEF CompleteInv, RunOK, Running
<1>4. CursorOK' BY CursorStays
<1>5. PlaceOK' /\ BroughtOK' BY DEF CompleteInv, PlaceOK, BroughtOK, Running
<1>6. Had' BY DEF CompleteInv, Had, Running, Message
<1>7. Complete' BY CompleteStays
<1> QED BY <1>1, <1>2, <1>3, <1>4, <1>5, <1>6, <1>7 DEF CompleteInv

\* Another upload: nothing is asked for any more.
LEMMA UploadComplete == ASSUME CompleteInv, ImportInv', InitTakeoutUpload \/ UploadTakeoutChunk PROVE CompleteInv'
<1>1. asked' = Absent /\ UNCHANGED <<runs, saved, known, queue, pendingImport, work, box>>
  BY DEF InitTakeoutUpload, UploadTakeoutChunk, tasks
<1>2. AskedOK' /\ RunOK' /\ CursorOK' /\ PlaceOK' /\ BroughtOK' /\ Complete'
  BY <1>1 DEF AskedOK, RunOK, CursorOK, PlaceOK, BroughtOK, Complete
<1>3. OneTask' BY <1>1 DEF CompleteInv, OneTask, Running
<1>4. Had' BY <1>1 DEF CompleteInv, Had, Running, Message
<1>5. Whole'
  <2>1. ASSUME NEW n \in Names, NEW st, Ensures(n, st) PROVE Whole'
    BY <2>1 DEF Ensures, Ensured, SameUpload, Have, Whole, Entire, Part
  <2>2. CASE InitTakeoutUpload BY <2>1, <2>2 DEF InitTakeoutUpload
  <2>3. CASE UploadTakeoutChunk
    <3> DEFINE More(n, offset) == [Ensured(n) EXCEPT ![Part(n)] = offset + 1]
    <3>1. PICK n \in Names : \E offset \in 0..(Len(Files[n]) - 1) :
            \/ \E st : Ensures(n, st)
            \/ upload' = "uploading"
            \/ /\ disk' = [More(n, offset) EXCEPT ![Part(n)] = Absent, ![Final(n)] = offset + 1]
               /\ staged' = Final(n) /\ offset + 1 = Len(Files[n])
      BY <2>3 DEF UploadTakeoutChunk, Appends
    <3>2. CASE \E st : Ensures(n, st) BY <2>1, <3>2
    <3>4. CASE upload' = "uploading" BY <3>4 DEF Whole
    <3>3. CASE \E offset \in 0..(Len(Files[n]) - 1) :
                 /\ disk' = [More(n, offset) EXCEPT ![Part(n)] = Absent, ![Final(n)] = offset + 1]
                 /\ staged' = Final(n) /\ offset + 1 = Len(Files[n])
      <4>1. PICK offset \in 0..(Len(Files[n]) - 1) :
                 /\ disk' = [More(n, offset) EXCEPT ![Part(n)] = Absent, ![Final(n)] = offset + 1]
                 /\ staged' = Final(n) /\ offset + 1 = Len(Files[n])
        BY <3>3
      <4>2. Final(n) \in Paths /\ Final(n)[1] = n BY DEF Final, Paths
      <4>3. DOMAIN Ensured(n) = Paths BY DEF Ensured, Without, CompleteInv, ImportInv, FileType
      <4>4. disk'[Final(n)] = Len(Files[n]) BY <4>1, <4>2, <4>3
      <4> QED BY <4>1, <4>2, <4>4 DEF Whole, Entire
    <3> QED BY <3>1, <3>2, <3>3, <3>4
  <2> QED BY <2>2, <2>3
<1> QED BY <1>1, <1>2, <1>3, <1>4, <1>5 DEF CompleteInv

\* A run is asked for, and the request waits already or is queued.
LEMMA RunComplete == ASSUME CompleteInv, ImportInv', RunRequest PROVE CompleteInv'
<1>1. status' = "queued" /\ UNCHANGED <<source, staged, upload, disk, saved, known, work, box>> /\ Startable
  BY DEF RunRequest, link, file
<1>2. CASE pendingImport
  <2>1. UNCHANGED <<runs, queue, pendingImport, asked, strayed>> BY <1>2 DEF RunRequest, tasks, ghosts
  <2> QED BY <1>1, <2>1, PageStays
<1>3. CASE ~pendingImport
  <2>1. /\ runs' = runs + 1 /\ Enqueue(runs + 1)
        /\ asked' = SeqRange(Listing) \ Unwanted /\ strayed' = FALSE
    BY <1>3, Zenon DEF RunRequest
  <2>2. queue = {} /\ ~Running /\ saved.by <= runs /\ runs \in Nat /\ saved.by \in Nat
    BY <1>3 DEF CompleteInv, OneTask, ImportInv, TaskType, SavedType
  <2>3. ~Running' BY <1>1, <2>2 DEF Running
  <2>4. queue' = {runs'} /\ pendingImport' = TRUE BY <2>1, <2>2 DEF Enqueue
  <2>5. OneTask' BY <1>1, <2>1, <2>2, <2>3, <2>4 DEF OneTask
  <2>6. Whole' BY <1>1 DEF CompleteInv, Whole, Entire
  <2>7. Listing' = Listing /\ Google' = Google BY <1>1 DEF Listing, Google
  <2>8. ~Google => staged # Absent /\ upload = "uploaded" BY <1>1 DEF Startable
  <2>9. SeqRange(Listing) \subseteq Msgs BY <2>8, ListingType DEF SeqRange, CompleteInv
  <2>10. ~Google => Entire /\ Entire' BY <1>1, <2>8 DEF CompleteInv, Whole, Entire
  <2>11. AskedOK' 
    <3>1. asked' \subseteq Msgs BY <2>1, <2>9
    <3>2. SeqRange(Listing)' = SeqRange(Listing) BY <2>7 DEF SeqRange
    <3> QED BY <1>1, <2>1, <2>7, <2>10, <3>1, <3>2 DEF AskedOK
  <2>12. RunOK' /\ PlaceOK' /\ BroughtOK' BY <2>3 DEF RunOK, PlaceOK, BroughtOK, Running, Stages
  <2>13. CursorOK' BY <1>1, <2>1, <2>2 DEF CursorOK
  <2>14. Had' BY <1>1 DEF CompleteInv, Had, Running, Message
  <2>15. Complete' BY <1>1 DEF Complete
  <2> QED BY <2>5, <2>6, <2>11, <2>12, <2>13, <2>14, <2>15 DEF CompleteInv
<1> QED BY <1>2, <1>3

-----------------------------------------------------------------------------
\* The runner stops, and what was staged may go.
LEMMA StopComplete ==
  ASSUME CompleteInv, ImportInv', work' \in Rests, UNCHANGED <<source, runs, known, box, asked, strayed>>,
         (saved'.cursor = saved.cursor /\ saved'.by = saved.by) \/ (saved'.cursor = 0 /\ saved'.by = runs),
         \/ UNCHANGED <<staged, upload>> /\ disk' \in {disk, Without(disk, staged)}
         \/ staged' = Absent /\ ~Google,
         queue' \subseteq {runs},
         ~pendingImport' => queue' = {} /\ (work'.at = "requeue" => work'.run = runs),
         status' = "completed" => status = "completed"
  PROVE  CompleteInv'
<1>1. ~Running' /\ work'.at \notin Stages BY DEF Running, Rests, AtRest, Stages
<1>2. OneTask'
  <2>1. runs \in Nat /\ saved.by <= runs BY DEF CompleteInv, OneTask, ImportInv, TaskType
  <2> QED BY <1>1, <2>1 DEF OneTask
<1>3. RunOK' /\ PlaceOK' /\ BroughtOK' BY <1>1 DEF RunOK, PlaceOK, BroughtOK, Stages
<1>4. Had' BY <1>1 DEF CompleteInv, Had, Stages
<1>5. Complete' BY CompleteStays
<1>6. CASE UNCHANGED <<staged, upload>> /\ disk' \in {disk, Without(disk, staged)}
  <2>1. Whole' /\ AskedOK' BY <1>6, FileStays
  <2>2. CASE saved'.cursor = saved.cursor /\ saved'.by = saved.by
    <3>1. CursorOK' BY <1>6, <2>2, CursorStays
    <3> QED BY <1>2, <1>3, <1>4, <1>5, <2>1, <3>1 DEF CompleteInv
  <2>3. CASE saved'.cursor = 0
    <3>1. CursorOK' BY <2>3 DEF CursorOK, Covered
    <3> QED BY <1>2, <1>3, <1>4, <1>5, <2>1, <3>1 DEF CompleteInv
  <2> QED BY <2>2, <2>3
<1>7. CASE staged' = Absent /\ ~Google
  <2>1. Whole' BY <1>7 DEF Whole
  <2>2. AskedOK' BY <1>7 DEF CompleteInv, AskedOK, Google
  <2>3. CursorOK' BY <1>7 DEF CursorOK, Google
  <2> QED BY <1>2, <1>3, <1>4, <1>5, <2>1, <2>2, <2>3 DEF CompleteInv
<1> QED BY <1>6, <1>7

\* The manager gives up an upload or a task, or the process ends.
LEMMA ManagerComplete ==
  ASSUME CompleteInv, ImportInv', CleanupExpiredUploads \/ DropImport \/ ProcessEnds
  PROVE  CompleteInv'
<1>1. /\ work' = AtRest /\ work' \in Rests /\ work'.at # "requeue"
      /\ UNCHANGED <<source, runs, known, box, asked, strayed, status>>
  BY DEF CleanupExpiredUploads, DropImport, ProcessEnds, link, ghosts, Rests, AtRest
<1>2. \/ UNCHANGED <<staged, upload>> /\ disk' \in {disk, Without(disk, staged)}
      \/ staged' = Absent /\ ~Google
  BY DEF CleanupExpiredUploads, DropImport, ProcessEnds, file
<1>3. queue \subseteq {runs} /\ (pendingImport \/ queue = {}) BY DEF CompleteInv, OneTask
<1>4. queue' \subseteq {runs} /\ (pendingImport' \/ queue' = {})
  BY <1>3 DEF CleanupExpiredUploads, DropImport, ProcessEnds, tasks
<1>5. saved' = saved \/ (work.at = "next" /\ EndCursor) BY DEF CleanupExpiredUploads, DropImport, ProcessEnds
<1>6. (saved'.cursor = saved.cursor /\ saved'.by = saved.by) \/ (saved'.cursor = 0 /\ saved'.by = runs)
  <2>1. CASE work.at = "next" /\ EndCursor
    <3>1. work.run = runs BY <2>1, IdleAt DEF CompleteInv, OneTask, Stages
    <3> QED BY <2>1, <3>1 DEF EndCursor, CompleteInv, ImportInv, SavedType
  <2> QED BY <1>5, <2>1
<1> QED BY <1>1, <1>2, <1>4, <1>6, StopComplete

\* What fails is to be queued again, with the last run.
LEMMA RetryComplete ==
  ASSUME CompleteInv, ImportInv', Retry(runs), UNCHANGED <<source, runs, known, box, asked, strayed>>, queue' = {},
         saved'.cursor = saved.cursor, saved'.by = saved.by,
         UNCHANGED <<staged, upload, disk>> \/ (staged' = Absent /\ ~Google)
  PROVE  CompleteInv'
<1>1. work' \in Rests /\ work'.run = runs /\ status' = "queued"
  BY DEF Retry, Rests, CompleteInv, ImportInv, TaskType
<1> QED BY <1>1, StopComplete

\* It is, unless a start from the page came first.
LEMMA RequeueComplete == ASSUME CompleteInv, ImportInv', Requeue PROVE CompleteInv'
<1>1. /\ work' = AtRest /\ work' \in Rests /\ work'.at # "requeue" /\ work.at = "requeue"
      /\ UNCHANGED <<source, staged, upload, disk, runs, saved, known, box, asked, strayed, status>>
  BY DEF Requeue, link, file, ghosts, Rests, AtRest
<1>2. queue \subseteq {runs} /\ (pendingImport \/ (queue = {} /\ work.run = runs)) BY <1>1 DEF CompleteInv, OneTask
<1>3. (queue' = queue /\ pendingImport') \/ (~pendingImport /\ queue' = queue \union {work.run} /\ pendingImport')
  BY Zenon DEF Requeue, Enqueue, tasks
<1>4. queue' \subseteq {runs} /\ pendingImport' BY <1>2, <1>3
<1> QED BY <1>1, <1>4, StopComplete

\* A run is taken: its file is there, or the upload is to be made again.
LEMMA TakeComplete == ASSUME CompleteInv, ImportInv', TakeImport PROVE CompleteInv'
<1>1. /\ work.at = "idle" /\ Runnable
      /\ UNCHANGED <<source, runs, saved, known, box, asked, strayed>>
  BY DEF TakeImport, AtRest, link, ghosts
<1>2. PICK r \in queue :
        \/ Retry(r) /\ staged' = Absent /\ ~Google /\ queue' = queue \ {r}
        \/ /\ queue' = queue \ {r} /\ work' = Begin(r) /\ status' = "running"
           /\ UNCHANGED <<pendingImport, staged, upload, disk>>
  BY Zenon DEF TakeImport, file
<1>3. r = runs /\ pendingImport /\ queue = {runs} BY <1>2 DEF CompleteInv, OneTask
<1>4. CASE Retry(r) /\ staged' = Absent /\ ~Google /\ queue' = queue \ {r} BY <1>1, <1>3, <1>4, RetryComplete
<1>5. CASE queue' = queue \ {r} /\ work' = Begin(r) /\ status' = "running"
           /\ UNCHANGED <<pendingImport, staged, upload, disk>>
  <2>1. work'.at = "connect" /\ work'.run = runs /\ work'.path = staged /\ work'.seen = {}
    BY <1>3, <1>5 DEF Begin
  <2>2. queue' = {} BY <1>3, <1>5
  <2>3. OneTask' BY <1>1, <1>3, <1>5, <2>1, <2>2 DEF CompleteInv, OneTask
  <2>4. Whole' /\ AskedOK' /\ Google' = Google BY <1>1, <1>5, FileStays
  <2>5. ~Google => staged # Absent BY <1>1 DEF Runnable
  <2>6. RunOK' BY <1>5, <2>1, <2>4, <2>5 DEF RunOK
  <2>7. CursorOK' BY <1>1, <1>5, CursorStays
  <2>8. PlaceOK' /\ BroughtOK' BY <2>1 DEF PlaceOK, BroughtOK
  <2>9. Had' BY <1>1, <2>1 DEF CompleteInv, Had
  <2>10. Complete' BY <1>5 DEF Complete
  <2> QED BY <2>3, <2>4, <2>6, <2>7, <2>8, <2>9, <2>10 DEF CompleteInv
<1> QED BY <1>2, <1>4, <1>5

\* A refusal or a lost record: the cursor is where it was.
LEMMA FailComplete == ASSUME CompleteInv, ImportInv', ImportFails \/ RecordLost PROVE CompleteInv'
<1>1. /\ work.at \in Stages /\ Retry(work.run)
      /\ UNCHANGED <<source, staged, upload, disk, runs, saved, known, queue, box, asked, strayed>>
  BY DEF ImportFails, RecordLost, Stages, link, file, ghosts
<1>2. work.run = runs /\ queue = {} BY <1>1, IdleAt DEF CompleteInv, OneTask
<1> QED BY <1>1, <1>2, RetryComplete

\* The source is opened to its end, at a cursor that this run left.
LEMMA PrepareComplete == ASSUME CompleteInv, ImportInv', PrepareDestination PROVE CompleteInv'
<1>0. ImportInv BY DEF CompleteInv
<1>1. work \in Works /\ Running /\ work.at = "connect" BY <1>0, IdleAt DEF PrepareDestination, Stages
<1>2. work.run = runs /\ queue = {} /\ runs \in Nat /\ saved.cursor \in Nat /\ saved.by \in Nat
  BY <1>0, <1>1 DEF CompleteInv, OneTask, ImportInv, TaskType, SavedType
<1>3. UNCHANGED <<source, staged, upload, disk, runs, queue, known, box, asked>> BY DEF PrepareDestination, link, file
<1>4. CASE Retry(work.run) /\ saved' = [saved EXCEPT !.run = work.run] /\ UNCHANGED strayed
  <2>1. saved'.cursor = saved.cursor /\ saved'.by = saved.by BY <1>4 DEF CompleteInv, ImportInv, SavedType
  <2> QED BY <1>2, <1>3, <1>4, <2>1, RetryComplete
<1>5. ASSUME NEW list, Opened(list), asked # Absent => list = Listing PROVE CompleteInv'
  <2> DEFINE c == Cursor(work.run)
  <2>1. work' = [work EXCEPT !.at = IF Google THEN "list" ELSE "next", !.list = list, !.page = c, !.pos = c]
    BY <1>5 DEF Opened
  <2>2. /\ work'.at \in {"list", "next"} /\ work'.list = list /\ work'.pos = c /\ work'.page = c
        /\ work'.run = work.run /\ work'.path = work.path /\ work'.seen = work.seen
    BY <1>1, <2>1 DEF Works
  <2>3. saved'.cursor = saved.cursor /\ saved'.by = saved.by
    BY <1>5 DEF Opened, CompleteInv, ImportInv, SavedType
  <2>4. UNCHANGED <<status, queue, pendingImport>> BY <1>3, <1>5 DEF Opened
  <2>5. /\ strayed => strayed'
        /\ ~strayed' => c = 0 \/ saved.run # runs \/ saved.by = runs
    BY <1>2, <1>5 DEF Opened
  <2>6. OneTask' BY <1>1, <1>3, <2>2, <2>3, <2>4 DEF CompleteInv, OneTask, AtRest, Running
  <2>7. Whole' /\ AskedOK' /\ Listing' = Listing /\ Google' = Google BY <1>3, FileStays
  <2>8. RunOK' BY <1>1, <1>3, <1>5, <2>2, <2>7 DEF CompleteInv, RunOK
  <2>9. CursorOK'
    <3> SUFFICES ASSUME asked' # Absent, ~strayed', saved'.by = runs', (~Google)' => staged' # Absent
                 PROVE  Covered(Listing', saved'.cursor, known')
      BY DEF CursorOK
    <3>1. Covered(Listing, saved.cursor, known) BY <1>3, <2>3, <2>5, <2>7 DEF CompleteInv, CursorOK
    <3> QED BY <1>3, <2>3, <2>7, <3>1
  <2>10. PlaceOK'
    <3> SUFFICES ASSUME asked # Absent, ~strayed' PROVE Covered(list, c, known') /\ c <= c
      BY <1>3, <2>2 DEF PlaceOK
    <3>1. c \in Nat BY <1>2 DEF Cursor
    <3>2. CASE c = 0 BY <3>2 DEF Covered
    <3>3. CASE c # 0
      <4>1. saved.run = runs /\ c = saved.cursor BY <1>2, <3>3 DEF Cursor
      <4>2. saved.by = runs /\ ~strayed BY <2>5, <3>3, <4>1
      <4>3. ~Google => staged # Absent BY <1>1 DEF CompleteInv, RunOK
      <4>4. Covered(Listing, saved.cursor, known) BY <4>2, <4>3 DEF CompleteInv, CursorOK
      <4> QED BY <1>3, <1>5, <3>1, <4>1, <4>4
    <3> QED BY <3>1, <3>2, <3>3
  <2>11. Had' /\ BroughtOK' BY <1>1, <1>3, <2>2 DEF CompleteInv, Had, BroughtOK
  <2>12. Complete' BY <1>3, <2>4, <2>5, CompleteStays
  <2> QED BY <2>6, <2>7, <2>8, <2>9, <2>10, <2>11, <2>12 DEF CompleteInv
<1>6. CASE Google
  <2>1. Opened(Mailbox) BY <1>6 DEF PrepareDestination
  <2> QED BY <1>5, <1>6, <2>1 DEF Listing
<1>7. CASE ~Google /\ disk[work.path] # Absent
  <2> DEFINE s == Files[work.path[1]]
  <2>1. Opened(SubSeq(s, 1, disk[work.path])) BY <1>7 DEF PrepareDestination
  <2>2. ASSUME asked # Absent PROVE SubSeq(s, 1, disk[work.path]) = Listing
    <3>1. staged # Absent /\ work.path = staged BY <1>1, <1>7, <2>2 DEF CompleteInv, RunOK
    <3>2. disk[work.path] = Len(s) BY <1>7, <2>2, <3>1 DEF CompleteInv, AskedOK, Entire
    <3>3. Listing = s BY <1>7, <3>1 DEF Listing
    <3>4. s \in Seq(Msgs) BY <1>0, <3>1, <3>3, ListingType
    <3> QED BY <3>2, <3>3, <3>4
  <2> QED BY <1>5, <2>1, <2>2
<1>8. CASE ~Google /\ disk[work.path] = Absent BY <1>4, <1>8 DEF PrepareDestination
<1> QED BY <1>6, <1>7, <1>8

-----------------------------------------------------------------------------
\* The runner goes on in its list; a cursor it writes is not ahead of it.
LEMMA GoComplete ==
  ASSUME CompleteInv, ImportInv', work.at \in Stages \ {"connect", "logout"}, work'.at \in Stages \ {"logout"},
         work'.list = work.list, work'.run = work.run, work'.path = work.path,
         UNCHANGED <<source, staged, upload, disk, runs, queue, pendingImport, status, asked, strayed>>,
         known \subseteq known', \A m \in Msgs : box[m] > 0 => box'[m] > 0,
         asked # Absent /\ ~strayed => Covered(work.list, work'.pos, known') /\ work'.page <= work'.pos,
         \/ saved'.cursor = saved.cursor /\ saved'.by = saved.by
         \/ /\ saved'.cursor \in Nat /\ saved'.by = work.run
            /\ (asked # Absent /\ ~strayed => saved'.cursor <= work'.pos),
         Had'
  PROVE  CompleteInv'
<1>1. Running /\ Running' /\ work' \in Works /\ work.run = runs
  <2>1. Running /\ Running' BY DEF Running
  <2>2. work' \in Works BY <2>1 DEF ImportInv, WorkType, Rests, AtRest, Running, Stages
  <2>3. work.run = runs BY <2>1 DEF CompleteInv, OneTask
  <2> QED BY <2>1, <2>2, <2>3
<1>2. saved'.by <= runs
  <2>1. saved.by <= runs /\ runs \in Nat BY DEF CompleteInv, OneTask, ImportInv, TaskType
  <2> QED BY <1>1, <2>1
<1>3. OneTask' BY <1>1, <1>2 DEF CompleteInv, OneTask
<1>4. Whole' /\ AskedOK' /\ Listing' = Listing /\ Google' = Google BY FileStays
<1>5. RunOK' BY <1>1, <1>4 DEF CompleteInv, RunOK
<1>6. PlaceOK' /\ BroughtOK' BY DEF PlaceOK, BroughtOK
<1>7. CursorOK'
  <2>1. CASE saved'.cursor = saved.cursor /\ saved'.by = saved.by BY <2>1, CursorStays
  <2>2. CASE /\ saved'.cursor \in Nat
             /\ asked # Absent /\ ~strayed => saved'.cursor <= work'.pos
    <3> SUFFICES ASSUME asked # Absent, ~strayed PROVE Covered(Listing', saved'.cursor, known') BY DEF CursorOK
    <3>1. work.list = Listing BY <1>1 DEF CompleteInv, RunOK, Stages
    <3>2. Covered(work.list, work'.pos, known') OBVIOUS
    <3>3. work'.pos \in Nat /\ saved'.cursor <= work'.pos BY <1>1, <2>2 DEF Works
    <3> QED BY <1>4, <2>2, <3>1, <3>2, <3>3 DEF Covered
  <2> QED BY <2>1, <2>2
<1>8. Complete' BY CompleteStays
<1> QED BY <1>3, <1>4, <1>5, <1>6, <1>7, <1>8 DEF CompleteInv

\* One place further, past a message that has its record or is not wanted.
LEMMA CoverOne ==
  ASSUME NEW list, NEW n \in Nat, Covered(list, n, known), known \subseteq known',
         list[n + 1] \in known' \union Unwanted
  PROVE  Covered(list, n + 1, known')
<1> SUFFICES ASSUME NEW i \in 1..(n + 1), i \in DOMAIN list PROVE list[i] \in known' \union Unwanted BY DEF Covered
<1>1. CASE i = n + 1 BY <1>1
<1>2. CASE i # n + 1
  <2>1. i \in 1..n BY <1>2
  <2> QED BY <2>1 DEF Covered
<1> QED BY <1>1, <1>2

\* A page is listed, or is done with.
LEMMA ListComplete == ASSUME CompleteInv, ImportInv', ListPage \/ NextPage PROVE CompleteInv'
<1>1. /\ work \in Works /\ Running /\ work.at \in {"list", "next"}
      /\ UNCHANGED <<source, staged, upload, disk, runs, queue, pendingImport, known, status, asked, strayed, box>>
  BY IdleAt DEF ListPage, NextPage, Stages, CompleteInv, link, file, tasks, ghosts
<1>2. asked # Absent /\ ~strayed => Covered(work.list, work.pos, known) /\ work.page <= work.pos
  BY <1>1 DEF CompleteInv, PlaceOK
<1>3. CASE ListPage
  <2>1. work' = [work EXCEPT !.at = "next", !.seen = known] /\ saved' = saved BY <1>3 DEF ListPage
  <2>2. /\ work'.at = "next" /\ work'.list = work.list /\ work'.path = work.path /\ work'.run = work.run
        /\ work'.pos = work.pos /\ work'.page = work.page /\ work'.seen = known
    BY <1>1, <2>1 DEF Works
  <2>3. Had' BY <1>1, <2>2 DEF CompleteInv, Had
  <2> QED BY <1>1, <1>2, <2>1, <2>2, <2>3, GoComplete DEF Stages
<1>4. CASE NextPage
  <2>1. /\ work' = [work EXCEPT !.at = "list", !.page = work.pos]
        /\ saved' = [saved EXCEPT !.cursor = work.pos, !.by = work.run]
    BY <1>4 DEF NextPage
  <2>2. /\ work'.at = "list" /\ work'.list = work.list /\ work'.path = work.path /\ work'.run = work.run
        /\ work'.pos = work.pos /\ work'.page = work.pos /\ work'.seen = work.seen /\ work.pos \in Nat
    BY <1>1, <2>1 DEF Works
  <2>3. saved'.cursor = work.pos /\ saved'.by = work.run BY <2>1 DEF CompleteInv, ImportInv, SavedType
  <2>4. Had' BY <1>1, <2>2 DEF CompleteInv, Had
  <2>5. asked # Absent /\ ~strayed => Covered(work.list, work'.pos, known') /\ work'.page <= work'.pos
    BY <1>1, <1>2, <2>2
  <2>6. saved'.cursor \in Nat /\ saved'.cursor <= work'.pos BY <2>2, <2>3
  <2> QED BY <1>1, <2>2, <2>3, <2>4, <2>5, <2>6, GoComplete DEF Stages
<1> QED BY <1>3, <1>4

\* The checkpoint that is written beside a message is not ahead of it.
LEMMA PersistBehind ==
  ASSUME CompleteInv, work \in Works, NEW pos \in Nat, Persist(pos),
         asked # Absent /\ ~strayed => work.page <= pos
  PROVE  /\ saved'.cursor \in Nat /\ saved'.by = work.run
         /\ asked # Absent /\ ~strayed => saved'.cursor <= pos
<1> DEFINE c == IF Google THEN work.page ELSE pos
<1>1. saved' = [saved EXCEPT !.cursor = c, !.by = work.run] BY DEF Persist
<1>2. c \in Nat /\ (asked # Absent /\ ~strayed => c <= pos) BY DEF Works
<1> HIDE DEF c
<1>3. saved'.cursor = c /\ saved'.by = work.run BY <1>1 DEF CompleteInv, ImportInv, SavedType
<1> QED BY <1>2, <1>3

\* A message is passed over, read, appended or recorded.
LEMMA MessageComplete ==
  ASSUME CompleteInv, ImportInv', SkipMessage \/ ReadMessage \/ AppendMessage \/ RecordMessage
  PROVE  CompleteInv'
<1>1. /\ work \in Works /\ Running /\ work.at \in {"next", "append", "record"}
      /\ UNCHANGED <<source, staged, upload, disk, runs, queue, pendingImport, status, asked, strayed>>
  BY IdleAt DEF SkipMessage, ReadMessage, AppendMessage, RecordMessage, Stages, CompleteInv, link, file, tasks, ghosts
<1>2. asked # Absent /\ ~strayed => Covered(work.list, work.pos, known) /\ work.page <= work.pos
  BY <1>1 DEF CompleteInv, PlaceOK
<1>3. /\ work.pos \in Nat /\ work.pos + 1 \in Nat /\ work.page \in Nat
      /\ asked # Absent /\ ~strayed => work.page <= work.pos + 1
  BY <1>1, <1>2 DEF Works
<1>4. CASE SkipMessage
  <2>1. work' = [work EXCEPT !.pos = @ + 1] /\ UNCHANGED <<known, box>> BY <1>4 DEF SkipMessage
  <2>2. /\ work'.at = "next" /\ work'.list = work.list /\ work'.path = work.path /\ work'.run = work.run
        /\ work'.pos = work.pos + 1 /\ work'.page = work.page /\ work'.seen = work.seen
    BY <1>1, <1>4, <2>1 DEF Works, SkipMessage
  <2>3. saved' = saved \/ Persist(work.pos + 1) BY <1>4, Zenon DEF SkipMessage
  <2>4. Had' BY <1>1, <2>1, <2>2 DEF CompleteInv, Had
  <2>5. Message \in known' \union Unwanted
    <3>1. Imported(Message) \/ Message \in Unwanted BY <1>4 DEF SkipMessage
    <3> QED BY <1>1, <2>1, <3>1 DEF Imported, CompleteInv, Had
  <2>6. asked # Absent /\ ~strayed => Covered(work.list, work'.pos, known') /\ work'.page <= work'.pos
    BY <1>2, <1>3, <2>1, <2>2, <2>5, CoverOne DEF Message
  <2>7. \/ saved'.cursor = saved.cursor /\ saved'.by = saved.by
        \/ /\ saved'.cursor \in Nat /\ saved'.by = work.run
           /\ asked # Absent /\ ~strayed => saved'.cursor <= work'.pos
    BY <1>1, <1>3, <2>2, <2>3, PersistBehind
  <2> QED BY <1>1, <2>1, <2>2, <2>4, <2>6, <2>7, GoComplete DEF Stages
<1>5. CASE ReadMessage
  <2>1. work' = [work EXCEPT !.at = "append"] /\ UNCHANGED <<known, box, saved>> BY <1>5 DEF ReadMessage
  <2>2. /\ work'.at = "append" /\ work'.list = work.list /\ work'.path = work.path /\ work'.run = work.run
        /\ work'.pos = work.pos /\ work'.page = work.page /\ work'.seen = work.seen
    BY <1>1, <2>1 DEF Works
  <2>3. Had' BY <1>1, <2>1, <2>2 DEF CompleteInv, Had
  <2> QED BY <1>1, <1>2, <2>1, <2>2, <2>3, GoComplete DEF Stages
<1>6. CASE AppendMessage
  <2>1. /\ work.at = "append" /\ work' = [work EXCEPT !.at = "record"] /\ UNCHANGED <<known, saved>>
        /\ box' = [box EXCEPT ![Message] = @ + 1]
    BY <1>6 DEF AppendMessage
  <2>2. /\ work'.at = "record" /\ work'.list = work.list /\ work'.path = work.path /\ work'.run = work.run
        /\ work'.pos = work.pos /\ work'.page = work.page /\ work'.seen = work.seen
    BY <1>1, <2>1 DEF Works
  <2>3. Message \in Msgs BY <1>1, <2>1 DEF CompleteInv, ImportInv, WorkType, Left, Message, Works
  <2>4. \A m \in Msgs : box'[m] >= box[m] /\ box[m] \in Nat BY <2>1, <2>3 DEF CompleteInv, ImportInv, SavedType
  <2>5. \A m \in Msgs : box[m] > 0 => box'[m] > 0
    <3> SUFFICES ASSUME NEW m \in Msgs, box[m] > 0 PROVE box'[m] > 0 OBVIOUS
    <3>1. box'[m] \in Nat BY <2>1, <2>3 DEF CompleteInv, ImportInv, SavedType
    <3> QED BY <2>4, <3>1
  <2>6. box'[Message] > 0
    <3>1. box'[Message] = box[Message] + 1 /\ box[Message] \in Nat BY <2>1, <2>3 DEF CompleteInv, ImportInv, SavedType
    <3> QED BY <3>1
  <2>7. Message' = Message BY <2>2 DEF Message
  <2>8. known \subseteq Msgs BY DEF CompleteInv, ImportInv, SavedType
  <2>9. Had' BY <1>1, <2>1, <2>2, <2>5, <2>6, <2>7, <2>8 DEF CompleteInv, Had
  <2> QED BY <1>1, <1>2, <2>1, <2>2, <2>5, <2>9, GoComplete DEF Stages
<1>7. CASE RecordMessage
  <2>1. /\ work.at = "record" /\ work' = [work EXCEPT !.at = "next", !.pos = @ + 1]
        /\ known' = known \union {Message} /\ Persist(work.pos + 1) /\ box' = box
    BY <1>7 DEF RecordMessage
  <2>2. /\ work'.at = "next" /\ work'.list = work.list /\ work'.path = work.path /\ work'.run = work.run
        /\ work'.pos = work.pos + 1 /\ work'.page = work.page /\ work'.seen = work.seen
    BY <1>1, <2>1 DEF Works
  <2>3. Had' BY <1>1, <2>1, <2>2 DEF CompleteInv, Had
  <2>4. asked # Absent /\ ~strayed => Covered(work.list, work'.pos, known') /\ work'.page <= work'.pos
    BY <1>2, <1>3, <2>1, <2>2, CoverOne DEF Message
  <2>5. /\ saved'.cursor \in Nat /\ saved'.by = work.run
        /\ asked # Absent /\ ~strayed => saved'.cursor <= work'.pos
    BY <1>1, <1>3, <2>1, <2>2, PersistBehind
  <2>6. known \subseteq known' BY <2>1
  <2> QED BY <1>1, <2>1, <2>2, <2>3, <2>4, <2>5, <2>6, GoComplete DEF Stages
<1> QED BY <1>4, <1>5, <1>6, <1>7

\* The list is at its end: everything asked for has a record, and so a copy.
LEMMA CloseComplete == ASSUME CompleteInv, ImportInv', CloseImport PROVE CompleteInv'
<1>0. ImportInv BY DEF CompleteInv
<1>1. work \in Works /\ Running /\ work.at = "next" BY <1>0, IdleAt DEF CloseImport, Stages
<1>2. /\ work' = [work EXCEPT !.at = "logout"] /\ ~Left /\ EndCursor
      /\ UNCHANGED <<source, runs, known, box, asked, strayed, status, queue, pendingImport>>
  BY DEF CloseImport, link, tasks, ghosts
<1>3. work'.at = "logout" /\ work'.run = work.run /\ work'.seen = work.seen BY <1>1, <1>2 DEF Works
<1>4. saved'.cursor = 0 /\ saved'.by = work.run BY <1>2 DEF EndCursor, CompleteInv, ImportInv, SavedType
<1>5. OneTask'
  <2>1. queue = {} /\ work.run = runs /\ runs \in Nat /\ pendingImport
    BY <1>1 DEF CompleteInv, OneTask, ImportInv, TaskType
  <2> QED BY <1>2, <1>3, <1>4, <2>1 DEF OneTask
<1>6. RunOK' /\ PlaceOK' BY <1>3 DEF RunOK, PlaceOK
<1>7. CursorOK' BY <1>4 DEF CursorOK, Covered
<1>8. Had' BY <1>1, <1>2, <1>3 DEF CompleteInv, Had
<1>9. Whole' /\ AskedOK'
  <2>1. CASE Google
    <3>1. UNCHANGED <<staged, upload, disk>> BY <2>1 DEF CloseImport, file
    <3> QED BY <1>2, <3>1, FileStays
  <2>2. CASE ~Google
    <3>1. staged' = Absent BY <2>2 DEF CloseImport
    <3> QED BY <1>2, <2>2, <3>1 DEF CompleteInv, Whole, AskedOK, Google
  <2> QED BY <2>1, <2>2
<1>10. BroughtOK'
  <2> SUFFICES ASSUME ~strayed, asked # Absent, NEW m \in asked PROVE box[m] > 0 BY <1>2 DEF BroughtOK
  <2>1. Covered(work.list, work.pos, known) /\ work.list = Listing /\ (~Google => staged # Absent)
    BY <1>1 DEF CompleteInv, PlaceOK, RunOK
  <2>2. asked = SeqRange(Listing) \ Unwanted BY <2>1 DEF CompleteInv, AskedOK
  <2>3. PICK i \in DOMAIN work.list : m = work.list[i] BY <2>1, <2>2 DEF SeqRange
  <2>4. i \in 1..work.pos BY <1>1, <1>2, <2>3 DEF Left, Works
  <2>5. m \in known BY <2>1, <2>2, <2>3, <2>4 DEF Covered
  <2> QED BY <2>5 DEF CompleteInv, Had
<1>11. Complete' BY <1>2, CompleteStays
<1> QED BY <1>5, <1>6, <1>7, <1>8, <1>9, <1>10, <1>11 DEF CompleteInv

\* The import says that it is completed.
LEMMA DoneComplete == ASSUME CompleteInv, ImportInv', CompleteImport PROVE CompleteInv'
<1>1. /\ work.at = "logout" /\ work' = AtRest /\ work'.at = "idle" /\ pendingImport' = FALSE
      /\ UNCHANGED <<source, staged, upload, disk, runs, saved, known, queue, box, asked, strayed>>
  BY DEF CompleteImport, AtRest, link, file, ghosts
<1>2. Running /\ ~Running' BY <1>1 DEF Running, Stages
<1>3. OneTask' BY <1>1, <1>2 DEF CompleteInv, OneTask
<1>4. Whole' /\ AskedOK' BY <1>1, FileStays
<1>5. RunOK' /\ PlaceOK' /\ BroughtOK' BY <1>1, <1>2 DEF RunOK, PlaceOK, BroughtOK
<1>6. CursorOK' BY <1>1, CursorStays
<1>7. Had' BY <1>1, <1>2 DEF CompleteInv, Had
<1>8. Complete' BY <1>1 DEF Complete, CompleteInv, BroughtOK
<1> QED BY <1>3, <1>4, <1>5, <1>6, <1>7, <1>8 DEF CompleteInv

\* Every step keeps it.
LEMMA StepComplete == CompleteInv /\ [ImportNext]_importVars => CompleteInv'
<1> SUFFICES ASSUME CompleteInv, [ImportNext]_importVars PROVE CompleteInv' OBVIOUS
<1>1. ImportInv' BY ImportStepInv DEF CompleteInv
<1>2. CASE LinkExpires \/ Expires \/ GoogleCallback \/ ToggleImportRequest \/ UNCHANGED importVars
  <2>1. UNCHANGED <<source, staged, upload, disk, runs, saved, known, queue, pendingImport, work, box, asked, strayed>>
    BY <1>2 DEF LinkExpires, Expires, GoogleCallback, ToggleImportRequest, importVars, link, file, tasks, ghosts
  <2>2. status' = "completed" => status = "completed"
    BY <1>2 DEF LinkExpires, Expires, GoogleCallback, ToggleImportRequest, importVars
  <2> QED BY <1>1, <2>1, <2>2, PageStays
<1>3. CASE RunRequest BY <1>1, <1>3, RunComplete
<1>4. CASE InitTakeoutUpload \/ UploadTakeoutChunk BY <1>1, <1>4, UploadComplete
<1>5. CASE CleanupExpiredUploads \/ DropImport \/ ProcessEnds BY <1>1, <1>5, ManagerComplete
<1>6. CASE TakeImport BY <1>1, <1>6, TakeComplete
<1>7. CASE ImportFails \/ RecordLost BY <1>1, <1>7, FailComplete
<1>8. CASE PrepareDestination BY <1>1, <1>8, PrepareComplete
<1>9. CASE ListPage \/ NextPage BY <1>1, <1>9, ListComplete
<1>10. CASE SkipMessage \/ ReadMessage \/ AppendMessage \/ RecordMessage BY <1>1, <1>10, MessageComplete
<1>11. CASE CloseImport BY <1>1, <1>11, CloseComplete
<1>12. CASE CompleteImport BY <1>1, <1>12, DoneComplete
<1>13. CASE Requeue BY <1>1, <1>13, RequeueComplete
<1> QED BY <1>2, <1>3, <1>4, <1>5, <1>6, <1>7, <1>8, <1>9, <1>10, <1>11, <1>12, <1>13
   DEF ImportNext, Page, Manager

\* An import that says it is completed has brought every message it was to
\* bring, however often it was refused, interrupted and resumed, unless an
\* upload came in its way or it went on from another run's cursor.
THEOREM CompletedHasAll == ImportSpec => []Complete
<1>1. CompleteInv => Complete BY DEF CompleteInv
<1> QED BY <1>1, InitComplete, StepComplete, PTL DEF ImportSpec

=============================================================================
