---------------------------- MODULE MailSyncProof ----------------------------
(***************************************************************************)
(* Theorems about the queue of syncs (SyncQueue, app/workers/manager.py),  *)
(* for any accounts, folders, threads and retry schedule, and about the    *)
(* sync of one folder that it runs (FolderSync, imap_sync.py), for any     *)
(* number of uids and epochs, any flags and sizes of page, chunk and cache.*)
(*                                                                         *)
(* SyncQueue: TypeOK, OneTaskPerKey and PendingExact are inductive only    *)
(* together: that a claim cannot meet a second task of its key follows     *)
(* from PendingExact, and that releasing a key leaves no task of it behind *)
(* follows from OneTaskPerKey.                                             *)
(*                                                                         *)
(* FolderSync: EpochInv says what a sync knows at each stage of the epochs *)
(* of the stored state and of the rows; GapInv adds that a sync has in     *)
(* hand, or cached already, whatever arrived between the stored uidnext    *)
(* and the one it will store. The code takes a refused command for an      *)
(* empty answer, so what these say holds only while certain commands are   *)
(* not refused: each theorem names them. That a folder has one sync at a   *)
(* time, which FolderSync supposes, is NoDuplicateTask of the queue.       *)
(***************************************************************************)
EXTENDS SyncQueue, FolderSync, FiniteSetTheorems, TLAPS

IInv == TypeOK /\ OneTaskPerKey /\ PendingExact

-----------------------------------------------------------------------------
(* Sequences of tasks *)

KeysIn(s) == {KeyOf(s[i]) : i \in 1..Len(s)}
DistinctIn(s) == \A i, j \in 1..Len(s) : KeyOf(s[i]) = KeyOf(s[j]) => i = j

\* _sync_key of a task is a key of the queue.
LEMMA KeyType == ASSUME NEW task \in Task PROVE KeyOf(task) \in Keys
BY QueueAssumption DEF KeyOf, Keys, Task

\* Appending a task adds its key.
LEMMA AppendKeys ==
  ASSUME NEW s \in Seq(Task), NEW x \in Task
  PROVE  KeysIn(Append(s, x)) = KeysIn(s) \union {KeyOf(x)}
<1> DEFINE r == Append(s, x)
<1>1. /\ Len(r) = Len(s) + 1
      /\ \A i \in 1..Len(s) : r[i] = s[i]
      /\ r[Len(s) + 1] = x
  OBVIOUS
<1>2. Len(s) \in Nat
  OBVIOUS
<1>3. 1..Len(r) = 1..Len(s) \union {Len(s) + 1}
  BY <1>1, <1>2
<1> HIDE DEF r
<1>4. KeysIn(r) = KeysIn(s) \union {KeyOf(x)}
  BY <1>1, <1>3 DEF KeysIn
<1> QED BY <1>4 DEF r

\* Appending a task of a new key keeps the keys distinct.
LEMMA AppendDistinct ==
  ASSUME NEW s \in Seq(Task), NEW x \in Task, DistinctIn(s), KeyOf(x) \notin KeysIn(s)
  PROVE  DistinctIn(Append(s, x))
<1> DEFINE r == Append(s, x)
<1>1. /\ Len(r) = Len(s) + 1
      /\ \A i \in 1..Len(s) : r[i] = s[i]
      /\ r[Len(s) + 1] = x
  OBVIOUS
<1>2. Len(s) \in Nat
  OBVIOUS
<1>3. 1..Len(r) = 1..Len(s) \union {Len(s) + 1}
  BY <1>1, <1>2
<1> HIDE DEF r
<1>4. DistinctIn(r)
  BY <1>1, <1>3 DEF KeysIn, DistinctIn
<1> QED BY <1>4 DEF r

\* Taking the head of a queue of distinct keys removes its key, and only that.
LEMMA TailKeys ==
  ASSUME NEW s \in Seq(Task), s # <<>>, DistinctIn(s)
  PROVE  /\ Head(s) \in Task
         /\ Tail(s) \in Seq(Task)
         /\ DistinctIn(Tail(s))
         /\ KeysIn(Tail(s)) = KeysIn(s) \ {KeyOf(Head(s))}
         /\ KeyOf(Head(s)) \in KeysIn(s)
<1> DEFINE r == Tail(s)
<1>1. /\ Head(s) \in Task
      /\ r \in Seq(Task)
      /\ Head(s) = s[1]
      /\ Len(s) \in Nat \ {0}
      /\ Len(r) = Len(s) - 1
      /\ \A i \in 1..Len(r) : r[i] = s[i + 1]
  OBVIOUS
<1> HIDE DEF r
<1>2. DistinctIn(r)
  <2> SUFFICES ASSUME NEW i \in 1..Len(r), NEW j \in 1..Len(r), KeyOf(r[i]) = KeyOf(r[j])
               PROVE  i = j
    BY DEF DistinctIn
  <2>1. /\ i + 1 \in 1..Len(s)
        /\ j + 1 \in 1..Len(s)
    BY <1>1
  <2>2. KeyOf(s[i + 1]) = KeyOf(s[j + 1])
    BY <1>1
  <2>3. i + 1 = j + 1
    BY <2>1, <2>2 DEF DistinctIn
  <2> QED BY <2>3, <1>1
<1>3. KeysIn(r) \subseteq KeysIn(s) \ {KeyOf(Head(s))}
  <2> SUFFICES ASSUME NEW i \in 1..Len(r)
               PROVE  KeyOf(r[i]) \in KeysIn(s) \ {KeyOf(Head(s))}
    BY DEF KeysIn
  <2>1. i + 1 \in 1..Len(s) /\ 1 \in 1..Len(s) /\ i + 1 # 1
    BY <1>1
  <2>2. KeyOf(s[i + 1]) # KeyOf(s[1])
    BY <2>1 DEF DistinctIn
  <2> QED BY <1>1, <2>1, <2>2 DEF KeysIn
<1>4. KeysIn(s) \ {KeyOf(Head(s))} \subseteq KeysIn(r)
  <2> SUFFICES ASSUME NEW i \in 1..Len(s), KeyOf(s[i]) # KeyOf(Head(s))
               PROVE  KeyOf(s[i]) \in KeysIn(r)
    BY DEF KeysIn
  <2>1. i # 1
    BY <1>1
  <2>2. i - 1 \in 1..Len(r) /\ (i - 1) + 1 = i
    BY <1>1, <2>1
  <2>3. r[i - 1] = s[i]
    BY <1>1, <2>2
  <2> QED BY <2>2, <2>3 DEF KeysIn
<1>5. KeyOf(Head(s)) \in KeysIn(s)
  BY <1>1 DEF KeysIn
<1> QED BY <1>1, <1>2, <1>3, <1>4, <1>5 DEF r

-----------------------------------------------------------------------------
(* The places a task can be in *)

\* OneTaskPerKey and the places of PendingExact, in the words of the lemmas.
LEMMA Places ==
  /\ InDue = KeysIn(due)
  /\ Distinct <=> /\ \A s, t \in Threads :
                       putting[s] # NoTask /\ putting[t] # NoTask
                         /\ KeyOf(putting[s]) = KeyOf(putting[t]) => s = t
                  /\ DistinctIn(due)
                  /\ \A x, y \in later : KeyOf(x) = KeyOf(y) => x = y
BY DEF InDue, KeysIn, Distinct, DistinctIn

\* A thread that claims a key not pending moves it to BeingPut and to pending,
\* and disturbs no other place.
LEMMA ClaimKeeps ==
  ASSUME IInv, NEW t \in Threads, NEW task \in Task, Claim(t, task),
         due' = due, later' = later, Busy' = Busy
  PROVE  /\ pending' \subseteq Keys
         /\ putting' \in [Threads -> Task \union {NoTask}]
         /\ OneTaskPerKey'
         /\ PendingExact'
<1> USE DEF IInv, TypeOK
<1>1. KeyOf(task) \in Keys /\ task # NoTask
  BY KeyType, NoTaskAssumption
<1>2. putting'[t] = task /\ \A s \in Threads \ {t} : putting'[s] = putting[s]
  BY DEF Claim
<1>3. BeingPut' = BeingPut \union {KeyOf(task)}
  BY <1>1, <1>2 DEF Claim, BeingPut
<1>4. InDue' = InDue /\ InLater' = InLater
  BY DEF InDue, InLater
<1>5. KeyOf(task) \notin BeingPut \union InDue \union InLater \union Busy
  BY DEF Claim, PendingExact
<1>6. Distinct'
  <2>1. \A s \in Threads \ {t} : putting[s] # NoTask => KeyOf(putting[s]) # KeyOf(task)
    BY <1>5 DEF BeingPut
  <2>2. \A r, s \in Threads :
          putting'[r] # NoTask /\ putting'[s] # NoTask
            /\ KeyOf(putting'[r]) = KeyOf(putting'[s]) => r = s
    BY <1>2, <2>1 DEF OneTaskPerKey, Distinct
  <2> QED BY <2>2 DEF OneTaskPerKey, Distinct
<1>7. Apart'
  BY <1>3, <1>4, <1>5 DEF OneTaskPerKey, Apart
<1>8. PendingExact'
  BY <1>3, <1>4 DEF PendingExact, Claim
<1>9. pending' \subseteq Keys /\ putting' \in [Threads -> Task \union {NoTask}]
  BY <1>1 DEF Claim
<1> QED BY <1>6, <1>7, <1>8, <1>9 DEF OneTaskPerKey

\* A thread that puts its task moves the key from BeingPut to the queue.
LEMMA PutKeeps ==
  ASSUME IInv, NEW t \in Threads, Put(t)
  PROVE  IInv'
<1> USE DEF IInv, TypeOK
<1> DEFINE task == putting[t]
<1>1. task \in Task
  BY DEF Put
<1>2. putting'[t] = NoTask /\ \A s \in Threads \ {t} : putting'[s] = putting[s]
  BY DEF Put
<1>3. BeingPut' = BeingPut \ {KeyOf(task)}
  <2>1. \A s \in Threads \ {t} : putting[s] # NoTask => KeyOf(putting[s]) # KeyOf(task)
    BY DEF OneTaskPerKey, Distinct, Put
  <2> QED BY <1>2, <2>1 DEF BeingPut
<1>4. KeyOf(task) \in BeingPut
  BY DEF BeingPut, Put
<1>5. Busy' = Busy /\ pending' = pending
  BY DEF Put, Busy, loopVars
<1>6. \A r, s \in Threads :
        putting'[r] # NoTask /\ putting'[s] # NoTask
          /\ KeyOf(putting'[r]) = KeyOf(putting'[s]) => r = s
  BY <1>2 DEF OneTaskPerKey, Distinct
<1>7. CASE task.reason = "retry"
  <2>1. later' = later \union {task} /\ due' = due
    BY <1>7 DEF Put
  <2>2. InLater' = InLater \union {KeyOf(task)} /\ InDue' = InDue
    BY <2>1 DEF InLater, InDue
  <2>3. KeyOf(task) \notin InLater
    BY <1>4 DEF OneTaskPerKey, Apart
  <2>4. \A x, y \in later' : KeyOf(x) = KeyOf(y) => x = y
    BY <2>1, <2>3 DEF OneTaskPerKey, Distinct, InLater
  <2>5. Distinct'
    BY <1>6, <2>1, <2>4 DEF OneTaskPerKey, Distinct
  <2>6. Apart'
    BY <1>3, <1>4, <1>5, <2>2 DEF OneTaskPerKey, Apart
  <2>7. PendingExact'
    BY <1>3, <1>4, <1>5, <2>2 DEF PendingExact
  <2>8. TypeOK'
    BY <1>1, <2>1 DEF Put, loopVars
  <2> QED BY <2>5, <2>6, <2>7, <2>8 DEF OneTaskPerKey
<1>8. CASE task.reason # "retry"
  <2>1. due' = Append(due, task) /\ later' = later
    BY <1>8 DEF Put
  <2>2. KeyOf(task) \notin InDue
    BY <1>4 DEF OneTaskPerKey, Apart
  <2>3. InDue' = InDue \union {KeyOf(task)} /\ InLater' = InLater
    BY <1>1, <2>1, AppendKeys DEF InDue, KeysIn, InLater
  <2>4. DistinctIn(due')
    BY <1>1, <2>1, <2>2, AppendDistinct, Places DEF OneTaskPerKey
  <2>5. Distinct'
    BY <1>6, <2>1, <2>4 DEF OneTaskPerKey, Distinct, DistinctIn
  <2>6. Apart'
    BY <1>3, <1>4, <1>5, <2>3 DEF OneTaskPerKey, Apart
  <2>7. PendingExact'
    BY <1>3, <1>4, <1>5, <2>3 DEF PendingExact
  <2>8. TypeOK'
    BY <1>1, <2>1 DEF Put, loopVars
  <2> QED BY <2>5, <2>6, <2>7, <2>8 DEF OneTaskPerKey
<1> QED BY <1>7, <1>8

\* A delayed task that falls due moves its key from later to due.
LEMMA TimePassesKeeps ==
  ASSUME IInv, NEW task \in Task, TimePasses(task)
  PROVE  IInv'
<1> USE DEF IInv, TypeOK
<1>1. task \in later /\ later' = later \ {task} /\ due' = Append(due, task)
  BY DEF TimePasses
<1>2. Busy' = Busy /\ pending' = pending /\ BeingPut' = BeingPut /\ putting' = putting
  BY DEF TimePasses, Busy, loopVars, BeingPut
<1>3. KeyOf(task) \in InLater
  BY <1>1 DEF InLater
<1>4. InLater' = InLater \ {KeyOf(task)}
  BY <1>1 DEF InLater, OneTaskPerKey, Distinct
<1>5. KeyOf(task) \notin InDue
  BY <1>3 DEF OneTaskPerKey, Apart
<1>6. InDue' = InDue \union {KeyOf(task)}
  BY <1>1, AppendKeys DEF InDue, KeysIn
<1>7. DistinctIn(due')
  BY <1>1, <1>5, AppendDistinct, Places DEF OneTaskPerKey
<1>8. Distinct'
  BY <1>1, <1>2, <1>7 DEF OneTaskPerKey, Distinct, DistinctIn
<1>9. Apart'
  BY <1>2, <1>3, <1>4, <1>6 DEF OneTaskPerKey, Apart
<1>10. PendingExact'
  BY <1>2, <1>3, <1>4, <1>6 DEF PendingExact
<1>11. TypeOK'
  BY <1>1 DEF TimePasses, loopVars
<1> QED BY <1>8, <1>9, <1>10, <1>11 DEF OneTaskPerKey

\* The loop's Take moves the key at the head of due to Busy.
LEMMA TakeKeeps ==
  ASSUME IInv, Take
  PROVE  IInv'
<1> USE DEF IInv, TypeOK
<1>1. /\ Head(due) \in Task
      /\ due' \in Seq(Task)
      /\ DistinctIn(due')
      /\ InDue' = InDue \ {KeyOf(Head(due))}
      /\ KeyOf(Head(due)) \in InDue
  <2>1. due # <<>> /\ due' = Tail(due)
    BY DEF Take
  <2>2. DistinctIn(due)
    BY Places DEF OneTaskPerKey
  <2>3. /\ Head(due) \in Task
        /\ Tail(due) \in Seq(Task)
        /\ DistinctIn(Tail(due))
        /\ KeysIn(Tail(due)) = KeysIn(due) \ {KeyOf(Head(due))}
        /\ KeyOf(Head(due)) \in KeysIn(due)
    BY <2>1, <2>2, TailKeys
  <2>4. InDue = KeysIn(due) /\ InDue' = KeysIn(Tail(due))
    BY <2>1 DEF InDue, KeysIn
  <2> QED BY <2>1, <2>3, <2>4
<1>2. Busy = {} /\ Busy' = {KeyOf(Head(due))}
  BY DEF Take, Busy
<1>3. BeingPut' = BeingPut /\ InLater' = InLater /\ pending' = pending
  BY DEF Take, BeingPut, InLater
<1>4. Distinct'
  BY <1>1 DEF Take, OneTaskPerKey, Distinct, DistinctIn
<1>5. Apart'
  BY <1>1, <1>2, <1>3 DEF OneTaskPerKey, Apart
<1>6. PendingExact'
  BY <1>1, <1>2, <1>3 DEF PendingExact
<1>7. TypeOK'
  <2>1. Head(due) # NoTask
    BY <1>1, NoTaskAssumption
  <2> QED BY <1>1, <2>1 DEF Take
<1> QED BY <1>4, <1>5, <1>6, <1>7 DEF OneTaskPerKey

\* Releasing the running key leaves no task of it anywhere.
LEMMA ReleaseKeeps ==
  ASSUME IInv, step \in {"check", "sync"}, step' \notin {"check", "sync"},
         pending' = pending \ {KeyOf(job)}, putting' = putting, due' = due, later' = later
  PROVE  OneTaskPerKey' /\ PendingExact'
<1>1. Busy = {KeyOf(job)} /\ Busy' = {}
  BY DEF Busy
<1>2. BeingPut' = BeingPut /\ InDue' = InDue /\ InLater' = InLater /\ Distinct' = Distinct
  BY DEF BeingPut, InDue, InLater, Distinct
<1>3. KeyOf(job) \notin BeingPut \union InDue \union InLater
  BY <1>1 DEF IInv, OneTaskPerKey, Apart
<1>4. PendingExact'
  BY <1>1, <1>2, <1>3 DEF IInv, PendingExact
<1>5. Apart'
  BY <1>1, <1>2 DEF IInv, OneTaskPerKey, Apart
<1> QED BY <1>2, <1>4, <1>5 DEF IInv, OneTaskPerKey

\* A step that moves no task keeps both.
LEMMA StillKeeps ==
  ASSUME IInv, UNCHANGED queueVars, Busy' = Busy
  PROVE  OneTaskPerKey' /\ PendingExact'
BY DEF IInv, queueVars, OneTaskPerKey, PendingExact, Distinct, Apart, BeingPut, InDue, InLater

-----------------------------------------------------------------------------
\* Forgetting or counting the failures of a key stays within the schedule.
LEMMA AttemptsType ==
  ASSUME attempts \in [Keys -> 0..MaxAttempt], NEW k \in Keys
  PROVE  /\ Cleared(k) \in [Keys -> 0..MaxAttempt]
         /\ [attempts EXCEPT ![k] = IF @ < MaxAttempt THEN @ + 1 ELSE @] \in [Keys -> 0..MaxAttempt]
<1>1. 0 \in 0..MaxAttempt
  BY QueueAssumption
<1>2. ASSUME NEW n \in 0..MaxAttempt
      PROVE  (IF n < MaxAttempt THEN n + 1 ELSE n) \in 0..MaxAttempt
  BY QueueAssumption
<1>3. attempts[k] \in 0..MaxAttempt
  OBVIOUS
<1> QED BY <1>1, <1>2, <1>3 DEF Cleared

\* A new WorkerManager has no task anywhere.
LEMMA InitInv == Init => IInv
<1> SUFFICES ASSUME Init PROVE IInv
  OBVIOUS
<1>1. TypeOK
  <2>1. /\ <<>> \in Seq(Task)
        /\ NoTask \in Task \union {NoTask}
        /\ 0 \in 0..MaxAttempt
    BY QueueAssumption
  <2>2. attempts \in [Keys -> 0..MaxAttempt] /\ putting \in [Threads -> Task \union {NoTask}]
    BY <2>1 DEF Init
  <2> QED BY <2>1, <2>2 DEF Init, TypeOK
<1>2. BeingPut = {} /\ InDue = {} /\ InLater = {} /\ Busy = {}
  BY DEF Init, BeingPut, InDue, InLater, Busy
<1>3. Distinct
  BY DEF Init, Distinct
<1> QED BY <1>1, <1>2, <1>3 DEF IInv, OneTaskPerKey, Apart, PendingExact, Init

\* The invariant survives every step.
LEMMA StepInv == IInv /\ [Next]_vars => IInv'
<1> SUFFICES ASSUME IInv, [Next]_vars PROVE IInv'
  OBVIOUS
<1> USE DEF IInv
<1>1. ASSUME NEW t \in Requesters, NEW task \in Task, Request(t, task)
      PROVE  IInv'
  <2>1. t \in Threads /\ Busy' = Busy
    BY <1>1 DEF Request, Threads, Busy, loopVars
  <2>2. TypeOK'
    BY <1>1, <2>1, ClaimKeeps DEF Request, TypeOK, loopVars
  <2> QED BY <1>1, <2>1, <2>2, ClaimKeeps DEF Request
<1>2. ASSUME NEW t \in Threads, Put(t)
      PROVE  IInv'
  BY <1>2, PutKeeps
<1>3. ASSUME NEW task \in Task, TimePasses(task)
      PROVE  IInv'
  BY <1>3, TimePassesKeeps
<1>4. ASSUME NEW task \in Task, BackgroundCheck(task)
      PROVE  IInv'
  <2>1. Loop \in Threads /\ Busy' = Busy
    BY <1>4 DEF BackgroundCheck, Threads, Busy, loopVars
  <2>2. TypeOK'
    BY <1>4, <2>1, ClaimKeeps DEF BackgroundCheck, TypeOK, loopVars
  <2> QED BY <1>4, <2>1, <2>2, ClaimKeeps DEF BackgroundCheck
<1>5. CASE Take
  BY <1>5, TakeKeeps
<1>6. CASE Drop
  <2>1. OneTaskPerKey' /\ PendingExact'
    BY <1>6, ReleaseKeeps DEF Drop
  <2>2. TypeOK'
    <3>1. KeyOf(job) \in Keys
      BY <1>6, KeyType DEF Drop, TypeOK
    <3> QED BY <1>6, <3>1, AttemptsType DEF Drop, TypeOK
  <2> QED BY <2>1, <2>2
<1>7. CASE StartSync
  <2>1. Busy' = Busy
    BY <1>7 DEF StartSync, Busy
  <2>2. TypeOK'
    BY <1>7 DEF StartSync, TypeOK, queueVars
  <2> QED BY <1>7, <2>1, <2>2, StillKeeps DEF StartSync
<1>8. CASE SyncSucceeds
  <2>1. OneTaskPerKey' /\ PendingExact'
    BY <1>8, ReleaseKeeps DEF SyncSucceeds
  <2>2. TypeOK'
    <3>1. KeyOf(job) \in Keys
      BY <1>8, KeyType DEF SyncSucceeds, TypeOK
    <3> QED BY <1>8, <3>1, AttemptsType DEF SyncSucceeds, TypeOK
  <2> QED BY <2>1, <2>2
<1>9. CASE SyncFails
  <2>1. OneTaskPerKey' /\ PendingExact'
    BY <1>9, ReleaseKeeps DEF SyncFails
  <2>2. attempts' \in [Keys -> 0..MaxAttempt]
    <3>1. KeyOf(job) \in Keys
      BY <1>9, KeyType DEF SyncFails, TypeOK
    <3> QED BY <1>9, <3>1, AttemptsType DEF SyncFails, TypeOK
  <2>3. TypeOK'
    <3>1. live' \in BOOLEAN
      <4>1. (job.account \in active) \in BOOLEAN
        OBVIOUS
      <4>2. live' = TRUE \/ live' = (job.account \in active)
        BY <1>9, Zenon DEF SyncFails
      <4> QED BY <4>1, <4>2, Zenon
    <3>2. /\ pending' \subseteq Keys
          /\ step' = "requeue" /\ job' \in Task /\ job' # NoTask
      BY <1>9 DEF SyncFails, TypeOK
    <3>3. UNCHANGED <<putting, due, later, active, keyed>>
      BY <1>9 DEF SyncFails
    <3> QED BY <2>2, <3>1, <3>2, <3>3 DEF TypeOK
  <2> QED BY <2>1, <2>3
<1>10. CASE Requeue
  <2>1. Busy' = Busy
    BY <1>10 DEF Requeue, Busy
  <2>2. CASE Claim(Loop, RetryOf(job))
    <3>1. Loop \in Threads
      BY DEF Threads
    <3>2. RetryOf(job) \in Task
      BY <1>10 DEF Requeue, RetryOf, TypeOK, Task, Reasons
    <3>3. TypeOK'
      BY <1>10, <2>1, <2>2, <3>1, <3>2, ClaimKeeps DEF Requeue, TypeOK
    <3> QED BY <1>10, <2>1, <2>2, <3>1, <3>2, <3>3, ClaimKeeps DEF Requeue
  <2>3. CASE UNCHANGED <<pending, putting>>
    <3>1. TypeOK'
      BY <1>10, <2>3 DEF Requeue, TypeOK
    <3> QED BY <1>10, <2>1, <2>3, <3>1, StillKeeps DEF Requeue, queueVars
  <2> QED BY <1>10, <2>2, <2>3 DEF Requeue
<1>11. CASE QueueDrained
  <2>1. Busy' = Busy /\ TypeOK'
    BY <1>11 DEF QueueDrained, Busy, TypeOK, queueVars
  <2> QED BY <1>11, <2>1, StillKeeps DEF QueueDrained
<1>12. CASE EndChecks
  <2>1. Busy' = Busy /\ TypeOK'
    BY <1>12 DEF EndChecks, Busy, TypeOK, queueVars
  <2> QED BY <1>12, <2>1, StillKeeps DEF EndChecks
<1>13. CASE Environment
  <2>1. UNCHANGED <<queueVars, loopVars>>
    BY <1>13 DEF Environment, ClearActiveCustomer, SetUserKey, ClearUserKey, ToggleAccount
  <2>2. Busy' = Busy
    BY <2>1 DEF Busy, loopVars
  <2>3. attempts' \in [Keys -> 0..MaxAttempt] /\ active' \subseteq Accounts /\ keyed' \subseteq Users
    BY <1>13, QueueAssumption
    DEF Environment, ClearActiveCustomer, SetUserKey, ClearUserKey, ToggleAccount, TypeOK
  <2>4. TypeOK'
    BY <2>1, <2>3 DEF queueVars, loopVars, TypeOK
  <2> QED BY <2>1, <2>2, <2>4, StillKeeps
<1>14. CASE UNCHANGED vars
  <2>1. UNCHANGED <<queueVars, loopVars, attempts, active, keyed>>
    BY <1>14 DEF vars, queueVars, loopVars
  <2>2. Busy' = Busy /\ TypeOK'
    BY <2>1 DEF queueVars, loopVars, Busy, TypeOK
  <2> QED BY <2>1, <2>2, StillKeeps
<1> QED
  BY <1>1, <1>2, <1>3, <1>4, <1>5, <1>6, <1>7, <1>8, <1>9, <1>10, <1>11, <1>12, <1>13, <1>14
  DEF Next, LoopStep, RequesterStep, Threads

\* The inductive invariant: types, one task per folder and an exact _pending.
THEOREM Invariance == Spec => []IInv
<1> QED BY InitInv, StepInv, PTL DEF Spec

\* The type invariant, for every instance.
THEOREM TypeCorrect == Spec => []TypeOK
<1>1. IInv => TypeOK
  BY DEF IInv
<1> QED BY <1>1, Invariance, PTL

\* A folder never has two tasks: syncs of one folder do not overlap.
THEOREM NoDuplicateTask == Spec => []OneTaskPerKey
<1>1. IInv => OneTaskPerKey
  BY DEF IInv
<1> QED BY <1>1, Invariance, PTL

\* _pending names the folders that have a task, no more and no fewer.
THEOREM PendingIsExact == Spec => []PendingExact
<1>1. IInv => PendingExact
  BY DEF IInv
<1> QED BY <1>1, Invariance, PTL

-----------------------------------------------------------------------------
(* The queue implements FolderJobs *)

\* The refinement mapping of SyncQueue's Jobs, by name.
Waits == pending \ Busy
Runs == IF Busy = {} THEN NoKey ELSE KeyOf(job)

\* The abstract specification's "nothing runs" is no folder's key.
LEMMA NoKeyIsNoKey == ASSUME NEW task PROVE KeyOf(task) # NoKey
BY DEF KeyOf, NoKey

\* What moves no task and leaves the loop idle or busy is a stutter of FolderJobs.
LEMMA JobsStutter ==
  ASSUME pending' = pending, Busy' = Busy, Busy # {} => job' = job
  PROVE  UNCHANGED Jobs!vars
BY DEF Jobs!vars

\* A claim is an Ask.
LEMMA JobsAsk ==
  ASSUME IInv, NEW t \in Threads, NEW task \in Task, Claim(t, task),
         Busy' = Busy, Busy # {} => job' = job
  PROVE  Jobs!Next
<1>1. KeyOf(task) \in Keys
  BY KeyType
<1>2. KeyOf(task) \notin pending /\ pending' = pending \union {KeyOf(task)}
  BY DEF Claim
<1>3. KeyOf(task) \notin Busy
  BY <1>2 DEF IInv, PendingExact
<1>4. Waits' = Waits \union {KeyOf(task)} /\ KeyOf(task) \notin Waits
  BY <1>2, <1>3 DEF Waits
<1>5. Runs' = Runs /\ Runs # KeyOf(task)
  <2>1. Busy # {} => KeyOf(job) \in Busy
    BY DEF Busy
  <2> QED BY <1>3, <2>1, NoKeyIsNoKey DEF Runs
<1>6. Jobs!Ask(KeyOf(task))
  BY <1>4, <1>5 DEF Jobs!Ask, Waits, Runs
<1> QED BY <1>1, <1>6 DEF Jobs!Next

\* The release of the running key is an End.
LEMMA JobsEnd ==
  ASSUME IInv, step \in {"check", "sync"}, step' \notin {"check", "sync"},
         pending' = pending \ {KeyOf(job)}
  PROVE  Jobs!Next
<1>1. Busy = {KeyOf(job)} /\ Busy' = {}
  BY DEF Busy
<1>2. Waits' = Waits
  BY <1>1 DEF Waits
<1>3. Runs # NoKey /\ Runs' = NoKey
  BY <1>1, NoKeyIsNoKey DEF Runs
<1>4. Jobs!End
  BY <1>2, <1>3 DEF Jobs!End, Waits, Runs
<1> QED BY <1>4 DEF Jobs!Next

\* Take is a Start.
LEMMA JobsStart ==
  ASSUME IInv, Take
  PROVE  Jobs!Next
<1> DEFINE k == KeyOf(Head(due))
<1>1. Busy = {} /\ Busy' = {k} /\ job' = Head(due) /\ pending' = pending
  BY DEF Take, Busy
<1>2. Head(due) \in Task /\ k \in InDue
  <2>1. due # <<>> /\ due \in Seq(Task) /\ DistinctIn(due)
    BY Places DEF IInv, TypeOK, OneTaskPerKey, Take
  <2> QED BY <2>1, TailKeys, Places
<1>3. k \in Keys /\ k \in pending
  BY <1>2, KeyType DEF IInv, PendingExact
<1>4. k \in Waits /\ Waits' = Waits \ {k}
  BY <1>1, <1>3 DEF Waits
<1>5. Runs = NoKey /\ Runs' = k
  BY <1>1 DEF Runs, KeyOf
<1>6. Jobs!Start(k)
  BY <1>4, <1>5 DEF Jobs!Start, Waits, Runs
<1> QED BY <1>3, <1>6 DEF Jobs!Next

\* Each action of the queue is an Ask, a Start, an End or a stutter.
LEMMA JobsStep == IInv /\ [Next]_vars => [Jobs!Next]_(Jobs!vars)
<1> SUFFICES ASSUME IInv, [Next]_vars PROVE [Jobs!Next]_(Jobs!vars)
  OBVIOUS
<1>1. ASSUME NEW t \in Requesters, NEW task \in Task, Request(t, task)
      PROVE  Jobs!Next
  <2>1. t \in Threads /\ Busy' = Busy /\ job' = job
    BY <1>1 DEF Request, Threads, Busy, loopVars
  <2> QED BY <1>1, <2>1, JobsAsk DEF Request
<1>2. ASSUME NEW t \in Threads, Put(t)
      PROVE  UNCHANGED Jobs!vars
  <2>1. Busy' = Busy /\ job' = job /\ pending' = pending
    BY <1>2 DEF Put, Busy, loopVars
  <2> QED BY <2>1, JobsStutter
<1>3. ASSUME NEW task \in Task, TimePasses(task)
      PROVE  UNCHANGED Jobs!vars
  <2>1. Busy' = Busy /\ job' = job /\ pending' = pending
    BY <1>3 DEF TimePasses, Busy, loopVars
  <2> QED BY <2>1, JobsStutter
<1>4. ASSUME NEW task \in Task, BackgroundCheck(task)
      PROVE  Jobs!Next
  <2>1. Loop \in Threads /\ Busy' = Busy /\ job' = job
    BY <1>4 DEF BackgroundCheck, Threads, Busy, loopVars
  <2> QED BY <1>4, <2>1, JobsAsk DEF BackgroundCheck
<1>5. CASE Take
  BY <1>5, JobsStart
<1>6. CASE Drop \/ SyncSucceeds \/ SyncFails
  <2>1. step \in {"check", "sync"} /\ step' \notin {"check", "sync"}
    BY <1>6 DEF Drop, SyncSucceeds, SyncFails
  <2>2. pending' = pending \ {KeyOf(job)}
    BY <1>6 DEF Drop, SyncSucceeds, SyncFails
  <2> QED BY <2>1, <2>2, JobsEnd
<1>7. CASE StartSync \/ QueueDrained \/ EndChecks
  <2>1. Busy' = Busy /\ job' = job /\ pending' = pending
    BY <1>7 DEF StartSync, QueueDrained, EndChecks, Busy, queueVars
  <2> QED BY <2>1, JobsStutter
<1>8. CASE Requeue
  <2>1. Busy' = Busy /\ Busy = {}
    BY <1>8 DEF Requeue, Busy
  <2>2. CASE Claim(Loop, RetryOf(job))
    <3>1. Loop \in Threads
      BY DEF Threads
    <3>2. RetryOf(job) \in Task
      BY <1>8 DEF IInv, Requeue, RetryOf, TypeOK, Task, Reasons
    <3> QED BY <2>1, <2>2, <3>1, <3>2, JobsAsk
  <2>3. CASE UNCHANGED <<pending, putting>>
    BY <2>1, <2>3, JobsStutter
  <2> QED BY <1>8, <2>2, <2>3 DEF Requeue
<1>9. CASE Environment
  <2>1. Busy' = Busy /\ job' = job /\ pending' = pending
    BY <1>9 DEF Environment, ClearActiveCustomer, SetUserKey, ClearUserKey, ToggleAccount,
                Busy, loopVars, queueVars
  <2> QED BY <2>1, JobsStutter
<1>10. CASE UNCHANGED vars
  <2>1. Busy' = Busy /\ job' = job /\ pending' = pending
    BY <1>10 DEF vars, Busy
  <2> QED BY <2>1, JobsStutter
<1> QED
  BY <1>1, <1>2, <1>3, <1>4, <1>5, <1>6, <1>7, <1>8, <1>9, <1>10
  DEF Next, LoopStep, RequesterStep, Threads

\* Every step of the queue is a step of FolderJobs or changes nothing of it.
THEOREM QueueImplementsJobs == Spec => JobsSafety
<1>1. Init => Jobs!Init
  BY DEF Init, Jobs!Init, Busy
<1> QED BY <1>1, JobsStep, Invariance, PTL DEF Spec, JobsSafety

-----------------------------------------------------------------------------
(* The sync of a folder *)

\* The parts of FolderTypeOK, since few steps touch more than one.
ServerType ==
  /\ epoch \in Epochs /\ next \in 1..(MaxUid + 1)
  /\ box \in Mapping(1..(next - 1), Marks) /\ aged \subseteq DOMAIN box
RowSet == [epoch : Epochs, flags : Marks]
RowsType == rows \in Mapping(Uids, RowSet)
StateType ==
  saved \in States \union {None} /\ unread \in 0..MaxUid /\ base \in 1..(MaxUid + 1) \union {None}
SyncType == sync = None \/ sync \in SyncStates
MarkType ==
  mark = None
    \/ mark \in [uid : Uids, epoch : Epochs, flag : Flags, add : BOOLEAN, seen : Marks, stored : BOOLEAN]

\* FolderTypeOK is the conjunction of its parts, now
LEMMA TypeParts == FolderTypeOK <=> ServerType /\ RowsType /\ StateType /\ SyncType /\ MarkType
BY DEF FolderTypeOK, ServerType, RowSet, RowsType, StateType, SyncType, MarkType

\* and after a step.
LEMMA TypeJoined == ServerType' /\ RowsType' /\ StateType' /\ SyncType' /\ MarkType' => FolderTypeOK'
BY DEF FolderTypeOK, ServerType, RowSet, RowsType, StateType, SyncType, MarkType

\* A mapping is a function with its domain and values in the sets,
LEMMA MappingHas ==
  ASSUME NEW S, NEW T, NEW f \in Mapping(S, T)
  PROVE  /\ f = [u \in DOMAIN f |-> f[u]] /\ DOMAIN f \subseteq S
         /\ \A u \in DOMAIN f : f[u] \in T
         /\ f \in [DOMAIN f -> T]
BY DEF Mapping

\* and every such function is one.
LEMMA MappingMade ==
  ASSUME NEW S, NEW T, NEW D \in SUBSET S, NEW f \in [D -> T]
  PROVE  f \in Mapping(S, T)
BY DEF Mapping

\* Taking keys away leaves a mapping without them.
LEMMA WithoutMaps ==
  ASSUME NEW S, NEW T, NEW f \in Mapping(S, T), NEW X
  PROVE  Without(f, X) \in Mapping(S, T) /\ DOMAIN Without(f, X) = DOMAIN f \ X
<1>1. DOMAIN f \ X \subseteq S BY MappingHas
<1>2. \A u \in DOMAIN f : f[u] \in T BY MappingHas
<1>3. Without(f, X) \in [DOMAIN f \ X -> T] BY <1>2 DEF Without
<1> QED BY <1>1, <1>3, MappingMade

\* Only uids are in the mailbox.
LEMMA BoxUids == ServerType => DOMAIN box \subseteq Uids /\ Unseen \subseteq Uids
<1> SUFFICES ASSUME ServerType PROVE DOMAIN box \subseteq Uids /\ Unseen \subseteq Uids OBVIOUS
<1>1. DOMAIN box \subseteq 1..(next - 1) BY MappingHas DEF ServerType
<1>2. 1..(next - 1) \subseteq Uids BY SyncAssumption DEF ServerType, Uids
<1> QED BY <1>1, <1>2 DEF Unseen

\* There are at most MaxUid messages in any set of uids.
LEMMA UidsCount ==
  ASSUME NEW S \in SUBSET Uids
  PROVE  Cardinality(S) \in 0..MaxUid
<1>0. MaxUid \in Nat /\ MaxUid > 0 BY SyncAssumption
<1>a. IsFiniteSet(1..MaxUid) /\ Cardinality(1..MaxUid) = IF 1 > MaxUid THEN 0 ELSE MaxUid - 1 + 1
  BY <1>0, FS_Interval
<1>1. IsFiniteSet(Uids) /\ Cardinality(Uids) = MaxUid BY <1>0, <1>a DEF Uids
<1>2. IsFiniteSet(S) /\ Cardinality(S) <= Cardinality(Uids) /\ Cardinality(S) \in Nat
  BY <1>1, FS_Subset, FS_CardinalityType
<1> QED BY <1>1, <1>2, SyncAssumption

\* The types hold at the start.
LEMMA InitType == FolderInit => FolderTypeOK
<1> SUFFICES ASSUME FolderInit PROVE FolderTypeOK OBVIOUS
<1>2. \A S, T : <<>> \in Mapping(S, T)
  <2> SUFFICES ASSUME NEW S, NEW T PROVE <<>> \in Mapping(S, T) OBVIOUS
  <2>1. {} \in SUBSET S /\ <<>> \in [{} -> T] OBVIOUS
  <2> QED BY <2>1, MappingMade
<1>3. ServerType BY <1>2, SyncAssumption DEF FolderInit, ServerType, Epochs
<1>4. RowsType BY <1>2 DEF FolderInit, RowsType
<1> QED BY <1>3, <1>4, TypeParts, SyncAssumption DEF FolderInit, StateType, SyncType, MarkType

\* A step of the mailbox keeps every type.
LEMMA ServerTyped == ServerType /\ Server => ServerType'
<1> SUFFICES ASSUME ServerType, Server PROVE ServerType' OBVIOUS
<1>0. /\ epoch \in Epochs /\ next \in 1..(MaxUid + 1) /\ aged \subseteq DOMAIN box
      /\ box = [u \in DOMAIN box |-> box[u]] /\ DOMAIN box \subseteq 1..(next - 1)
      /\ \A u \in DOMAIN box : box[u] \in Marks
      /\ MaxUid \in Nat /\ MaxEpoch \in Nat
  BY MappingHas, SyncAssumption DEF ServerType
<1>1. CASE Arrive
  <2>1. PICK m \in Marks, old \in {{}, {next}} :
          /\ box' = [u \in DOMAIN box \union {next} |-> IF u = next THEN m ELSE box[u]]
          /\ aged' = aged \union old
    BY <1>1 DEF Arrive
  <2>2. next' \in 1..(MaxUid + 1) /\ epoch' = epoch BY <1>0, <1>1 DEF Arrive
  <2>3. DOMAIN box \union {next} \subseteq 1..(next' - 1) BY <1>0, <1>1 DEF Arrive
  <2>4. box' \in [DOMAIN box \union {next} -> Marks] BY <1>0, <2>1
  <2>5. box' \in Mapping(1..(next' - 1), Marks) BY <2>3, <2>4, MappingMade
  <2> QED BY <1>0, <2>1, <2>2, <2>5 DEF ServerType
<1>2. CASE Expunge
  <2>1. PICK u \in DOMAIN box : box' = Without(box, {u}) /\ aged' = aged \ {u}
    BY <1>2 DEF Expunge
  <2>2. Without(box, {u}) \in Mapping(1..(next - 1), Marks) /\ DOMAIN Without(box, {u}) = DOMAIN box \ {u}
    <3> DEFINE D == 1..(next - 1)
    <3>1. box \in Mapping(D, Marks) BY DEF ServerType
    <3> HIDE DEF D
    <3>2. Without(box, {u}) \in Mapping(D, Marks) /\ DOMAIN Without(box, {u}) = DOMAIN box \ {u}
      BY <3>1, WithoutMaps
    <3> QED BY <3>2 DEF D
  <2> QED BY <1>0, <1>2, <2>1, <2>2 DEF Expunge, ServerType
<1>3. CASE Flagged
  <2>1. PICK u \in DOMAIN box, m \in Marks : box' = [box EXCEPT ![u] = m]
    BY <1>3 DEF Flagged
  <2>2. box' \in [DOMAIN box -> Marks] BY <1>0, <2>1
  <2>3. box' \in Mapping(1..(next - 1), Marks) BY <1>0, <2>2, MappingMade
  <2> QED BY <1>0, <1>3, <2>2, <2>3 DEF Flagged, ServerType
<1>4. CASE Recreate
  <2>1. <<>> \in Mapping(1..0, Marks)
    <3>1. {} \in SUBSET (1..0) /\ <<>> \in [{} -> Marks] OBVIOUS
    <3> QED BY <3>1, MappingMade
  <2> QED BY <1>0, <1>4, <2>1 DEF Recreate, ServerType, Epochs
<1> QED BY <1>1, <1>2, <1>3, <1>4 DEF Server

\* The server's answers are of the uids that are there.
LEMMA AnswersTyped ==
  ASSUME NEW S, NEW found \in Search(S)
  PROVE  found \subseteq S
BY DEF Search, Answers

\* Every step of a sync keeps the types.
LEMMA WorkTyped == FolderTypeOK /\ (Begin \/ Work \/ Fail) => FolderTypeOK'
<1> SUFFICES ASSUME FolderTypeOK, Begin \/ Work \/ Fail PROVE FolderTypeOK' OBVIOUS
<1>0. /\ ServerType /\ RowsType /\ StateType /\ SyncType /\ MarkType
      /\ DOMAIN box \subseteq Uids /\ Unseen \subseteq Uids
      /\ DOMAIN rows \subseteq Uids
      /\ MaxUid \in Nat
  BY TypeParts, BoxUids, SyncAssumption, MappingHas DEF RowsType
<1>a. UNCHANGED <<server, mark>>
  BY DEF Begin, Work, Fail, Scan, Purge, Forget, SearchUnseen, SearchSince, SearchPage,
         SearchNew, Fetch, FetchDone, FetchFlags, ApplyFlags, Verify, Count, Save, cache, server
<1>b. ServerType' /\ MarkType' BY <1>0, <1>a DEF server, ServerType, MarkType
<1>1. CASE Begin
  <2>0. <<>> \in Mapping(Uids, Marks)
    <3>1. {} \in SUBSET Uids /\ <<>> \in [{} -> Marks] OBVIOUS
    <3> QED BY <3>1, MappingMade
  <2>1. SyncType' BY <1>1, <2>0 DEF Begin, SyncType, SyncStates, NoStatus, Stages
  <2> QED BY <1>0, <1>b, <1>1, <2>1, TypeJoined DEF Begin, cache, RowsType, StateType
<1>2. CASE Scan
  <2>1. PICK status \in Answers("status",
          [epoch |-> epoch, next |-> next, unseen |-> Cardinality(Unseen)], NoStatus) :
            sync' = [sync EXCEPT
         !.session = epoch, !.status = status,
         !.initial = saved = None \/ Changed(status),
         !.known = IF saved = None \/ Changed(status) THEN {} ELSE DOMAIN rows,
         !.stage = CASE Changed(status) -> "purge"
                     [] saved = None /\ DOMAIN rows # {} -> "purge"
                     [] saved = None /\ DOMAIN rows = {} -> "unseen"
                     [] OTHER -> "new"]
    BY <1>2 DEF Scan
  <2>2. status \in [epoch : Epochs \union {None}, next : 1..(MaxUid + 1) \union {None},
                    unseen : 0..MaxUid \union {None}]
    <3>1. Cardinality(Unseen) \in 0..MaxUid BY <1>0, UidsCount
    <3> QED BY <1>0, <3>1 DEF Answers, NoStatus, ServerType
  <2>3. SyncType'
    <3>1. sync \in SyncStates BY <1>0, <1>2 DEF Scan, At, SyncType
    <3>2. PICK initial \in BOOLEAN, known \in SUBSET Uids, stage \in Stages :
            sync' = [sync EXCEPT !.session = epoch, !.status = status, !.initial = initial,
                                 !.known = known, !.stage = stage]
      <4>1. (saved = None \/ Changed(status)) \in BOOLEAN BY DEF Changed
      <4>2. (IF saved = None \/ Changed(status) THEN {} ELSE DOMAIN rows) \in SUBSET Uids BY <1>0
      <4>3. (CASE Changed(status) -> "purge"
               [] saved = None /\ DOMAIN rows # {} -> "purge"
               [] saved = None /\ DOMAIN rows = {} -> "unseen"
               [] OTHER -> "new") \in Stages
        BY DEF Stages
      <4> QED BY <2>1, <4>1, <4>2, <4>3
    <3>3. sync' \in SyncStates BY <1>0, <2>2, <3>1, <3>2 DEF SyncStates, ServerType
    <3> QED BY <3>3 DEF SyncType
  <2> QED BY <1>0, <1>b, <1>2, <2>3, TypeJoined DEF Scan, cache, RowsType, StateType
<1>3. CASE Purge
  <2>1. <<>> \in Mapping(Uids, RowSet)
    <3>1. {} \in SUBSET Uids /\ <<>> \in [{} -> RowSet] OBVIOUS
    <3> QED BY <3>1, MappingMade
  <2>2. SyncType' BY <1>0, <1>3 DEF Purge, At, Goes, SyncType, SyncStates, Stages
  <2> QED BY <1>0, <1>b, <1>3, <2>1, <2>2, TypeJoined DEF Purge, RowsType, StateType
<1>4. CASE Forget
  <2>1. SyncType' BY <1>0, <1>4 DEF Forget, At, Goes, SyncType, SyncStates, Stages
  <2> QED BY <1>0, <1>b, <1>4, <2>1, TypeJoined DEF Forget, RowsType, StateType
<1>5. CASE SearchUnseen
  <2>1. PICK found \in Search(Unseen) :
          sync' = [sync EXCEPT !.stage = "since", !.todo = found,
            !.status.unseen = IF @ = None THEN Cardinality(found) ELSE @]
    BY <1>5 DEF SearchUnseen
  <2>2. found \subseteq Uids /\ Cardinality(found) \in 0..MaxUid
    BY <1>0, <2>1, AnswersTyped, UidsCount
  <2>3. SyncType' BY <1>0, <1>5, <2>1, <2>2 DEF SearchUnseen, At, SyncType, SyncStates, Stages
  <2> QED BY <1>0, <1>b, <1>5, <2>3, TypeJoined DEF SearchUnseen, cache, RowsType, StateType
<1>6. CASE SearchSince
  <2>1. PICK found \in Search(DOMAIN box \ aged) :
          sync' = [sync EXCEPT !.stage = IF sync.page THEN "page" ELSE "fetch",
                               !.todo = @ \union Newest(found, CacheMax)]
    BY <1>6 DEF SearchSince
  <2>2. Newest(found, CacheMax) \subseteq Uids
    BY <1>0, <2>1, AnswersTyped DEF Newest
  <2>3. SyncType' BY <1>0, <1>6, <2>1, <2>2 DEF SearchSince, At, SyncType, SyncStates, Stages
  <2> QED BY <1>0, <1>b, <1>6, <2>3, TypeJoined DEF SearchSince, cache, RowsType, StateType
<1>7. CASE SearchPage
  <2>1. PICK found \in Search(DOMAIN box) :
          sync' = [sync EXCEPT !.stage = "fetch", !.page = FALSE,
                               !.todo = (@ \union Newest(found, PageSize)) \ sync.known]
    BY <1>7 DEF SearchPage
  <2>2. Newest(found, PageSize) \subseteq Uids
    BY <1>0, <2>1, AnswersTyped DEF Newest
  <2>3. SyncType' BY <1>0, <1>7, <2>1, <2>2 DEF SearchPage, At, SyncType, SyncStates, Stages
  <2> QED BY <1>0, <1>b, <1>7, <2>3, TypeJoined DEF SearchPage, cache, RowsType, StateType
<1>8. CASE SearchNew
  <2>1. PICK found : found \subseteq Uids /\ sync' = [sync EXCEPT !.stage = "fetch", !.todo = found \ sync.known]
    <3>1. From(saved.next) \subseteq Uids BY <1>0 DEF From, Newest
    <3>2. PICK found \in (IF saved.next = None THEN {{}} ELSE Search(From(saved.next))) :
            sync' = [sync EXCEPT !.stage = "fetch", !.todo = found \ sync.known]
      BY <1>8 DEF SearchNew
    <3>3. found \subseteq Uids BY <3>1, <3>2, AnswersTyped
    <3> QED BY <3>2, <3>3
  <2>2. SyncType' BY <1>0, <1>8, <2>1 DEF SearchNew, At, SyncType, SyncStates, Stages
  <2> QED BY <1>0, <1>b, <1>8, <2>2, TypeJoined DEF SearchNew, cache, RowsType, StateType
<1>9. CASE Fetch
  <2>1. PICK u \in (IF sync.initial THEN sync.todo ELSE Oldest(sync.todo, 1)),
             ok \in Answers("fetch", TRUE, FALSE) :
          /\ sync' = [sync EXCEPT !.todo = @ \ {u},
               !.added = IF ok /\ u \in DOMAIN box THEN @ \union {u} ELSE @]
          /\ rows' = IF ok /\ u \in DOMAIN box THEN Upserted(u, Row(u)) ELSE rows
    BY <1>9 DEF Fetch
  <2>2. sync \in SyncStates /\ u \in Uids
    BY <1>0, <1>9, <2>1 DEF Fetch, At, SyncType, SyncStates, Oldest
  <2>3. SyncType' BY <2>1, <2>2 DEF SyncType, SyncStates
  <2>4. RowsType'
    <3>1. CASE u \in DOMAIN box
      <4>1. Row(u) \in RowSet
        BY <1>0, <3>1, MappingHas DEF Row, RowSet, ServerType
      <4>2. Upserted(u, Row(u)) \in [DOMAIN rows \union {u} -> RowSet]
        <5>1. \A v \in DOMAIN rows : rows[v] \in RowSet
          BY <1>0, MappingHas DEF RowsType
        <5> HIDE DEF Row
        <5> QED BY <4>1, <5>1 DEF Upserted
      <4>3. Upserted(u, Row(u)) \in Mapping(Uids, RowSet)
        BY <1>0, <2>2, <4>2, MappingMade
      <4> QED BY <1>0, <2>1, <4>3 DEF RowsType
    <3> QED BY <1>0, <2>1, <3>1 DEF RowsType
  <2> QED BY <1>0, <1>b, <1>9, <2>3, <2>4, TypeJoined DEF Fetch, StateType
<1>10. CASE FetchDone
  <2>0. sync \in SyncStates BY <1>0, <1>10 DEF FetchDone, At, SyncType
  <2>1. SyncType'
    <3>1. CASE WantsPage BY <1>10, <2>0, <3>1 DEF FetchDone, Goes, SyncType, SyncStates, Stages
    <3>2. CASE ~WantsPage
      <4>1. sync' = [sync EXCEPT !.page = FALSE, !.known = {}, !.left = sync.known,
                                 !.stage = IF sync.known = {} THEN "count" ELSE "flags"]
        BY <1>10, <3>2 DEF FetchDone
      <4> QED BY <2>0, <4>1 DEF SyncType, SyncStates, Stages
    <3> QED BY <3>1, <3>2
  <2> QED BY <1>0, <1>b, <1>10, <2>1, TypeJoined DEF FetchDone, cache, RowsType, StateType
<1>11. CASE FetchFlags
  <2> DEFINE chunk == Oldest(sync.left, ChunkSize)
             there == [u \in chunk \intersect DOMAIN box |-> box[u]]
  <2>1. PICK got \in Answers("fetch", there, <<>>) :
          sync' = [sync EXCEPT !.stage = "apply", !.chunk = chunk, !.got = got]
    BY <1>11 DEF FetchFlags
  <2>2. got \in Mapping(Uids, Marks)
    <3>1. there \in [chunk \intersect DOMAIN box -> Marks] BY <1>0, MappingHas DEF ServerType
    <3>2. there \in Mapping(Uids, Marks) BY <1>0, <3>1, MappingMade
    <3>3. <<>> \in Mapping(Uids, Marks)
      <4>1. {} \in SUBSET Uids /\ <<>> \in [{} -> Marks] OBVIOUS
      <4> QED BY <4>1, MappingMade
    <3> QED BY <2>1, <3>2, <3>3 DEF Answers
  <2>3. sync \in SyncStates /\ chunk \subseteq Uids
    BY <1>0, <1>11 DEF FetchFlags, At, SyncType, SyncStates, Oldest
  <2>4. SyncType'
    <3> HIDE DEF chunk, there
    <3> QED BY <2>1, <2>2, <2>3 DEF SyncType, SyncStates, Stages
  <2> QED BY <1>0, <1>b, <1>11, <2>4, TypeJoined DEF FetchFlags, cache, RowsType, StateType
<1>12. CASE ApplyFlags
  <2>1. sync \in SyncStates BY <1>0, <1>12 DEF ApplyFlags, At, SyncType
  <2>2. <<>> \in Mapping(Uids, Marks)
    <3>1. {} \in SUBSET Uids /\ <<>> \in [{} -> Marks] OBVIOUS
    <3> QED BY <3>1, MappingMade
  <2>3. SyncType' BY <1>12, <2>1, <2>2 DEF ApplyFlags, SyncType, SyncStates, Stages
  <2>4. RowsType'
    <3>1. \A u \in DOMAIN sync.got : sync.got[u] \in Marks
      BY <2>1, MappingHas DEF SyncStates
    <3>2. \A u \in DOMAIN rows : rows[u] \in RowSet
      BY <1>0, MappingHas DEF RowsType
    <3>3. rows' \in [DOMAIN rows -> RowSet]
      BY <1>12, <3>1, <3>2 DEF ApplyFlags, RowSet
    <3> QED BY <1>0, <3>3, MappingMade DEF RowsType
  <2> QED BY <1>0, <1>b, <1>12, <2>3, <2>4, TypeJoined DEF ApplyFlags, StateType
<1>13. CASE Verify
  <2>1. PICK found \in Search(sync.chunk \intersect DOMAIN box) : rows' = Without(rows, sync.chunk \ found)
    BY <1>13 DEF Verify
  <2>2. RowsType' BY <1>0, <2>1, WithoutMaps DEF RowsType
  <2>3. SyncType' BY <1>0, <1>13 DEF Verify, At, SyncType, SyncStates, Stages
  <2> QED BY <1>0, <1>b, <1>13, <2>2, <2>3, TypeJoined DEF Verify, StateType
<1>14. CASE Count
  <2>1. SyncType' BY <1>0, <1>14 DEF Count, At, Goes, SyncType, SyncStates, Stages
  <2>2. unread' \in 0..MaxUid
    <3>1. \A found \in Search(Unseen) : Cardinality(found) \in 0..MaxUid
      BY <1>0, AnswersTyped, UidsCount
    <3> QED BY <1>0, <1>14, <3>1 DEF Count, At, SyncType, SyncStates
  <2> QED BY <1>0, <1>b, <1>14, <2>1, <2>2, TypeJoined DEF Count, RowsType, StateType
<1>15. CASE Save
  <2>1. sync \in SyncStates BY <1>0, <1>15 DEF Save, At, SyncType
  <2>2. saved' \in States /\ base' \in 1..(MaxUid + 1) \union {None}
    BY <1>0, <1>15, <2>1 DEF Save, SyncStates, States, StateType
  <2> QED BY <1>0, <1>b, <1>15, <2>2, TypeJoined DEF Save, RowsType, StateType, SyncType
<1>16. CASE Fail
  BY <1>0, <1>b, <1>16, TypeJoined DEF Fail, cache, RowsType, StateType, SyncType
<1> QED BY <1>1, <1>2, <1>3, <1>4, <1>5, <1>6, <1>7, <1>8, <1>9, <1>10, <1>11, <1>12, <1>13,
           <1>14, <1>15, <1>16 DEF Work

\* Every step of a mark request keeps the types.
LEMMA MarkTyped == FolderTypeOK /\ Marking => FolderTypeOK'
<1> SUFFICES ASSUME FolderTypeOK, Marking PROVE FolderTypeOK' OBVIOUS
<1>0. /\ ServerType /\ RowsType /\ StateType /\ SyncType /\ MarkType
      /\ DOMAIN rows \subseteq Uids /\ \A u \in DOMAIN rows : rows[u] \in RowSet
  <2>1. RowsType BY TypeParts
  <2>2. DOMAIN rows \subseteq Uids /\ \A u \in DOMAIN rows : rows[u] \in RowSet
    BY <2>1, MappingHas DEF RowsType
  <2> QED BY <2>2, TypeParts
<1>1. CASE MarkBegin
  <2>1. MarkType' BY <1>0, <1>1, SyncAssumption DEF MarkBegin, MarkType, Marks, RowSet
  <2> QED BY <1>0, <1>1, <2>1, TypeJoined DEF MarkBegin, server, cache, ServerType, RowsType, StateType, SyncType
<1>2. CASE MarkStore
  <2>1. \A m \in Marks : WithMark(m) \in Marks
    BY <1>0, <1>2 DEF MarkStore, MarkType, WithMark, Marks
  <2>2. ServerType'
    <3>1. \A u \in DOMAIN box : box[u] \in Marks BY <1>0, MappingHas DEF ServerType
    <3>2. box' \in [DOMAIN box -> Marks] BY <1>2, <2>1, <3>1 DEF MarkStore
    <3>3. DOMAIN box \subseteq 1..(next - 1) BY <1>0, MappingHas DEF ServerType
    <3>4. box' \in Mapping(1..(next - 1), Marks) BY <3>2, <3>3, MappingMade
    <3> QED BY <1>0, <1>2, <3>2, <3>4 DEF MarkStore, ServerType
  <2>3. MarkType' BY <1>0, <1>2 DEF MarkStore, MarkType
  <2> QED BY <1>0, <1>2, <2>2, <2>3, TypeJoined DEF MarkStore, cache, RowsType, StateType, SyncType
<1>3. CASE MarkWrite
  <2>1. WithMark(mark.seen) \in Marks
    BY <1>0, <1>3 DEF MarkWrite, MarkType, WithMark, Marks
  <2>2. rows' \in [DOMAIN rows -> RowSet]
    BY <1>0, <1>3, <2>1 DEF MarkWrite, RowSet
  <2>3. RowsType' BY <1>0, <2>2, MappingMade DEF RowsType
  <2> QED BY <1>0, <1>3, <2>3, TypeJoined DEF MarkWrite, server, ServerType, StateType, SyncType, MarkType
<1>4. CASE MarkFails
  BY <1>0, <1>4, TypeJoined DEF MarkFails, server, cache, ServerType, RowsType, StateType, SyncType, MarkType
<1> QED BY <1>1, <1>2, <1>3, <1>4 DEF Marking

\* Every step keeps the types.
LEMMA NextTyped == FolderTypeOK /\ [FolderNext]_folderVars => FolderTypeOK'
<1> SUFFICES ASSUME FolderTypeOK, [FolderNext]_folderVars PROVE FolderTypeOK' OBVIOUS
<1>0. ServerType /\ RowsType /\ StateType /\ SyncType /\ MarkType BY TypeParts
<1>1. CASE Server
  <2>1. UNCHANGED <<cache, sync, mark>> BY <1>1 DEF Server, Arrive, Expunge, Flagged, Recreate
  <2>2. ServerType' BY <1>0, <1>1, ServerTyped
  <2> QED BY <1>0, <2>1, <2>2, TypeJoined DEF cache, RowsType, StateType, SyncType, MarkType
<1>2. CASE UNCHANGED folderVars
  BY <1>0, <1>2, TypeJoined DEF folderVars, server, cache, ServerType, RowsType, StateType, SyncType, MarkType
<1> QED BY <1>1, <1>2, WorkTyped, MarkTyped DEF FolderNext

\* FolderTypeOK: what the mailbox, the cache, the sync and the request hold is of
\* their types at every time.
THEOREM FolderTypes == FolderSpec => []FolderTypeOK
BY InitType, NextTyped, PTL DEF FolderSpec

-----------------------------------------------------------------------------
(* The epochs of the rows *)

\* The sync has selected the mailbox.
Selected == sync # None /\ sync.stage # "scan"

\* A session began in an epoch, and STATUS told which one.
SessionOK ==
  sync # None =>
    /\ sync.stage = "scan" <=> sync.session = None
    /\ sync.stage \in {"purge", "forget", "unseen", "since"} => sync.initial
    /\ sync.stage \in {"scan", "new"} => ~sync.initial
    /\ sync.stage # "scan" => sync.session <= epoch /\ sync.status.epoch = sync.session

\* An incremental sync goes on from the state of its own epoch. An initial one
\* has removed the rows and the state of an earlier epoch before it fetches.
PhaseOK ==
  Selected =>
    /\ ~sync.initial => saved # None /\ saved.epoch = sync.session
    /\ sync.stage = "purge" /\ saved # None => saved.epoch < sync.session
    /\ sync.stage = "forget" => DOMAIN rows = {}
    /\ sync.initial /\ sync.stage \notin {"purge", "forget"} =>
         saved = None /\ \A u \in DOMAIN rows : rows[u].epoch = sync.session

SavedOK == saved # None => saved.epoch \in Epochs /\ saved.epoch <= epoch

EpochInv == FolderTypeOK /\ SessionOK /\ PhaseOK /\ SavedOK /\ OneEpoch

\* Steps that leave sync, rows and stored state alone.
LEMMA EpochRests ==
  ASSUME EpochInv, UNCHANGED <<rows, saved, sync>>, epoch' \in Nat, epoch <= epoch'
  PROVE  SessionOK' /\ PhaseOK' /\ SavedOK' /\ OneEpoch'
<1>1. epoch \in Nat /\ (sync # None => sync.session \in Nat \union {None}) /\ None \notin Nat
  BY SyncAssumption, TypeParts DEF EpochInv, ServerType, SyncType, SyncStates, Epochs
<1>2. saved # None => saved.epoch \in Nat BY DEF EpochInv, SavedOK, Epochs
<1>3. SessionOK' /\ SavedOK' BY <1>1, <1>2 DEF EpochInv, SessionOK, SavedOK, Epochs
<1>4. PhaseOK' /\ OneEpoch' BY DEF EpochInv, PhaseOK, Selected, OneEpoch
<1> QED BY <1>3, <1>4

\* A sync keeps rows and state of one epoch, if STATUS is always answered.
LEMMA WorkEpochs ==
  ASSUME "status" \notin Refused, EpochInv, Begin \/ Work \/ Fail
  PROVE  SessionOK' /\ PhaseOK' /\ SavedOK' /\ OneEpoch'
<1>0. /\ sync # None => sync \in SyncStates
      /\ epoch \in Epochs /\ None \notin Epochs /\ None \notin Nat /\ Epochs \subseteq Nat
      /\ epoch' = epoch
      /\ SessionOK /\ PhaseOK /\ SavedOK /\ OneEpoch
  <2>1. epoch' = epoch
    BY DEF Begin, Work, Fail, Scan, Purge, Forget, SearchUnseen, SearchSince, SearchPage,
           SearchNew, Fetch, FetchDone, FetchFlags, ApplyFlags, Verify, Count, Save, server
  <2> QED BY <2>1, TypeParts, SyncAssumption DEF EpochInv, ServerType, SyncType, Epochs
<1>1. CASE Begin
  BY <1>0, <1>1 DEF Begin, cache, SessionOK, PhaseOK, Selected, SavedOK, OneEpoch, NoStatus
<1>2. CASE Scan
  <2> DEFINE now == [epoch |-> epoch, next |-> next, unseen |-> Cardinality(Unseen)]
  <2>1. sync' = [sync EXCEPT
         !.session = epoch, !.status = now,
         !.initial = saved = None \/ Changed(now),
         !.known = IF saved = None \/ Changed(now) THEN {} ELSE DOMAIN rows,
         !.stage = CASE Changed(now) -> "purge"
                     [] saved = None /\ DOMAIN rows # {} -> "purge"
                     [] saved = None /\ DOMAIN rows = {} -> "unseen"
                     [] OTHER -> "new"]
    BY <1>2 DEF Scan, Answers
  <2>2. Changed(now) <=> saved # None /\ saved.epoch # epoch
    BY <1>0, <2>1 DEF Changed, SavedOK
  <2>3. /\ sync'.session = epoch /\ sync'.status.epoch = epoch
        /\ sync'.initial = (saved = None \/ Changed(now))
        /\ sync'.stage = (CASE Changed(now) -> "purge"
                     [] saved = None /\ DOMAIN rows # {} -> "purge"
                     [] saved = None /\ DOMAIN rows = {} -> "unseen"
                     [] OTHER -> "new")
    BY <1>0, <1>2, <2>1 DEF Scan, At, SyncStates
  <2>4. UNCHANGED <<rows, saved>> BY <1>2 DEF Scan, cache
  <2>5. SavedOK' /\ OneEpoch' BY <1>0, <2>4 DEF SavedOK, OneEpoch
  <2>a. CASE saved # None /\ saved.epoch = epoch
    <3>1. sync'.stage = "new" /\ sync'.initial = FALSE BY <2>2, <2>3, <2>a
    <3>2. SessionOK' BY <1>0, <2>3, <3>1 DEF SessionOK
    <3>3. PhaseOK' BY <2>3, <2>4, <2>a, <3>1 DEF PhaseOK, Selected
    <3> QED BY <2>5, <3>2, <3>3
  <2>b. CASE saved # None /\ saved.epoch # epoch
    <3>1. sync'.stage = "purge" /\ sync'.initial = TRUE BY <2>2, <2>3, <2>b
    <3>2. SessionOK' BY <1>0, <2>3, <3>1 DEF SessionOK
    <3>3. PhaseOK' BY <1>0, <2>3, <2>4, <2>b, <3>1 DEF PhaseOK, Selected, SavedOK
    <3> QED BY <2>5, <3>2, <3>3
  <2>c. CASE saved = None
    <3>1. sync'.initial = TRUE BY <2>2, <2>3, <2>c
    <3>2. sync'.stage = IF DOMAIN rows = {} THEN "unseen" ELSE "purge" BY <2>2, <2>3, <2>c
    <3>3. SessionOK' BY <1>0, <2>3, <3>1, <3>2 DEF SessionOK
    <3>4. PhaseOK' BY <2>3, <2>4, <2>c, <3>1, <3>2 DEF PhaseOK, Selected
    <3> QED BY <2>5, <3>3, <3>4
  <2> QED BY <2>a, <2>b, <2>c
<1>3. CASE Purge
  BY <1>0, <1>3 DEF Purge, At, Goes, SyncStates, SessionOK, PhaseOK, Selected, SavedOK, OneEpoch
<1>4. CASE Forget
  BY <1>0, <1>4 DEF Forget, At, Goes, SyncStates, SessionOK, PhaseOK, Selected, SavedOK, OneEpoch
<1>5. CASE SearchUnseen
  <2>1. /\ sync'.stage = "since"
        /\ \A f \in {"session", "initial"} : sync'[f] = sync[f]
        /\ sync'.status.epoch = sync.status.epoch
    BY <1>0, <1>5 DEF SearchUnseen, At, SyncStates
  <2> QED BY <1>0, <1>5, <2>1 DEF SearchUnseen, At, cache, SessionOK, PhaseOK, Selected, SavedOK, OneEpoch
<1>6. CASE SearchSince
  BY <1>0, <1>6 DEF SearchSince, At, SyncStates, cache, SessionOK, PhaseOK, Selected, SavedOK, OneEpoch
<1>7. CASE SearchPage
  BY <1>0, <1>7 DEF SearchPage, At, SyncStates, cache, SessionOK, PhaseOK, Selected, SavedOK, OneEpoch
<1>8. CASE SearchNew
  BY <1>0, <1>8 DEF SearchNew, At, SyncStates, cache, SessionOK, PhaseOK, Selected, SavedOK, OneEpoch
<1>9. CASE Fetch
  <2>1. PICK u : /\ sync'.stage = sync.stage /\ sync'.session = sync.session /\ sync'.initial = sync.initial
                 /\ sync'.status = sync.status
                 /\ rows' \in {rows, Upserted(u, Row(u))}
    BY <1>0, <1>9 DEF Fetch, At, SyncStates
  <2>2. \A v \in DOMAIN rows' : (v \in DOMAIN rows /\ rows'[v] = rows[v]) \/ rows'[v].epoch = epoch
    BY <2>1 DEF Upserted, Row
  <2>3. Live /\ At("fetch") /\ saved' = saved BY <1>9 DEF Fetch
  <2>4. SessionOK' /\ SavedOK' BY <1>0, <2>1, <2>3 DEF At, SessionOK, SavedOK
  <2>5. PhaseOK' BY <1>0, <2>1, <2>2, <2>3 DEF At, Live, PhaseOK, Selected, SessionOK
  <2>6. OneEpoch' BY <1>0, <2>2, <2>3 DEF At, Live, OneEpoch, PhaseOK, Selected
  <2> QED BY <2>4, <2>5, <2>6
<1>10. CASE FetchDone
  <2>1. /\ sync'.session = sync.session /\ sync'.initial = sync.initial /\ sync'.status = sync.status
        /\ sync'.stage \in {"page", "count", "flags"}
    <3>1. sync \in SyncStates BY <1>0, <1>10 DEF FetchDone, At
    <3>2. CASE WantsPage BY <1>10, <3>1, <3>2 DEF FetchDone, Goes, SyncStates
    <3>3. CASE ~WantsPage
      <4>1. sync' = [sync EXCEPT !.page = FALSE, !.known = {}, !.left = sync.known,
                                 !.stage = IF sync.known = {} THEN "count" ELSE "flags"]
        BY <1>10, <3>3 DEF FetchDone
      <4> QED BY <3>1, <4>1 DEF SyncStates
    <3> QED BY <3>2, <3>3
  <2> QED BY <1>0, <1>10, <2>1 DEF FetchDone, At, cache, SessionOK, PhaseOK, Selected, SavedOK, OneEpoch
<1>11. CASE FetchFlags
  BY <1>0, <1>11 DEF FetchFlags, At, SyncStates, cache, SessionOK, PhaseOK, Selected, SavedOK, OneEpoch
<1>12. CASE ApplyFlags
  <2>1. /\ DOMAIN rows' = DOMAIN rows /\ \A u \in DOMAIN rows : rows'[u].epoch = rows[u].epoch
    <3>1. \A u \in DOMAIN rows : rows[u] \in RowSet BY TypeParts, MappingHas DEF EpochInv, RowsType
    <3> QED BY <1>12, <3>1 DEF ApplyFlags, RowSet
  <2>2. /\ sync'.session = sync.session /\ sync'.initial = sync.initial /\ sync'.status = sync.status
        /\ sync'.stage = "verify"
    BY <1>0, <1>12 DEF ApplyFlags, At, SyncStates
  <2> QED BY <1>0, <1>12, <2>1, <2>2 DEF ApplyFlags, At, SessionOK, PhaseOK, Selected, SavedOK, OneEpoch
<1>13. CASE Verify
  <2>1. /\ DOMAIN rows' \subseteq DOMAIN rows /\ \A u \in DOMAIN rows' : rows'[u] = rows[u]
    BY <1>13 DEF Verify, Without
  <2>2. /\ sync'.session = sync.session /\ sync'.initial = sync.initial /\ sync'.status = sync.status
        /\ sync'.stage \in {"count", "flags"}
    BY <1>0, <1>13 DEF Verify, At, SyncStates
  <2> QED BY <1>0, <1>13, <2>1, <2>2 DEF Verify, At, SessionOK, PhaseOK, Selected, SavedOK, OneEpoch
<1>14. CASE Count
  BY <1>0, <1>14 DEF Count, Goes, At, SyncStates, SessionOK, PhaseOK, Selected, SavedOK, OneEpoch
<1>15. CASE Save
  BY <1>0, <1>15 DEF Save, At, SyncStates, SessionOK, PhaseOK, Selected, SavedOK, OneEpoch
<1>16. CASE Fail
  BY <1>0, <1>16 DEF Fail, cache, SessionOK, PhaseOK, Selected, SavedOK, OneEpoch
<1> QED BY <1>1, <1>2, <1>3, <1>4, <1>5, <1>6, <1>7, <1>8, <1>9, <1>10, <1>11, <1>12, <1>13,
           <1>14, <1>15, <1>16 DEF Work

\* A mark request never writes a row of another epoch.
LEMMA MarkEpochs ==
  ASSUME EpochInv, Marking
  PROVE  SessionOK' /\ PhaseOK' /\ SavedOK' /\ OneEpoch'
<1>0. epoch \in Nat BY TypeParts DEF EpochInv, ServerType, Epochs
<1>1. CASE MarkWrite
  <2>1. DOMAIN rows' = DOMAIN rows /\ \A u \in DOMAIN rows : rows'[u].epoch = rows[u].epoch
    <3>1. \A u \in DOMAIN rows : rows[u] \in RowSet BY TypeParts, MappingHas DEF EpochInv, RowsType
    <3> QED BY <1>1, <3>1 DEF MarkWrite, RowSet
  <2> QED BY <1>1, <2>1 DEF MarkWrite, server, EpochInv, SessionOK, PhaseOK, Selected, SavedOK, OneEpoch
<1>2. CASE MarkBegin \/ MarkStore \/ MarkFails
  BY <1>0, <1>2, EpochRests DEF MarkBegin, MarkStore, MarkFails, server, cache
<1> QED BY <1>1, <1>2 DEF Marking

\* EpochInv is inductive if STATUS is always answered.
LEMMA EpochStep ==
  ASSUME "status" \notin Refused
  PROVE  EpochInv /\ [FolderNext]_folderVars => EpochInv'
<1> SUFFICES ASSUME EpochInv, [FolderNext]_folderVars PROVE EpochInv' OBVIOUS
<1>0. FolderTypeOK' /\ epoch \in Nat
  BY NextTyped, TypeParts DEF EpochInv, ServerType, Epochs
<1>1. CASE Server
  <2>1. UNCHANGED <<rows, saved, sync>> /\ epoch' \in Nat /\ epoch <= epoch'
    BY <1>0, <1>1 DEF Server, Arrive, Expunge, Flagged, Recreate, cache
  <2> QED BY <1>0, <2>1, EpochRests DEF EpochInv
<1>2. CASE Begin \/ Work \/ Fail BY <1>0, <1>2, WorkEpochs DEF EpochInv
<1>3. CASE Marking BY <1>0, <1>3, MarkEpochs DEF EpochInv
<1>4. CASE UNCHANGED folderVars
  <2>1. UNCHANGED <<rows, saved, sync, epoch>> BY <1>4 DEF folderVars, server, cache
  <2> QED BY <1>0, <2>1, EpochRests DEF EpochInv
<1> QED BY <1>1, <1>2, <1>3, <1>4 DEF FolderNext

\* OneEpoch: if the server never refuses STATUS, the rows of a folder with a
\* stored state are of the UIDVALIDITY stored with it.
THEOREM CacheOfOneEpoch == ASSUME "status" \notin Refused PROVE FolderSpec => []OneEpoch
<1>1. FolderInit => EpochInv
  BY InitType DEF FolderInit, EpochInv, SessionOK, PhaseOK, Selected, SavedOK, OneEpoch
<1>2. EpochInv => OneEpoch BY DEF EpochInv
<1> QED BY <1>1, <1>2, EpochStep, PTL DEF FolderSpec

\* A row goes only where its message is gone, or was of another epoch.
LEMMA RowsGoWithMessage ==
  ASSUME Refused \subseteq {"fetch"}, EpochInv, [FolderNext]_folderVars,
         NEW u \in DOMAIN rows, u \in DOMAIN box, rows[u].epoch = epoch, saved # None
  PROVE  u \in DOMAIN rows'
<1>1. CASE Purge
  <2>1. Selected /\ sync.stage = "purge" BY <1>1 DEF Purge, At, Selected
  <2>2. saved.epoch < sync.session /\ sync.session <= epoch /\ saved.epoch = epoch
    BY <2>1 DEF EpochInv, PhaseOK, SessionOK, Selected, OneEpoch
  <2>3. epoch \in Nat /\ sync.session \in Nat \union {None} /\ sync.session # None
    BY <2>1, TypeParts, SyncAssumption DEF EpochInv, SessionOK, Selected, ServerType, SyncType, SyncStates, Epochs
  <2> QED BY <2>2, <2>3
<1>2. CASE Verify
  <2>1. rows' = Without(rows, sync.chunk \ (sync.chunk \intersect DOMAIN box))
    BY <1>2 DEF Verify, Search, Answers
  <2> QED BY <2>1 DEF Without
<1>3. CASE Fetch BY <1>3 DEF Fetch, Upserted
<1>4. CASE ApplyFlags BY <1>4 DEF ApplyFlags
<1>5. CASE MarkWrite BY <1>5 DEF MarkWrite
<1>6. ASSUME ~(Purge \/ Verify \/ Fetch \/ ApplyFlags \/ MarkWrite) PROVE UNCHANGED rows
  BY <1>6 DEF FolderNext, Server, Arrive, Expunge, Flagged, Recreate, Begin, Work, Scan, Forget, SearchUnseen,
         SearchSince, SearchPage, SearchNew, FetchDone, FetchFlags, Count, Save, Fail,
         Marking, MarkBegin, MarkStore, MarkFails, cache, folderVars
<1> QED BY <1>1, <1>2, <1>3, <1>4, <1>5, <1>6

\* RowsStay: if the server never refuses STATUS and SEARCH, no sync takes a row
\* whose message is still in the mailbox.
THEOREM RowsStayWithMessage == ASSUME Refused \subseteq {"fetch"} PROVE FolderSpec => RowsStay
<1>0. "status" \notin Refused OBVIOUS
<1>1. FolderInit => EpochInv
  BY InitType DEF FolderInit, EpochInv, SessionOK, PhaseOK, Selected, SavedOK, OneEpoch
<1>2. EpochInv /\ [FolderNext]_folderVars =>
        [\A u \in DOMAIN rows :
           u \in DOMAIN box /\ rows[u].epoch = epoch /\ saved # None => u \in DOMAIN rows']_folderVars
  BY RowsGoWithMessage
<1>3. EpochInv /\ [FolderNext]_folderVars => EpochInv' BY <1>0, EpochStep
<1> QED BY <1>1, <1>2, <1>3, PTL DEF FolderSpec, RowsStay

-----------------------------------------------------------------------------
(* What arrived since the initial sync *)

\* Nothing the sync or the stored state knows of is above the mailbox's UIDNEXT.
BoundOK ==
  /\ base # None /\ (saved # None => saved.next # None)
  /\ Current => saved.next <= next
  /\ Selected => sync.status.next # None
  /\ Selected /\ sync.session = epoch => sync.status.next <= next

\* What a sync skips as known has its row.
KnownOK ==
  Selected /\ ~sync.initial /\ sync.stage \in {"new", "fetch", "page"} => sync.known \subseteq DOMAIN rows

\* What arrived between the stored state and the scan has a row or will be fetched.
SoughtOK ==
  Selected /\ ~sync.initial /\ sync.stage # "new" /\ sync.session = epoch =>
    \A u \in DOMAIN box : saved.next <= u /\ u < sync.status.next => u \in DOMAIN rows \union sync.todo

\* Past the fetches there is nothing left to fetch.
DoneOK == sync # None /\ sync.stage \in {"flags", "apply", "verify", "count", "save"} => sync.todo = {}

GapInv == EpochInv /\ BoundOK /\ KnownOK /\ SoughtOK /\ DoneOK /\ NoGap

\* The types the arithmetic needs.
LEMMA GapTypes ==
  ASSUME GapInv
  PROVE  /\ epoch \in Nat /\ next \in Nat /\ base \in Nat /\ None \notin Nat
         /\ saved # None => saved.next \in Nat /\ saved.epoch \in Nat /\ saved.epoch <= epoch
         /\ sync # None => sync \in SyncStates /\ sync.todo \subseteq Nat
         /\ Selected => sync.status.next \in Nat /\ sync.session \in Nat /\ sync.session <= epoch
         /\ DOMAIN box \subseteq 1..(next - 1)
<1>1. ServerType /\ StateType /\ SyncType BY TypeParts DEF GapInv, EpochInv
<1>2. DOMAIN box \subseteq 1..(next - 1) BY <1>1, MappingHas DEF ServerType
<1>3. Uids \subseteq Nat /\ Epochs \subseteq Nat /\ None \notin Nat /\ MaxUid \in Nat
  BY SyncAssumption DEF Uids, Epochs
<1>4. epoch \in Nat /\ next \in Nat /\ base \in Nat
  BY <1>1, <1>3 DEF ServerType, StateType, GapInv, BoundOK
<1>5. saved # None => saved.next \in Nat /\ saved.epoch \in Nat /\ saved.epoch <= epoch
  <2> SUFFICES ASSUME saved # None PROVE saved.next \in Nat /\ saved.epoch \in Nat /\ saved.epoch <= epoch
    OBVIOUS
  <2>1. saved \in States /\ saved.next # None BY <1>1 DEF StateType, GapInv, BoundOK
  <2>2. saved.epoch \in Epochs /\ saved.epoch <= epoch BY DEF GapInv, EpochInv, SavedOK
  <2>3. saved.next \in Nat BY <1>3, <2>1 DEF States
  <2> QED BY <1>3, <2>2, <2>3
<1>6. sync # None => sync \in SyncStates /\ sync.todo \subseteq Nat
  BY <1>1, <1>3 DEF SyncType, SyncStates
<1>7. Selected => sync.status.next \in Nat /\ sync.session \in Nat /\ sync.session <= epoch
  <2> SUFFICES ASSUME Selected
               PROVE  sync.status.next \in Nat /\ sync.session \in Nat /\ sync.session <= epoch
    OBVIOUS
  <2>1. sync \in SyncStates /\ sync.stage # "scan" BY <1>1 DEF SyncType, Selected
  <2>2. sync.session # None /\ sync.session <= epoch
    BY DEF GapInv, EpochInv, SessionOK, Selected
  <2>3. sync.status.next # None BY DEF GapInv, BoundOK
  <2>4. sync.session \in Nat BY <1>3, <2>1, <2>2 DEF SyncStates
  <2>5. sync.status.next \in Nat
    <3>1. sync.status.next \in 1..(MaxUid + 1) \union {None} BY <2>1 DEF SyncStates
    <3> QED BY <1>3, <2>3, <3>1
  <2> QED BY <2>2, <2>4, <2>5
<1> QED BY <1>2, <1>3, <1>4, <1>5, <1>6, <1>7

\* A step that leaves sync and cache alone, and adds no message below the
\* UIDNEXT of the epoch.
LEMMA GapRests ==
  ASSUME GapInv, UNCHANGED <<cache, sync>>,
         \/ /\ epoch' = epoch /\ next' \in Nat /\ next <= next'
            /\ \A u \in DOMAIN box' : u \in DOMAIN box \/ u = next
         \/ epoch' = epoch + 1
  PROVE  BoundOK' /\ KnownOK' /\ SoughtOK' /\ DoneOK' /\ NoGap'
<1>0. UNCHANGED <<rows, saved, unread, base, sync>> BY DEF cache
<1>1. KnownOK' /\ DoneOK' BY <1>0 DEF GapInv, KnownOK, DoneOK, Selected
<1>2. CASE epoch' = epoch + 1
  <2>1. ~Current' /\ ~(Selected /\ sync.session = epoch)'
    BY <1>0, <1>2, GapTypes DEF Current, Selected
  <2> QED BY <1>0, <1>1, <2>1 DEF GapInv, BoundOK, Selected, SoughtOK, NoGap
<1>3. CASE /\ epoch' = epoch /\ next' \in Nat /\ next <= next'
           /\ \A u \in DOMAIN box' : u \in DOMAIN box \/ u = next
  <2>1. BoundOK' BY <1>0, <1>3, GapTypes DEF GapInv, BoundOK, Current, Selected
  <2>2. SoughtOK' BY <1>0, <1>3, GapTypes DEF GapInv, BoundOK, SoughtOK, Selected
  <2>3. NoGap' BY <1>0, <1>3, GapTypes DEF GapInv, BoundOK, NoGap, Current
  <2> QED BY <1>1, <2>1, <2>2, <2>3
<1> QED BY <1>2, <1>3

\* A sync leaves no gap, if the server refuses it nothing.
LEMMA WorkGaps ==
  ASSUME Refused = {}, GapInv, Begin \/ Work \/ Fail
  PROVE  BoundOK' /\ KnownOK' /\ SoughtOK' /\ DoneOK' /\ NoGap'
<1>0. /\ UNCHANGED <<epoch, next, box>>
      /\ \A S : Search(S) = {S}
      /\ BoundOK /\ KnownOK /\ SoughtOK /\ DoneOK /\ NoGap
      /\ SessionOK /\ PhaseOK /\ SavedOK /\ OneEpoch
  <2>1. UNCHANGED <<epoch, next, box>>
    BY DEF Begin, Work, Fail, Scan, Purge, Forget, SearchUnseen, SearchSince, SearchPage,
           SearchNew, Fetch, FetchDone, FetchFlags, ApplyFlags, Verify, Count, Save, server
  <2> QED BY <2>1 DEF Search, Answers, GapInv, EpochInv
<1>1. CASE Begin
  <2>1. UNCHANGED <<rows, saved, base>> /\ ~Selected' /\ (sync' # None => sync'.stage = "scan")
    BY <1>1 DEF Begin, cache, Selected
  <2> QED BY <1>0, <2>1 DEF BoundOK, KnownOK, SoughtOK, DoneOK, NoGap, Current
<1>2. CASE Scan
  <2> DEFINE now == [epoch |-> epoch, next |-> next, unseen |-> Cardinality(Unseen)]
  <2>1. sync' = [sync EXCEPT
         !.session = epoch, !.status = now,
         !.initial = saved = None \/ Changed(now),
         !.known = IF saved = None \/ Changed(now) THEN {} ELSE DOMAIN rows,
         !.stage = CASE Changed(now) -> "purge"
                     [] saved = None /\ DOMAIN rows # {} -> "purge"
                     [] saved = None /\ DOMAIN rows = {} -> "unseen"
                     [] OTHER -> "new"]
    BY <1>2 DEF Scan, Answers
  <2>2. /\ sync'.session = epoch /\ sync'.status.next = next /\ sync'.known \subseteq DOMAIN rows
        /\ sync'.initial \/ sync'.stage = "new"
        /\ sync'.stage \in {"purge", "unseen", "new"}
    BY <1>2, <2>1, GapTypes DEF Scan, At, SyncStates
  <2>3. UNCHANGED <<rows, saved, base>> BY <1>2 DEF Scan, cache
  <2> HIDE DEF now
  <2> QED BY <1>0, <2>2, <2>3, GapTypes DEF BoundOK, KnownOK, SoughtOK, DoneOK, NoGap, Current, Selected
<1>3. CASE Purge
  <2>1. Selected /\ sync.initial /\ sync' = [sync EXCEPT !.stage = IF saved = None THEN "unseen" ELSE "forget"]
    BY <1>0, <1>3 DEF Purge, At, Goes, Selected, SessionOK
  <2>2. /\ sync'.initial /\ sync'.session = sync.session /\ sync'.status = sync.status /\ Selected
        /\ sync'.stage \in {"forget", "unseen"}
    BY <2>1, GapTypes DEF SyncStates, Selected
  <2>3. ~Current BY <1>0, <1>3, <2>1, GapTypes DEF Purge, At, Current, PhaseOK
  <2> QED BY <1>0, <1>3, <2>2, <2>3 DEF Purge, BoundOK, KnownOK, SoughtOK, DoneOK, NoGap, Current, Selected
<1>4. CASE Forget
  <2>1. /\ sync'.initial /\ sync'.session = sync.session /\ sync'.status = sync.status /\ Selected
        /\ sync'.stage = "unseen"
    BY <1>0, <1>4, GapTypes DEF Forget, At, Goes, SyncStates, Selected, SessionOK
  <2> QED BY <1>0, <1>4, <2>1 DEF Forget, BoundOK, KnownOK, SoughtOK, DoneOK, NoGap, Current, Selected
<1>5. CASE SearchUnseen
  <2>1. /\ sync'.initial /\ sync'.session = sync.session /\ sync'.status.next = sync.status.next /\ Selected
        /\ sync'.stage = "since"
    BY <1>0, <1>5, GapTypes DEF SearchUnseen, At, SyncStates, Selected, SessionOK
  <2> QED BY <1>0, <1>5, <2>1 DEF SearchUnseen, cache, BoundOK, KnownOK, SoughtOK, DoneOK, NoGap, Current, Selected
<1>6. CASE SearchSince
  <2>1. /\ sync'.initial /\ sync'.session = sync.session /\ sync'.status = sync.status /\ Selected
        /\ sync'.stage \in {"page", "fetch"}
    BY <1>0, <1>6, GapTypes DEF SearchSince, At, SyncStates, Selected, SessionOK
  <2> QED BY <1>0, <1>6, <2>1 DEF SearchSince, cache, BoundOK, KnownOK, SoughtOK, DoneOK, NoGap, Current, Selected
<1>7. CASE SearchPage
  <2>1. /\ sync'.initial = sync.initial /\ sync'.session = sync.session /\ sync'.status = sync.status
        /\ sync'.known = sync.known /\ sync.todo \ sync.known \subseteq sync'.todo
        /\ sync.stage = "page" /\ sync'.stage = "fetch"
    BY <1>7, GapTypes DEF SearchPage, At, SyncStates
  <2>2. UNCHANGED <<rows, saved, base>> BY <1>7 DEF SearchPage, cache
  <2>3. Selected BY <1>7 DEF SearchPage, At, Selected
  <2>4. BoundOK' /\ KnownOK' /\ DoneOK' /\ NoGap'
    BY <1>0, <2>1, <2>2, <2>3 DEF BoundOK, KnownOK, DoneOK, NoGap, Current, Selected
  <2>5. SoughtOK' BY <1>0, <2>1, <2>2, <2>3 DEF SoughtOK, KnownOK, Selected
  <2> QED BY <2>4, <2>5
<1>8. CASE SearchNew
  <2>0. Selected /\ ~sync.initial /\ saved # None /\ sync.stage = "new"
    BY <1>0, <1>8 DEF SearchNew, At, Selected, SessionOK, PhaseOK
  <2>1. sync' = [sync EXCEPT !.stage = "fetch", !.todo = From(saved.next) \ sync.known]
    BY <1>0, <1>8, <2>0 DEF SearchNew, BoundOK
  <2>2. /\ sync'.initial = sync.initial /\ sync'.session = sync.session /\ sync'.status = sync.status
        /\ sync'.known = sync.known /\ sync'.todo = From(saved.next) \ sync.known
        /\ sync'.stage = "fetch"
    BY <2>0, <2>1, GapTypes DEF Selected, SyncStates
  <2>3. UNCHANGED <<rows, saved, base>> BY <1>8 DEF SearchNew, cache
  <2>4. BoundOK' /\ KnownOK' /\ DoneOK' /\ NoGap'
    BY <1>0, <2>0, <2>2, <2>3 DEF BoundOK, KnownOK, DoneOK, NoGap, Current, Selected
  <2>5. SoughtOK'
    <3>1. \A u \in DOMAIN box : saved.next <= u => u \in From(saved.next)
      BY <2>0, GapTypes DEF From
    <3> QED BY <1>0, <2>0, <2>2, <2>3, <3>1 DEF SoughtOK, KnownOK, Selected
  <2> QED BY <2>4, <2>5
<1>9. CASE Fetch
  <2>1. PICK u : /\ sync' = [sync EXCEPT !.todo = @ \ {u},
                      !.added = IF u \in DOMAIN box THEN @ \union {u} ELSE @]
                 /\ rows' = IF u \in DOMAIN box THEN Upserted(u, Row(u)) ELSE rows
    BY <1>0, <1>9 DEF Fetch, Answers
  <2>2. /\ sync'.initial = sync.initial /\ sync'.session = sync.session /\ sync'.status = sync.status
        /\ sync'.known = sync.known /\ sync'.todo = sync.todo \ {u} /\ sync'.stage = sync.stage
        /\ Selected /\ sync.stage = "fetch"
    BY <1>9, <2>1, GapTypes DEF Fetch, At, SyncStates, Selected
  <2>3. DOMAIN rows' = DOMAIN rows \union ({u} \intersect DOMAIN box) BY <2>1 DEF Upserted
  <2>4. UNCHANGED <<saved, base>> BY <1>9 DEF Fetch
  <2>5. BoundOK' /\ KnownOK' /\ DoneOK' /\ NoGap'
    BY <1>0, <2>2, <2>3, <2>4 DEF BoundOK, KnownOK, DoneOK, NoGap, Current, Selected
  <2>6. SoughtOK' BY <1>0, <2>2, <2>3, <2>4 DEF SoughtOK, Selected
  <2> QED BY <2>5, <2>6
<1>10. CASE FetchDone
  <2>0. sync \in SyncStates /\ sync.todo = {} /\ sync.stage = "fetch" /\ Selected
    BY <1>10, GapTypes DEF FetchDone, At, Selected
  <2>1. /\ sync'.initial = sync.initial /\ sync'.session = sync.session /\ sync'.status = sync.status
        /\ sync'.todo = sync.todo /\ sync'.stage \in {"page", "count", "flags"}
        /\ sync'.stage = "page" => sync'.known = sync.known
    <3>1. CASE WantsPage BY <1>10, <2>0, <3>1 DEF FetchDone, Goes, SyncStates
    <3>2. CASE ~WantsPage
      <4>1. sync' = [sync EXCEPT !.page = FALSE, !.known = {}, !.left = sync.known,
                                 !.stage = IF sync.known = {} THEN "count" ELSE "flags"]
        BY <1>10, <3>2 DEF FetchDone
      <4> QED BY <2>0, <4>1 DEF SyncStates
    <3> QED BY <3>1, <3>2
  <2>2. UNCHANGED <<rows, saved, base>> BY <1>10 DEF FetchDone, cache
  <2>3. BoundOK' /\ KnownOK' /\ DoneOK' /\ NoGap'
    BY <1>0, <2>0, <2>1, <2>2 DEF BoundOK, KnownOK, DoneOK, NoGap, Current, Selected
  <2>4. SoughtOK' BY <1>0, <2>0, <2>1, <2>2 DEF SoughtOK, Selected
  <2> QED BY <2>3, <2>4
<1>11. CASE FetchFlags \/ ApplyFlags \/ Verify \/ Count
  <2>1. /\ sync'.initial = sync.initial /\ sync'.session = sync.session /\ sync'.status = sync.status
        /\ sync'.todo = sync.todo /\ sync'.stage \in {"apply", "verify", "count", "flags", "save"}
        /\ sync.stage \in {"apply", "verify", "count", "flags"} /\ Selected
    <3>1. sync \in SyncStates /\ sync.stage \in {"apply", "verify", "count", "flags"} /\ Selected
      BY <1>11, GapTypes DEF FetchFlags, ApplyFlags, Verify, Count, At, Selected
    <3>2. CASE FetchFlags BY <3>1, <3>2 DEF FetchFlags, SyncStates
    <3>3. CASE ApplyFlags BY <3>1, <3>3 DEF ApplyFlags, SyncStates
    <3>4. CASE Verify BY <3>1, <3>4 DEF Verify, SyncStates
    <3>5. CASE Count BY <3>1, <3>5 DEF Count, Goes, SyncStates
    <3> QED BY <1>11, <3>1, <3>2, <3>3, <3>4, <3>5
  <2>2. UNCHANGED <<saved, base>> BY <1>11 DEF FetchFlags, ApplyFlags, Verify, Count, cache
  <2>3. \A u \in DOMAIN box : u \in DOMAIN rows => u \in DOMAIN rows'
    <3>1. CASE Verify
      <4>1. rows' = Without(rows, sync.chunk \ (sync.chunk \intersect DOMAIN box))
        BY <1>0, <3>1 DEF Verify
      <4> QED BY <4>1 DEF Without
    <3> QED BY <1>11, <3>1 DEF FetchFlags, ApplyFlags, Count, cache
  <2>4. BoundOK' /\ KnownOK' /\ DoneOK' /\ NoGap'
    BY <1>0, <2>1, <2>2, <2>3 DEF BoundOK, KnownOK, DoneOK, NoGap, Current, Selected
  <2>5. SoughtOK' BY <1>0, <2>1, <2>2, <2>3 DEF SoughtOK, Selected
  <2> QED BY <2>4, <2>5
<1>12. CASE Save
  <2>1. /\ Selected /\ sync.status.epoch = sync.session /\ sync.stage = "save"
        /\ saved' = [epoch |-> sync.session, next |-> sync.status.next]
        /\ base' = IF sync.initial THEN sync.status.next ELSE base
        /\ sync' = None /\ rows' = rows
    BY <1>0, <1>12 DEF Save, At, Selected, SessionOK
  <2>2. BoundOK' /\ KnownOK' /\ SoughtOK' /\ DoneOK'
    BY <1>0, <2>1, GapTypes DEF BoundOK, KnownOK, SoughtOK, DoneOK, Selected, Current
  <2>3. NoGap'
    <3> SUFFICES ASSUME Current', NEW u \in DOMAIN box, base' <= u, u < sync.status.next
                 PROVE  u \in DOMAIN rows
      BY <1>0, <2>1 DEF NoGap
    <3>1. sync.session = epoch BY <1>0, <2>1 DEF Current
    <3>2. u \in Nat BY GapTypes
    <3>3. ~sync.initial BY <2>1, <3>2, GapTypes
    <3>4. saved # None /\ saved.epoch = epoch /\ base' = base
      BY <1>0, <2>1, <3>1, <3>3 DEF PhaseOK
    <3>5. sync.todo = {} BY <1>0, <2>1 DEF DoneOK, Selected
    <3>6. CASE u < saved.next BY <1>0, <3>4, <3>6 DEF NoGap, Current
    <3>7. CASE saved.next <= u BY <1>0, <2>1, <3>1, <3>3, <3>5, <3>7 DEF SoughtOK
    <3> QED BY <3>2, <3>4, <3>6, <3>7, GapTypes
  <2> QED BY <2>2, <2>3
<1>13. CASE Fail
  <2>1. UNCHANGED <<rows, saved, base>> /\ ~Selected' /\ sync' = None BY <1>13 DEF Fail, cache, Selected
  <2> QED BY <1>0, <2>1 DEF BoundOK, KnownOK, SoughtOK, DoneOK, NoGap, Current
<1> QED BY <1>1, <1>2, <1>3, <1>4, <1>5, <1>6, <1>7, <1>8, <1>9, <1>10, <1>11, <1>12, <1>13 DEF Work

\* A mark request changes flags: no message, no row comes or goes.
LEMMA MarkGaps ==
  ASSUME GapInv, Marking
  PROVE  BoundOK' /\ KnownOK' /\ SoughtOK' /\ DoneOK' /\ NoGap'
<1>1. UNCHANGED <<epoch, next, saved, base, sync>>
  BY DEF Marking, MarkBegin, MarkStore, MarkWrite, MarkFails, server, cache
<1>2. DOMAIN box' = DOMAIN box
  BY DEF Marking, MarkBegin, MarkStore, MarkWrite, MarkFails, server
<1>3. DOMAIN rows' = DOMAIN rows
  BY DEF Marking, MarkBegin, MarkStore, MarkWrite, MarkFails, cache
<1> QED
  BY <1>1, <1>2, <1>3 DEF GapInv, BoundOK, KnownOK, SoughtOK, DoneOK, NoGap, Current, Selected

\* GapInv is inductive if the server refuses nothing.
LEMMA GapStep ==
  ASSUME Refused = {}, GapInv, [FolderNext]_folderVars
  PROVE  GapInv'
<1>1. EpochInv' BY EpochStep DEF GapInv
<1>2. CASE Server
  <2>0. next \in Nat /\ epoch \in Nat BY GapTypes
  <2>1. UNCHANGED <<cache, sync>> BY <1>2 DEF Server, Arrive, Expunge, Flagged, Recreate
  <2>2. \/ /\ epoch' = epoch /\ next' \in Nat /\ next <= next'
           /\ \A u \in DOMAIN box' : u \in DOMAIN box \/ u = next
        \/ epoch' = epoch + 1
    <3>1. CASE Arrive BY <2>0, <3>1 DEF Arrive
    <3>2. CASE Expunge BY <2>0, <3>2 DEF Expunge, Without
    <3>3. CASE Flagged BY <2>0, <3>3 DEF Flagged
    <3>4. CASE Recreate BY <3>4 DEF Recreate
    <3> QED BY <1>2, <3>1, <3>2, <3>3, <3>4 DEF Server
  <2> QED BY <1>1, <2>1, <2>2, GapRests DEF GapInv
<1>3. CASE Begin \/ Work \/ Fail BY <1>1, <1>3, WorkGaps DEF GapInv
<1>4. CASE Marking BY <1>1, <1>4, MarkGaps DEF GapInv
<1>5. CASE UNCHANGED folderVars
  <2>1. UNCHANGED <<cache, sync, epoch, next, box>> BY <1>5 DEF folderVars, server
  <2> QED BY <1>1, <2>1, GapRests, GapTypes DEF GapInv
<1> QED BY <1>2, <1>3, <1>4, <1>5 DEF FolderNext

\* NoGap: if the server refuses nothing, whatever arrived after the initial sync
\* and is below the stored uidnext has a row while it is on the server.
THEOREM NothingFallsThrough == ASSUME Refused = {} PROVE FolderSpec => []NoGap
<1>1. FolderInit => GapInv
  BY InitType, SyncAssumption
     DEF FolderInit, GapInv, EpochInv, SessionOK, PhaseOK, Selected, SavedOK, OneEpoch,
         BoundOK, KnownOK, SoughtOK, DoneOK, NoGap, Current
<1>2. GapInv /\ [FolderNext]_folderVars => GapInv' BY GapStep
<1>3. GapInv => NoGap BY DEF GapInv
<1> QED BY <1>1, <1>2, <1>3, PTL DEF FolderSpec

==============================================================================
