----------------------------- MODULE SyncQueue -----------------------------
(***************************************************************************)
(* The sync queue of app/workers/manager.py: enqueue_sync, the pending     *)
(* set that makes requests for one folder collapse into one, the priority  *)
(* queue ordered by run_at, and the worker loop (_run, _process_queue,     *)
(* _schedule_background_checks) that drains it and retries what failed.    *)
(*                                                                         *)
(* enqueue_sync tests and sets `_pending` under the lock and calls         *)
(* queue.put after it, so a request is two steps here: Claim and Put.      *)
(* Time is abstract: a task whose run_at lies in the future is in `later`, *)
(* and TimePasses moves it to the end of `due`, which is therefore in      *)
(* run_at order, the order in which the PriorityQueue hands tasks out.     *)
(*                                                                         *)
(* A definition named Slip... is the definition after it with one mistake, *)
(* the kind a change to the code could make. Nothing here uses it: it is   *)
(* put in that definition's place to see that a property notices.          *)
(***************************************************************************)
EXTENDS Naturals, Sequences

CONSTANTS
  Accounts,    \* mail accounts
  Users,       \* customers: the session key is kept per customer
  Owner,       \* account |-> its customer
  Folders,     \* folder names as callers spell them
  FolderKeys,  \* lower-cased folder names
  Lower,       \* folder name |-> lower-cased name
  Requesters,  \* request handlers and IDLE workers, the threads that enqueue
  Loop,        \* the manager's own thread
  MaxAttempt,  \* length of _retry_schedule: later attempts wait the same time
  NoTask

ASSUME QueueAssumption ==
  /\ Owner \in [Accounts -> Users]
  /\ Lower \in [Folders -> FolderKeys]
  /\ Loop \notin Requesters
  /\ MaxAttempt \in Nat \ {0}

Threads == Requesters \union {Loop}

\* "open" stands for the reasons that ask for the recent page (folder_open,
\* login, account_switch, cache_reset), "watch" for idle, polling, background
\* and push_arm, "retry" for retry_backoff, the only one that has a delay.
Reasons == {"open", "watch", "retry"}
Task == [account : Accounts, folder : Folders, reason : Reasons]
Keys == Accounts \X FolderKeys

ASSUME NoTaskAssumption == NoTask \notin Task

VARIABLES
  pending,   \* _pending
  putting,   \* the task a thread has claimed and not put yet
  due,       \* queued tasks whose run_at has passed, in run_at order
  later,     \* queued tasks whose run_at lies in the future
  step,      \* where the loop is
  job,       \* the task the loop has taken
  live,      \* account.is_active as the loop read it during the sync
  attempts,  \* _retry_attempts, counted up to MaxAttempt
  active,    \* accounts that exist and are active in the database
  keyed      \* users whose key is in memory (app/shared/keys.py)

queueVars == <<pending, putting, due, later>>
loopVars == <<step, job, live>>
vars == <<pending, putting, due, later, step, job, live, attempts, active, keyed>>

KeyOf(task) == <<task.account, Lower[task.folder]>>

Init ==
  /\ pending = {}
  /\ putting = [t \in Threads |-> NoTask]
  /\ due = <<>>
  /\ later = {}
  /\ step = "queue"
  /\ job = NoTask
  /\ live = FALSE
  /\ attempts = [k \in Keys |-> 0]
  /\ active \in SUBSET Accounts
  /\ keyed = {}

-----------------------------------------------------------------------------
(* enqueue_sync *)

SlipClaimUnguarded(t, task) ==
  /\ putting[t] = NoTask
  /\ pending' = pending \union {KeyOf(task)}
  /\ putting' = [putting EXCEPT ![t] = task]

\* The locked half: refuse a key that is pending already, else mark it.
Claim(t, task) ==
  /\ putting[t] = NoTask
  /\ KeyOf(task) \notin pending
  /\ pending' = pending \union {KeyOf(task)}
  /\ putting' = [putting EXCEPT ![t] = task]

\* The unlocked half: put the task in the queue, to run now or after a delay.
Put(t) ==
  /\ putting[t] # NoTask
  /\ putting' = [putting EXCEPT ![t] = NoTask]
  /\ \/ /\ putting[t].reason = "retry"
        /\ later' = later \union {putting[t]}
        /\ due' = due
     \/ /\ putting[t].reason # "retry"
        /\ due' = Append(due, putting[t])
        /\ later' = later
  /\ UNCHANGED <<pending, loopVars, attempts, active, keyed>>

\* A request handler or an IDLE worker asks for a sync of a folder.
Request(t, task) ==
  /\ task.reason # "retry"
  /\ Claim(t, task)
  /\ UNCHANGED <<due, later, loopVars, attempts, active, keyed>>

\* The clock reaches the run_at of a delayed task.
TimePasses(task) ==
  /\ task \in later
  /\ later' = later \ {task}
  /\ due' = Append(due, task)
  /\ UNCHANGED <<pending, putting, loopVars, attempts, active, keyed>>

-----------------------------------------------------------------------------
(* _process_queue *)

Take ==
  /\ step = "queue"
  /\ putting[Loop] = NoTask
  /\ due # <<>>
  /\ job' = Head(due)
  /\ due' = Tail(due)
  /\ step' = "check"
  /\ UNCHANGED <<pending, putting, later, live, attempts, active, keyed>>

Runnable(task) ==
  /\ task.account \in active
  /\ Owner[task.account] \in keyed

\* _clear_retry: forget the failures of a key.
Cleared(k) == [attempts EXCEPT ![k] = 0]

SlipDropKeepsKey ==
  /\ step = "check"
  /\ attempts' = Cleared(KeyOf(job))
  /\ job' = NoTask
  /\ step' = "queue"
  /\ UNCHANGED <<queueVars, live, active, keyed>>

\* The account is gone or inactive, its key is missing, or the lookup itself
\* raised: the task is dropped without a retry, whichever it was.
Drop ==
  /\ step = "check"
  /\ attempts' = Cleared(KeyOf(job))
  /\ pending' = pending \ {KeyOf(job)}
  /\ job' = NoTask
  /\ step' = "queue"
  /\ UNCHANGED <<putting, due, later, live, active, keyed>>

StartSync ==
  /\ step = "check"
  /\ Runnable(job)
  /\ step' = "sync"
  /\ UNCHANGED <<queueVars, job, live, attempts, active, keyed>>

SyncSucceeds ==
  /\ step = "sync"
  /\ attempts' = Cleared(KeyOf(job))
  /\ pending' = pending \ {KeyOf(job)}
  /\ job' = NoTask
  /\ step' = "queue"
  /\ UNCHANGED <<putting, due, later, live, active, keyed>>

SlipFailUncapped ==
  /\ step = "sync"
  /\ attempts' = [attempts EXCEPT ![KeyOf(job)] = @ + 1]
  /\ pending' = pending \ {KeyOf(job)}
  /\ live' \in {TRUE, job.account \in active}
  /\ step' = "requeue"
  /\ UNCHANGED <<putting, due, later, job, active, keyed>>

SlipFailKeepsKey ==
  /\ step = "sync"
  /\ attempts' = [attempts EXCEPT ![KeyOf(job)] = IF @ < MaxAttempt THEN @ + 1 ELSE @]
  /\ live' \in {TRUE, job.account \in active}
  /\ step' = "requeue"
  /\ UNCHANGED <<queueVars, job, active, keyed>>

\* sync_account returned False or raised: count the failure, release the key.
\* is_active was last read at some moment of the sync, true at its start.
SyncFails ==
  /\ step = "sync"
  /\ attempts' = [attempts EXCEPT ![KeyOf(job)] = IF @ < MaxAttempt THEN @ + 1 ELSE @]
  /\ pending' = pending \ {KeyOf(job)}
  /\ live' \in {TRUE, job.account \in active}
  /\ step' = "requeue"
  /\ UNCHANGED <<putting, due, later, job, active, keyed>>

RetryOf(task) == [task EXCEPT !.reason = "retry"]

SlipRequeueForgets ==
  /\ step = "requeue"
  /\ step' = "queue"
  /\ job' = NoTask
  /\ UNCHANGED <<queueVars, live, attempts, active, keyed>>

\* After `finally`: ask again for the folder, unless somebody did meanwhile or
\* the account was found inactive.
Requeue ==
  /\ step = "requeue"
  /\ \/ live /\ Claim(Loop, RetryOf(job))
     \/ /\ ~live \/ KeyOf(job) \in pending
        /\ UNCHANGED <<pending, putting>>
  /\ step' = "queue"
  /\ job' = NoTask
  /\ UNCHANGED <<due, later, live, attempts, active, keyed>>

-----------------------------------------------------------------------------
(* _schedule_background_checks *)

\* Nothing is due: a delayed task at the head of the queue is put back.
QueueDrained ==
  /\ step = "queue"
  /\ putting[Loop] = NoTask
  /\ due = <<>>
  /\ step' = "checks"
  /\ UNCHANGED <<queueVars, job, live, attempts, active, keyed>>

BackgroundCheck(task) ==
  /\ step = "checks"
  /\ task.reason = "watch"
  /\ Runnable(task)
  /\ Claim(Loop, task)
  /\ UNCHANGED <<due, later, loopVars, attempts, active, keyed>>

EndChecks ==
  /\ step = "checks"
  /\ putting[Loop] = NoTask
  /\ step' = "queue"
  /\ UNCHANGED <<queueVars, job, live, attempts, active, keyed>>

-----------------------------------------------------------------------------
(* What other parts of the program do to the state the loop reads. *)

\* clear_active_customer: _clear_retry_for_account of the account that was active.
ClearActiveCustomer(a) ==
  /\ attempts' = [k \in Keys |-> IF k[1] = a THEN 0 ELSE attempts[k]]
  /\ UNCHANGED <<queueVars, loopVars, active, keyed>>

\* set_user_key at login or by push arming; clear_user_key at logout.
SetUserKey(u) ==
  /\ keyed' = keyed \union {u}
  /\ UNCHANGED <<queueVars, loopVars, attempts, active>>

ClearUserKey(u) ==
  /\ keyed' = keyed \ {u}
  /\ UNCHANGED <<queueVars, loopVars, attempts, active>>

\* An administrator (de)activates an account, or it is created or deleted.
ToggleAccount(a) ==
  /\ active' = IF a \in active THEN active \ {a} ELSE active \union {a}
  /\ UNCHANGED <<queueVars, loopVars, attempts, keyed>>

-----------------------------------------------------------------------------

LoopStep ==
  \/ Put(Loop)
  \/ Take
  \/ Drop
  \/ StartSync
  \/ SyncSucceeds
  \/ SyncFails
  \/ Requeue
  \/ QueueDrained
  \/ EndChecks

RequesterStep == \E t \in Requesters, task \in Task : Request(t, task)

Environment ==
  \/ \E a \in Accounts : ClearActiveCustomer(a) \/ ToggleAccount(a)
  \/ \E u \in Users : SetUserKey(u) \/ ClearUserKey(u)

Next ==
  \/ RequesterStep
  \/ \E t \in Requesters : Put(t)
  \/ \E task \in Task : TimePasses(task) \/ BackgroundCheck(task)
  \/ LoopStep
  \/ Environment

\* The loop's thread and a thread between lock and put keep running (a sync
\* ends: its sockets have timeouts), and the clock advances. Nobody has to ask.
Fairness ==
  /\ WF_vars(LoopStep)
  /\ \A t \in Requesters : WF_vars(Put(t))
  /\ \A task \in Task : WF_vars(TimePasses(task))

Spec == Init /\ [][Next]_vars /\ Fairness

-----------------------------------------------------------------------------
(* Properties *)

\* Type invariant: the queue state of WorkerManager.
TypeOK ==
  /\ pending \subseteq Keys
  /\ putting \in [Threads -> Task \union {NoTask}]
  /\ due \in Seq(Task)
  /\ later \subseteq Task
  /\ step \in {"queue", "check", "sync", "requeue", "checks"}
  /\ job \in Task \union {NoTask}
  /\ job = NoTask <=> step \in {"queue", "checks"}
  /\ live \in BOOLEAN
  /\ attempts \in [Keys -> 0..MaxAttempt]
  /\ active \subseteq Accounts
  /\ keyed \subseteq Users

\* The keys of the tasks in each place a task can be.
BeingPut == {KeyOf(putting[t]) : t \in {th \in Threads : putting[th] # NoTask}}
InDue == {KeyOf(due[i]) : i \in 1..Len(due)}
InLater == {KeyOf(task) : task \in later}
Busy == IF step \in {"check", "sync"} THEN {KeyOf(job)} ELSE {}

\* No two places, and no two slots of one place, hold tasks of the same key.
Distinct ==
  /\ \A s, t \in Threads :
       putting[s] # NoTask /\ putting[t] # NoTask /\ KeyOf(putting[s]) = KeyOf(putting[t])
         => s = t
  /\ \A i, j \in 1..Len(due) : KeyOf(due[i]) = KeyOf(due[j]) => i = j
  /\ \A x, y \in later : KeyOf(x) = KeyOf(y) => x = y

Apart ==
  /\ BeingPut \intersect (InDue \union InLater \union Busy) = {}
  /\ InDue \intersect (InLater \union Busy) = {}
  /\ InLater \intersect Busy = {}

\* A folder has at most one task at a time, claimed, queued, backing off or
\* running: two syncs of one folder never write its cache rows concurrently,
\* although enqueue_sync queues outside the lock and the loop releases the key
\* before it asks for the retry.
OneTaskPerKey == Distinct /\ Apart

\* A key is in _pending exactly while such a task exists. A key left behind
\* would refuse every later request for the folder; a key missing would let a
\* second task in.
PendingExact == pending = BeingPut \union InDue \union InLater \union Busy

\* Every accepted request leaves the queue: whatever fails, is dropped or backs
\* off, no key stays pending for ever.
PendingEnds == \A k \in Keys : k \in pending ~> k \notin pending

\* M12c: a folder whose sync failed is taken up again, also when another
\* thread's request slips in between `finally` and the retry's enqueue_sync.
FailedIsRetried ==
  \A k \in Keys :
    (step = "requeue" /\ live /\ KeyOf(job) = k) ~> (step = "check" /\ KeyOf(job) = k)

\* The queue implements one job per folder (FolderJobs): a key waits from its
\* Claim until the loop takes the task, and runs until `finally` releases it.
NoKey == <<NoTask>>
Jobs == INSTANCE FolderJobs WITH
  waiting <- pending \ Busy,
  running <- IF Busy = {} THEN NoKey ELSE KeyOf(job)

ImplementsJobs == Jobs!Spec
JobsSafety == Jobs!Init /\ [][Jobs!Next]_(Jobs!vars)

=============================================================================
