----------------------------- MODULE IdleWatch -----------------------------
(***************************************************************************)
(* Who watches which mailbox: the active account and folder of each        *)
(* customer, push arming and the _IdleWorker threads of                    *)
(* app/workers/manager.py, with the keys of app/shared/keys.py and         *)
(* push_keys.py they depend on.                                            *)
(*                                                                         *)
(* A method that holds the lock throughout is one action. arm_push_user    *)
(* and disarm_push_user change the armed sets under the lock and visit the *)
(* accounts one by one after it, and the loop visits a list it copied      *)
(* earlier: the accounts still to visit are state (arming, disarming,      *)
(* visiting). A thread that has ended gives its id back to the pool; the   *)
(* registry may still name it, as _idle_workers names a dead thread.       *)
(*                                                                         *)
(* A definition named Slip... is the definition after it with one mistake. *)
(***************************************************************************)
EXTENDS Naturals, FiniteSets

CONSTANTS
  Users, Accounts, Owner,
  Folders, INBOX,
  Workers,    \* thread ids, the bound on threads alive at once
  Threshold,  \* IDLE_DISABLE_THRESHOLD
  MaxCalls,   \* the bound on calls by users and administrators and on restarts
  None

ASSUME WatchAssumption ==
  /\ Owner \in [Accounts -> Users]
  /\ INBOX \in Folders
  /\ Threshold \in Nat \ {0} /\ MaxCalls \in Nat
  /\ None \notin Accounts \union Folders \union Workers

Watches == Accounts \X Folders

ASSUME NoWatchAssumption == None \notin Watches

VARIABLES
  current,        \* _active_accounts: customer |-> account
  selected,       \* _active_folders: account |-> folder
  supported,      \* accounts not marked False in _idle_supported
  armedUsers,     \* _push_armed_users
  armedAccounts,  \* _push_armed_accounts
  registry,       \* _idle_workers: watch |-> thread
  thread,         \* the _IdleWorker threads
  arming,         \* accounts an arm_push_user call has yet to visit
  disarming,      \* accounts a disarm_push_user call has yet to stop
  visiting,       \* watched_accounts the loop has yet to visit
  keyed,          \* users whose key is in memory
  stored,         \* users with a push_key_store row
  enabled,        \* accounts active in the database
  serving,        \* accounts whose domain is active
  calls           \* how many calls were made

manager == <<current, selected, supported, armedUsers, armedAccounts>>
pending == <<arming, disarming, visiting>>
keys == <<keyed, stored>>
flags == <<enabled, serving>>
vars == <<manager, registry, thread, pending, keys, flags, calls>>

Dead == [watch |-> None, at |-> "dead", stop |-> FALSE, failures |-> 0]
Fresh(k) == [watch |-> k, at |-> "top", stop |-> FALSE, failures |-> 0]

AccountsOf(u) == {a \in Accounts : Owner[a] = u}
WatchesOf(a) == {a} \X Folders

Init ==
  /\ current = [u \in Users |-> None]
  /\ selected = [a \in Accounts |-> None]
  /\ supported = Accounts
  /\ registry = [k \in Watches |-> None]
  /\ thread = [w \in Workers |-> Dead]
  /\ armedUsers = {} /\ armedAccounts = {}
  /\ arming = {} /\ disarming = {} /\ visiting = {}
  /\ keyed = {} /\ stored = {}
  /\ enabled = Accounts /\ serving = Accounts
  /\ calls = 0

-----------------------------------------------------------------------------
(* _ensure_idle, _stop_idle and _stop_idle_for_account, as functions of the *)
(* registry and the threads so that a handler can apply several in a row.  *)

Pool == [registry |-> registry, thread |-> thread]

Serves(pool, w, k) == w # None /\ pool.thread[w].watch = k

SlipStop(pool, ks) ==
  [pool EXCEPT !.registry = [k \in Watches |-> IF k \in ks THEN None ELSE @[k]]]

\* Drop the watches from the registry and tell their threads to stop.
Stop(pool, ks) ==
  [registry |-> [k \in Watches |-> IF k \in ks THEN None ELSE pool.registry[k]],
   thread |-> [w \in Workers |->
     IF \E k \in ks : pool.registry[k] = w /\ Serves(pool, w, k)
     THEN [pool.thread[w] EXCEPT !.stop = TRUE]
     ELSE pool.thread[w]]]

Idle(pool) == {w \in Workers : pool.thread[w].at = "dead"}

\* Start a thread for the watch unless IDLE is marked unsupported or the
\* registered thread is alive.
Ensure(pool, ok, k) ==
  IF ~ok \/ Serves(pool, pool.registry[k], k) THEN pool
  ELSE LET w == CHOOSE x \in Idle(pool) : TRUE
       IN  [registry |-> [pool.registry EXCEPT ![k] = w],
            thread |-> [pool.thread EXCEPT ![w] = Fresh(k)]]

\* The bound: a handler runs only while threads are left for it to start.
Room(n) == Cardinality(Idle(Pool)) >= n

Becomes(pool) == registry' = pool.registry /\ thread' = pool.thread

-----------------------------------------------------------------------------
(* Sessions *)

\* set_user_key at login, after the password and the second factor.
Login(u) ==
  /\ keyed' = keyed \union {u}
  /\ UNCHANGED <<manager, registry, thread, pending, stored, flags>>

\* set_active_account
SetActiveAccount(u, a) ==
  /\ u \in keyed /\ Owner[a] = u /\ a \in enabled
  /\ current[u] # a
  /\ Room(1)
  /\ current' = [current EXCEPT ![u] = a]
  /\ selected' = [selected EXCEPT ![a] = INBOX]
  /\ supported' = supported \union {a}
  /\ LET left == IF current[u] = None THEN {} ELSE WatchesOf(current[u])
     IN  Becomes(Ensure(Stop(Pool, left), TRUE, <<a, INBOX>>))
  /\ UNCHANGED <<armedUsers, armedAccounts, pending, keys, flags>>

\* set_active_folder, called for the account just made active
SetActiveFolder(a, f) ==
  /\ current[Owner[a]] = a /\ Owner[a] \in keyed
  /\ Room(Cardinality({f, INBOX}))
  /\ selected' = [selected EXCEPT ![a] = f]
  /\ LET left == IF selected[a] \in {None, INBOX} THEN {} ELSE {<<a, selected[a]>>}
         ok == a \in supported
         moved == Ensure(Stop(Pool, left), ok, <<a, f>>)
     IN  Becomes(Ensure(moved, ok, <<a, INBOX>>))
  /\ UNCHANGED <<current, supported, armedUsers, armedAccounts, pending, keys, flags>>

\* logout: clear_user_key unless push can re-arm it, then clear_active_customer,
\* which leaves the watches of a push-armed account alone.
Logout(u) ==
  /\ current[u] # None
  /\ keyed' = IF u \in stored THEN keyed ELSE keyed \ {u}
  /\ current' = [current EXCEPT ![u] = None]
  /\ selected' = [selected EXCEPT ![current[u]] = None]
  /\ Becomes(Stop(Pool, IF current[u] \in armedAccounts THEN {} ELSE WatchesOf(current[u])))
  /\ UNCHANGED <<supported, armedUsers, armedAccounts, pending, stored, flags>>

-----------------------------------------------------------------------------
(* Push arming *)

\* arm_push_user up to the end of its locked part, after subscribing or a login
\* stored the key.
Arm(u) ==
  /\ u \in keyed
  /\ stored' = stored \union {u}
  /\ armedUsers' = armedUsers \union {u}
  /\ armedAccounts' = armedAccounts \union (AccountsOf(u) \intersect enabled)
  /\ arming' = arming \union (AccountsOf(u) \intersect enabled)
  /\ UNCHANGED <<current, selected, supported, registry, thread, disarming, visiting, keyed, flags>>

\* One turn of its loop over the accounts.
ArmAccount(a) ==
  /\ a \in arming
  /\ Room(1)
  /\ arming' = arming \ {a}
  /\ Becomes(Ensure(Pool, a \in supported, <<a, INBOX>>))
  /\ UNCHANGED <<manager, disarming, visiting, keys, flags>>

\* The last subscription is removed: clear_push_dek, then the locked part of
\* disarm_push_user, which passes over the accounts that are active now.
Disarm(u) ==
  /\ u \in stored
  /\ stored' = stored \ {u}
  /\ armedUsers' = armedUsers \ {u}
  /\ LET headless == {a \in AccountsOf(u) \intersect enabled : current[u] # a}
     IN  /\ armedAccounts' = armedAccounts \ headless
         /\ disarming' = disarming \union headless
  /\ UNCHANGED <<current, selected, supported, registry, thread, arming, visiting, keyed, flags>>

DisarmAccount(a) ==
  /\ a \in disarming
  /\ disarming' = disarming \ {a}
  /\ Becomes(Stop(Pool, WatchesOf(a)))
  /\ UNCHANGED <<manager, arming, visiting, keys, flags>>

-----------------------------------------------------------------------------
(* _schedule_background_checks *)

SlipBeginChecks ==
  /\ visiting = {}
  /\ visiting' = {a \in Accounts : current[Owner[a]] = a}
  /\ UNCHANGED <<manager, registry, thread, arming, disarming, keys, flags>>

\* The loop copies the watched accounts under the lock.
BeginChecks ==
  /\ visiting = {}
  /\ visiting' = armedAccounts \union {a \in Accounts : current[Owner[a]] = a}
  /\ UNCHANGED <<manager, registry, thread, arming, disarming, keys, flags>>

\* Its Inbox, and the folder that is open, if any.
Revived(a) ==
  LET ok == a \in supported
      inbox == Ensure(Pool, ok, <<a, INBOX>>)
  IN  IF selected[a] \in {None, INBOX} THEN inbox ELSE Ensure(inbox, ok, <<a, selected[a]>>)

\* One account of the copied list: load the key of an armed account from the
\* store if memory lost it, then make sure its threads run.
Visit(a) ==
  /\ a \in visiting
  /\ Room(Cardinality({selected[a], INBOX} \ {None}))
  /\ visiting' = visiting \ {a}
  /\ LET u == Owner[a]
         usable == u \in keyed \/ (a \in armedAccounts /\ u \in stored)
     IN  IF a \in enabled /\ usable
         THEN keyed' = keyed \union {u} /\ Becomes(Revived(a))
         ELSE UNCHANGED <<keyed, registry, thread>>
  /\ UNCHANGED <<manager, stored, arming, disarming, flags>>

-----------------------------------------------------------------------------
(* _IdleWorker._run *)

Account(w) == thread[w].watch[1]
\* A thread looks at the domain as well.
Active == enabled \intersect serving

ThreadOnly == UNCHANGED <<manager, registry, pending, keys, flags>>

\* The outer loop ends: stopped, account or domain inactive, or no key.
End(w) ==
  /\ thread[w].at = "top"
  /\ thread[w].stop \/ Account(w) \notin Active \/ Owner[Account(w)] \notin keyed
  /\ thread' = [thread EXCEPT ![w] = Dead]
  /\ ThreadOnly

\* Connect, log in, select. An error leaves the thread at the top, to wait for
\* its backoff and try again for ever.
Connect(w) ==
  /\ thread[w].at = "top"
  /\ ~thread[w].stop /\ Account(w) \in Active /\ Owner[Account(w)] \in keyed
  /\ thread' = [thread EXCEPT ![w].at = "idle"]
  /\ ThreadOnly

SlipWaitReturns(w) ==
  /\ thread[w].at = "idle"
  /\ thread' = [thread EXCEPT ![w].failures = 0]
  /\ ThreadOnly

\* idle_wait returned, with a change (which asks for a sync) or without, and
\* the inner loop looks at the stop flag: not at the key or the account.
WaitReturns(w) ==
  /\ thread[w].at = "idle"
  /\ thread' = [thread EXCEPT ![w] = IF @.stop THEN Dead ELSE [@ EXCEPT !.failures = 0]]
  /\ ThreadOnly

SlipHandshakeFails(w) ==
  /\ thread[w].at = "idle"
  /\ thread' = [thread EXCEPT ![w] =
       IF @.stop THEN Dead ELSE [@ EXCEPT !.failures = thread[w].failures + 1, !.at = "top"]]
  /\ ThreadOnly

\* The server does not answer IDLE with a continuation: count it.
HandshakeFails(w) ==
  /\ thread[w].at = "idle"
  /\ thread' = [thread EXCEPT ![w] =
       IF @.stop THEN Dead
       ELSE [@ EXCEPT !.failures = thread[w].failures + 1,
                      !.at = IF thread[w].failures + 1 >= Threshold THEN "giveup" ELSE "top"]]
  /\ ThreadOnly

\* After logging out, and whatever happened since, mark IDLE unsupported.
GiveUp(w) ==
  /\ thread[w].at = "giveup"
  /\ supported' = supported \ {Account(w)}
  /\ thread' = [thread EXCEPT ![w] = Dead]
  /\ UNCHANGED <<current, selected, armedUsers, armedAccounts, registry, pending, keys, flags>>

\* The connection drops; failures are not reset by a reconnection.
ConnectionLost(w) ==
  /\ thread[w].at = "idle"
  /\ thread' = [thread EXCEPT ![w].at = "top"]
  /\ ThreadOnly

-----------------------------------------------------------------------------
(* The world outside *)

Toggle(S, a) == IF a \in S THEN S \ {a} ELSE S \union {a}

\* An administrator (de)activates the account or its domain.
ToggleAccount(a) ==
  /\ \/ enabled' = Toggle(enabled, a) /\ UNCHANGED serving
     \/ serving' = Toggle(serving, a) /\ UNCHANGED enabled
  /\ UNCHANGED <<manager, registry, thread, pending, keys>>

\* The process restarts: memory is gone, and start() arms the users whose key
\* the store can give back and who have a subscription left (_arm_push_users):
\* one that the push service refused is disabled, while the key stays stored.
Restart ==
  /\ current' = [u \in Users |-> None]
  /\ selected' = [a \in Accounts |-> None]
  /\ supported' = Accounts
  /\ registry' = [k \in Watches |-> None]
  /\ thread' = [w \in Workers |-> Dead]
  /\ \E subscribed \in SUBSET stored :
       /\ keyed' = subscribed
       /\ armedUsers' = subscribed
       /\ armedAccounts' = {a \in enabled : Owner[a] \in subscribed}
  /\ arming' = armedAccounts'
  /\ disarming' = {} /\ visiting' = {}
  /\ UNCHANGED <<stored, flags>>

-----------------------------------------------------------------------------

\* What users, administrators and deployments do.
Call ==
  \/ \E u \in Users : Login(u) \/ Logout(u) \/ Arm(u) \/ Disarm(u)
  \/ \E u \in Users, a \in Accounts : SetActiveAccount(u, a)
  \/ \E a \in Accounts, f \in Folders : SetActiveFolder(a, f)
  \/ \E a \in Accounts : ToggleAccount(a)
  \/ Restart

ThreadStep(w) ==
  End(w) \/ Connect(w) \/ WaitReturns(w) \/ HandshakeFails(w) \/ GiveUp(w) \/ ConnectionLost(w)

\* What the program does by itself.
AccountStep(a) == Visit(a) \/ ArmAccount(a) \/ DisarmAccount(a)

Next ==
  \/ calls < MaxCalls /\ calls' = calls + 1 /\ Call
  \/ /\ \/ BeginChecks
        \/ \E a \in Accounts : AccountStep(a)
        \/ \E w \in Workers : ThreadStep(w)
     /\ UNCHANGED calls

\* The loop, the request handlers and the threads run: idle_wait returns within
\* a minute, the sockets have timeouts. Users and administrators owe nothing.
Fairness ==
  /\ WF_vars((BeginChecks \/ \E a \in Accounts : Visit(a)) /\ UNCHANGED calls)
  /\ WF_vars((\E a \in Accounts : ArmAccount(a)) /\ UNCHANGED calls)
  /\ WF_vars((\E a \in Accounts : DisarmAccount(a)) /\ UNCHANGED calls)
  /\ \A w \in Workers : WF_vars((End(w) \/ WaitReturns(w) \/ GiveUp(w)) /\ UNCHANGED calls)

Spec == Init /\ [][Next]_vars /\ Fairness

-----------------------------------------------------------------------------
(* Properties *)

ThreadType ==
  [watch : Watches \union {None}, at : {"dead", "top", "idle", "giveup"},
   stop : BOOLEAN, failures : 0..Threshold]

\* Type invariant: the watching state of WorkerManager and its threads.
TypeOK ==
  /\ current \in [Users -> Accounts \union {None}]
  /\ selected \in [Accounts -> Folders \union {None}]
  /\ registry \in [Watches -> Workers \union {None}]
  /\ thread \in [Workers -> ThreadType]
  /\ \A w \in Workers : thread[w].at = "dead" <=> thread[w] = Dead
  /\ armedUsers \union keyed \union stored \subseteq Users
  /\ calls \in 0..MaxCalls
  /\ UNION {supported, armedAccounts, arming, disarming, visiting, enabled, serving} \subseteq Accounts

Watched(k) == \E w \in Workers : thread[w].watch = k /\ ~thread[w].stop

\* Every thread that has not been told to stop is the one the registry names
\* for its mailbox: stopping an account finds all its threads, and no mailbox
\* has two of them.
NoOrphanThread ==
  \A w \in Workers :
    thread[w].at # "dead" /\ ~thread[w].stop => registry[thread[w].watch] = w

\* An account that ought to be watched: selected in a session or push-armed,
\* active, its key at hand, and its server able to IDLE.
Eligible(a) ==
  /\ a \in Active /\ a \in supported
  /\ a \in armedAccounts \/ current[Owner[a]] = a
  /\ Owner[a] \in keyed \/ (a \in armedAccounts /\ Owner[a] \in stored)

\* U4A.11, U24.30: the Inbox of such an account has a thread before long,
\* whatever switched accounts, logged out, disarmed or died meanwhile.
InboxWatched ==
  \A a \in Accounts : Eligible(a) ~> (Watched(<<a, INBOX>>) \/ ~Eligible(a))

\* A thread told to stop ends: it does not hold its connection for ever.
StoppedEnds ==
  \A w \in Workers : thread[w].stop ~> ~thread[w].stop

=============================================================================
