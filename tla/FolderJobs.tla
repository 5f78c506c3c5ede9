---------------------------- MODULE FolderJobs -----------------------------
(***************************************************************************)
(* What the sync queue promises its callers, with no queue, lock or retry  *)
(* in sight. A request makes a folder wait, unless it waits or runs        *)
(* already; one folder at a time runs; every folder that waits runs.       *)
(*                                                                         *)
(* A request that arrives while its folder runs changes nothing: that is   *)
(* the promise the code makes, and why a change seen too late for the run  *)
(* under way is left to the next request.                                  *)
(***************************************************************************)
CONSTANTS Keys, NoKey

VARIABLES
  waiting,  \* the folders somebody asked for
  running   \* the folder being synced, or NoKey

vars == <<waiting, running>>

Init == waiting = {} /\ running = NoKey

Ask(k) ==
  /\ k \notin waiting
  /\ running # k
  /\ waiting' = waiting \union {k}
  /\ UNCHANGED running

Start(k) ==
  /\ running = NoKey
  /\ k \in waiting
  /\ waiting' = waiting \ {k}
  /\ running' = k

End ==
  /\ running # NoKey
  /\ running' = NoKey
  /\ UNCHANGED waiting

Next == End \/ \E k \in Keys : Ask(k) \/ Start(k)

\* Running ends, and no folder is passed over for ever.
Fairness == WF_vars(End) /\ \A k \in Keys : SF_vars(Start(k))

Spec == Init /\ [][Next]_vars /\ Fairness

=============================================================================
