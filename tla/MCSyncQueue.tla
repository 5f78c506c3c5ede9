---------------------------- MODULE MCSyncQueue ----------------------------
(***************************************************************************)
(* Values for SyncQueue: one account with INBOX and a folder that callers  *)
(* spell in two ways, so that two names share a key; two requesting        *)
(* threads beside the loop.                                                *)
(***************************************************************************)
EXTENDS SyncQueue, TLC

CONSTANTS u1, INBOX, Work, work

MCOwner == [a \in Accounts |-> u1]
MCLower == (INBOX :> INBOX) @@ (Work :> work) @@ (work :> work)
=============================================================================
