---------------------------- MODULE MCIdleWatch ----------------------------
(***************************************************************************)
(* Values for IdleWatch: one customer; the cfg gives the accounts, folders *)
(* and thread ids.                                                         *)
(***************************************************************************)
EXTENDS IdleWatch

CONSTANT u1

MCOwner == [a \in Accounts |-> u1]
=============================================================================
