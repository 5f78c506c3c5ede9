----------------------------- MODULE MCAccounts -----------------------------
(***************************************************************************)
(* Accounts as it is; the requests of administrators are interchangeable.  *)
(***************************************************************************)
EXTENDS Accounts, TLC

MCSymmetry == Permutations(Desks)
=============================================================================
