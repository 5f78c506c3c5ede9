----------------------------- MODULE MCContacts -----------------------------
(* Contacts as it is, with constants given in the configuration. *)
EXTENDS Contacts, TLC

\* actors that run the same code, and uids, are alike
Symmetry == Permutations(Threads) \union Permutations(Uids)
=============================================================================
