---------------------------- MODULE MCDocStore ----------------------------
(***************************************************************************)
(* DocStore for TLC. The cfg gives the documents, shares and folders; the  *)
(* shares are interchangeable. No property speaks of a document in doubt,  *)
(* so with one document the search stops where it comes into doubt.        *)
(***************************************************************************)
EXTENDS DocStore, TLC

Symmetry == Permutations(Shares) \union Permutations(Folders)

Undoubted == doubtful = {}
=============================================================================
