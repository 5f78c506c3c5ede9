----------------------------- MODULE MCCalendar -----------------------------
(* Calendar as it is, with constants given in the configurations. *)
EXTENDS Calendar, TLC

\* actors that run the same code are alike
Symmetry == Permutations(Threads)
=============================================================================
