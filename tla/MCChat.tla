------------------------------- MODULE MCChat -------------------------------
(* Chat as it is, with constants given in the configurations. *)
EXTENDS Chat
=============================================================================
