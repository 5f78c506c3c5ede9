---------------------------- MODULE MCMailMoves ----------------------------
(***************************************************************************)
(* MailMoves with its requests interchangeable.                            *)
(***************************************************************************)
EXTENDS MailMoves, TLC

\* Servers with the usual folders, and one without a junk folder, whose trash
\* is named Deleted.
Some == {[folders |-> {Trash, Junk}, keyword |-> k] : k \in BOOLEAN}
        \union {[folders |-> {Deleted}, keyword |-> TRUE]}

Alike == Permutations(Workers)
=============================================================================
