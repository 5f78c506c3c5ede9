--------------------------- MODULE MCImportRunner ---------------------------
(* Two Takeout files that share a message, one has a message twice; a       *)
(* mailbox of two pages; one message is spam.                              *)
EXTENDS ImportRunner

CONSTANTS m1, m2, m3, junk, a, b

MCMailbox == <<m1, junk, m2>>
MCFiles == [n \in {a, b} |-> IF n = a THEN <<m1, junk, m1, m2>> ELSE <<m2, m3>>]
=============================================================================
