----------------------------- MODULE MCSendMail -----------------------------
(***************************************************************************)
(* SendMail as it is: its constants are sets of model values and a number, *)
(* which the configurations give.                                          *)
(***************************************************************************)
EXTENDS SendMail
=============================================================================
