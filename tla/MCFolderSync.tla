---------------------------- MODULE MCFolderSync ----------------------------
(***************************************************************************)
(* FolderSync as it is: its constants are numbers and model values, which  *)
(* the configurations give.                                                *)
(***************************************************************************)
EXTENDS FolderSync
=============================================================================
