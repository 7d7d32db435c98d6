--------------------------- MODULE MCPromptQueue ---------------------------
(***************************************************************************)
(* Small instances of PromptQueue.                                         *)
(***************************************************************************)
EXTENDS PromptQueue
=============================================================================
