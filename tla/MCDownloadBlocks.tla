-------------------------- MODULE MCDownloadBlocks --------------------------
(***************************************************************************)
(* Seven heights, dealt to tasks that own unequal numbers of them, with    *)
(* and without failures.                                                   *)
(***************************************************************************)
EXTENDS DownloadBlocks

MCMayFail == BOOLEAN
=============================================================================
