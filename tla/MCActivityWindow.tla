-------------------------- MODULE MCActivityWindow --------------------------
(***************************************************************************)
(* A project of up to three chains, two of which are probed by one worker  *)
(* after the other, with pages of one event: a chain of three events is    *)
(* longer than the page cap.  They have five events at most between them.  *)
(***************************************************************************)
EXTENDS ActivityWindow
=============================================================================
