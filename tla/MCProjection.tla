----------------------------- MODULE MCProjection -----------------------------
(* One agent, one plan node, a tool, a question and an answer, written by  *)
(* the event loop and one tool thread; a snapshot, a rollback and a        *)
(* restart.                                                                *)
EXTENDS Projection
===============================================================================
