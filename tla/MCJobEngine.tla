----------------------------- MODULE MCJobEngine -----------------------------
(* Two jobs are enough for a task to be linked to the wrong one, one task for a
   crash to lose it or to leave it without its job. *)
EXTENDS JobEngine
=============================================================================
