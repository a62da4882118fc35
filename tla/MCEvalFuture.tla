----------------------------- MODULE MCEvalFuture -----------------------------
(* The instance of EvalFuture for TLC: two boxes, so that a new closure    *)
(* meets the one it replaces, and two wakers, so that a task that moved    *)
(* between polls must be woken through the later one.  No symmetry: the    *)
(* run checks liveness too.                                                *)
EXTENDS EvalFuture
=============================================================================
