------------------------------ MODULE MCRequest ------------------------------
(* Instances of Request for TLC: two completion boxes, so that one is      *)
(* replaced and reused, and two claims of the in-flight slot: a late       *)
(* signal of the first meets the second.  No symmetry: MCRequest.cfg       *)
(* checks liveness too.                                                    *)
EXTENDS Request
=============================================================================
