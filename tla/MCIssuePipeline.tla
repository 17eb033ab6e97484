--------------------------- MODULE MCIssuePipeline --------------------------
(* Instances of IssuePipeline for TLC. *)
EXTENDS IssuePipeline

CONSTANTS i1, i2, i3, w1, w2
=============================================================================
