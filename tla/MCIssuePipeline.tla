--------------------------- MODULE MCIssuePipeline ---------------------------
(* Instances of IssuePipeline for TLC: the constants are given by the       *)
(* configurations.                                                          *)
EXTENDS IssuePipeline
=============================================================================
