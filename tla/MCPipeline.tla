----------------------------- MODULE MCPipeline -----------------------------
(***************************************************************************)
(* Instances of Pipeline for TLC.                                          *)
(***************************************************************************)
EXTENDS Pipeline

CONSTANTS r1, r2, d1, d2, w1, w2, p1, p2
=============================================================================
