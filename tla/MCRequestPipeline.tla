-------------------------- MODULE MCRequestPipeline -------------------------
(***************************************************************************)
(* Instances of RequestPipeline for TLC: two requests that share the       *)
(* counter.                                                                *)
(***************************************************************************)
EXTENDS RequestPipeline
=============================================================================
