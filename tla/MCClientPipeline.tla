-------------------------- MODULE MCClientPipeline --------------------------
(* Instances of ClientPipeline for TLC. *)
EXTENDS ClientPipeline

=============================================================================
