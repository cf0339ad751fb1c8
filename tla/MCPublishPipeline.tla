------------------------- MODULE MCPublishPipeline -------------------------
(* Instances of PublishPipeline for TLC. *)
EXTENDS PublishPipeline

CONSTANT m1

MCObserved == {m1}
=============================================================================
