-------------------------- MODULE MCEventPipeline --------------------------
(* Instances of EventPipeline for TLC. *)
EXTENDS EventPipelineProps

\* Nothing is malformed, or exactly the second event is.
NoneMalformed == {}
SecondMalformed == {2}
=============================================================================
