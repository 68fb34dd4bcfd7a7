------------------------- MODULE MCRealtimePipeline -------------------------
(* An instance of RealtimePipeline for TLC. *)
EXTENDS RealtimePipeline

AllFaulty == [d \in SimDevice |-> "fault"]

=============================================================================
