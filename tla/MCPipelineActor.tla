-------------------------- MODULE MCPipelineActor ---------------------------
(* PipelineActor with small settings for TLC.                                *)
EXTENDS PipelineActor

\* Gradients are accumulated, or global batches trained again, but not both.
Accumulating == [accumulation |-> 2, updateEpoch |-> 1, perStep |-> 4]
Repeating == {[accumulation |-> 1, updateEpoch |-> 2, perStep |-> 3],
              [accumulation |-> 1, updateEpoch |-> 3, perStep |-> 2]}
OneOfTwo == {Accumulating} \cup Repeating
Both == {[accumulation |-> 2, updateEpoch |-> 2, perStep |-> 4]}
=============================================================================
