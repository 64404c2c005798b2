--------------------------- MODULE MCPipelineLoop ---------------------------
(***************************************************************************)
(* PipelineLoop implements PipelineService: the refinement, for TLC.       *)
(***************************************************************************)
EXTENDS PipelineLoop

\* PipelineService, with the batches the plan launches as its "launched" and
\* the results each rank has applied as its "applied".
Launched == SelectSeq([i \in 1 .. Len(plan) |-> i], LAMBDA i : plan[i] # "none")

Service == INSTANCE PipelineService WITH launched <- Launched, applied <- done

\* The pipeline implements its promise: event_loop_normal applies every batch's own
\* tokens to it, once per rank and in order, and no result is ever left behind.
ImplementsService == Service!Spec

=============================================================================
