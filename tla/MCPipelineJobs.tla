--------------------------- MODULE MCPipelineJobs ---------------------------
(* Small instances of PipelineJobs for TLC.                                 *)
EXTENDS PipelineJobs, TLC

CONSTANTS render, paid

OneLocalOnePaid == (render :> "LOCAL") @@ (paid :> "NEVER_AUTOMATIC")
OnePaid == paid :> "NEVER_AUTOMATIC"

SameProcs == Permutations(Procs)
=============================================================================
