--------------------------- MODULE MCRenderQueue ---------------------------
(* Small instances of RenderQueue for TLC.                                 *)
EXTENDS RenderQueue, TLC

CONSTANTS pr1, pr2

TwoProcesses == (pr1 :> 1) @@ (pr2 :> 2)

SameJobs == Permutations(Jobs)
=============================================================================
