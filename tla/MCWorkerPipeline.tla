--------------------------- MODULE MCWorkerPipeline ---------------------------
(* Model-checking instance of the worker's pipeline and of its refinement.   *)
EXTENDS WorkerRefinement
===============================================================================
