--------------------------- MODULE WorkerRefinement ---------------------------
(***************************************************************************)
(* The worker's pipeline implements WorkerService.  What the worker owes is *)
(* spread over the queues and the hands of its threads.                     *)
(***************************************************************************)
EXTENDS WorkerPipeline, SequencesExt

Key(unit) == [id |-> unit.id, index |-> unit.index]

(* The units the bundle b has not yet kicked into the pipeline.             *)
ToKick(b, index) == [i \in 1..(b.idcount - index) |-> [id |-> b.id, index |-> index + i - 1]]

Owed ==
    [i \in DOMAIN InPipeline |-> Key(InPipeline[i])]
    \o ToKick(bundle, bundle.index)
    \o FlattenSeq([i \in DOMAIN bundle_queue |-> ToKick(bundle_queue[i], 0)])

Service == INSTANCE WorkerService WITH owed <- Owed, answered <- results, up <- connected

(* Through five threads' worth of interleavings no unit is lost, repeated   *)
(* or overtaken on its way from the socket to the socket, and a result that *)
(* settles the last debt is flagged.                                        *)
ImplementsService == Service!Spec
===============================================================================
