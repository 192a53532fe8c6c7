--------------------------- MODULE MCWorkerLoop ---------------------------
(* Instances of WorkerLoop for TLC.                                        *)
EXTENDS WorkerLoop, TLC

CONSTANTS w1, w2

OneSlotEach == w1 :> 1 @@ w2 :> 1
=============================================================================
