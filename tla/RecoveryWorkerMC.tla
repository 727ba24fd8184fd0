-------------------------- MODULE RecoveryWorkerMC --------------------------
(* Instances of RecoveryWorker: who shares an id, and who is supervised.   *)
EXTENDS RecoveryWorker, TLC

CONSTANTS p1, p2, w1, w2

\* Two workers, or a worker and the successor that was given a name of its own.
DistinctIds == p1 :> w1 @@ p2 :> w2

\* A worker and its successor under one --worker-id.
SharedId == p1 :> w1 @@ p2 :> w1

=============================================================================
