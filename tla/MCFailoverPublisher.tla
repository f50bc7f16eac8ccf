------------------------- MODULE MCFailoverPublisher -------------------------
(* Instances of FailoverPublisher for TLC. *)
EXTENDS FailoverPublisher, TLC

CONSTANTS A, B

\* The replicas run the same program against the same queue.
ReplicaSymmetry == Permutations(Replicas)
=============================================================================
