------------------------- MODULE MCReplicationLoop --------------------------
(* The replication loop on two partitions and two instances of a job.     *)
EXTENDS ReplicationLoop, TLC

(* Instance slots are interchangeable.  Runs with a liveness property do   *)
(* not use the reduction; a property that looks at single steps may.      *)
Symmetry == Permutations(Instance)
=============================================================================
