----------------------------- MODULE MCJobLease -----------------------------
(* JobLease for TLC: two phones of which only one can run the second job.   *)
EXTENDS JobLease, TLC

CONSTANTS d1, d2

MCCanRun == d1 :> {1, 2} @@ d2 :> {1}

LeaseSymmetry == Permutations(Lease)
=============================================================================
