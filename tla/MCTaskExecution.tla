--------------------------- MODULE MCTaskExecution ---------------------------
(* TaskExecution for TLC: interchangeable phones that can run every job.     *)
EXTENDS TaskExecution, TLC

MCCanRun == [d \in Device |-> Job]

PhoneSymmetry == Permutations(Device) \cup Permutations(Lease)
==============================================================================
