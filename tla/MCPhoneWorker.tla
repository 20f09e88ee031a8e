---------------------------- MODULE MCPhoneWorker ----------------------------
(* PhoneWorker for TLC: interchangeable phones that can run every job.       *)
EXTENDS PhoneWorker, TLC

MCCanRun == [d \in Device |-> Job]

WorkerSymmetry == Permutations(Device) \cup Permutations(Lease) \cup Permutations(Handler)
==============================================================================
