---------------------------- MODULE MCWorkflowRuns ----------------------------
(* WorkflowRuns for TLC: two nodes and a report that depends on both, the      *)
(* graph of we_com_multi_phone.                                                *)
EXTENDS WorkflowRuns, TLC

MCDeps == [n \in Node |-> IF n = NNodes THEN 1..(NNodes - 1) ELSE {}]
===============================================================================
