----------------------------- MODULE MCApprovals -----------------------------
(* Approvals for TLC: two workflows that need an approval, one that is        *)
(* automatic and one that only a person may do.                               *)
EXTENDS Approvals, TLC

MCRisk == [w \in Workflow |-> CASE w \in {"refund", "delete"} -> "APPROVAL_REQUIRED"
                                [] w = "reply" -> "LOW"
                                [] OTHER -> "HUMAN_ONLY"]

RequestSymmetry == {p @@ q : p \in Permutations(Request), q \in Permutations(Approval)}
==============================================================================
