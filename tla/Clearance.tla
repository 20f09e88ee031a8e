------------------------------- MODULE Clearance -------------------------------
(***************************************************************************)
(* What an approval is for: an action that needs one is carried out at     *)
(* most once, and only after a person granted it.  Approvals implements    *)
(* this specification (Approvals!Clear).                                   *)
(***************************************************************************)
CONSTANT Approval

VARIABLES
  verdict,   \* [Approval -> what a person has said]
  done       \* the approvals whose action was carried out

vars == <<verdict, done>>

Init ==
  /\ verdict = [a \in Approval |-> "none"]
  /\ done = {}

Say(a, from, to) ==
  /\ verdict[a] = from
  /\ verdict' = [verdict EXCEPT ![a] = to]
  /\ UNCHANGED done

CarryOut(a) ==
  /\ verdict[a] = "granted"
  /\ a \notin done
  /\ done' = done \cup {a}
  /\ UNCHANGED verdict

Next ==
  \E a \in Approval :
    \/ Say(a, "none", "asked")
    \/ Say(a, "asked", "granted")
    \/ Say(a, "asked", "denied")
    \/ CarryOut(a)

Spec == Init /\ [][Next]_vars
================================================================================
