------------------------------ MODULE JobBoard ------------------------------
(***************************************************************************)
(* What the execution store promises, without leases, clocks or results: a *)
(* board of jobs.  A posted job has at most one holder, a phone holds at   *)
(* most one job, a holder may vanish at any time, only the holder of a job *)
(* can bring it to an end of its own, and an ended job stays ended.        *)
(* JobLease implements this specification (JobLease!Board).                *)
(***************************************************************************)
CONSTANTS
  Device,
  Job,
  Nobody   \* no device: the holder of a job nobody holds

VARIABLES
  phase,   \* [Job -> "absent", "open", "shelved" or the way it ended]
  holder   \* [Job -> Device, or Nobody]

vars == <<phase, holder>>

\* "shelved": handed to a person; no phone gets the job until it is reopened.
Ended == {"succeeded", "failed", "cancelled"}
Phase == Ended \cup {"absent", "open", "shelved"}

TypeOK ==
  /\ phase \in [Job -> Phase]
  /\ holder \in [Job -> Device \cup {Nobody}]

Init ==
  /\ phase = [j \in Job |-> "absent"]
  /\ holder = [j \in Job |-> Nobody]

Post(j) ==
  /\ phase[j] = "absent"
  /\ phase' = [phase EXCEPT ![j] = "open"]
  /\ UNCHANGED holder

\* Some holders turn out to be gone.
Without(gone) == [j \in Job |-> IF j \in gone THEN Nobody ELSE holder[j]]

Vanish(gone) ==
  /\ holder' = Without(gone)
  /\ UNCHANGED phase

\* A phone that holds nothing takes an open job that nobody holds, once the
\* holders known to be gone are struck out.
Take(d, j, gone) ==
  /\ phase[j] = "open"
  /\ Without(gone)[j] = Nobody
  /\ \A k \in Job : Without(gone)[k] # d
  /\ holder' = [Without(gone) EXCEPT ![j] = d]
  /\ UNCHANGED phase

\* The holder ends the job, gives it up for another try, or calls for a person.
Settle(d, j, p) ==
  /\ holder[j] = d
  /\ phase[j] = "open"
  /\ phase' = [phase EXCEPT ![j] = p]
  /\ holder' = [holder EXCEPT ![j] = Nobody]

Reopen(j) ==
  /\ phase[j] = "shelved"
  /\ phase' = [phase EXCEPT ![j] = "open"]
  /\ UNCHANGED holder

\* The emergency stop ends every job that has not ended.
CancelAll ==
  /\ phase' = [j \in Job |-> IF phase[j] \in {"open", "shelved"} THEN "cancelled" ELSE phase[j]]
  /\ holder' = [j \in Job |-> Nobody]

Next ==
  \/ \E j \in Job : Post(j) \/ Reopen(j)
  \/ \E gone \in SUBSET Job : Vanish(gone)
  \/ \E d \in Device, j \in Job, gone \in SUBSET Job : Take(d, j, gone)
  \/ \E d \in Device, j \in Job, p \in {"succeeded", "failed", "shelved", "open"} : Settle(d, j, p)
  \/ CancelAll

Spec == Init /\ [][Next]_vars
=============================================================================
