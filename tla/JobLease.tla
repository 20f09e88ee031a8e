------------------------------ MODULE JobLease ------------------------------
(***************************************************************************)
(* The execution store of the Hermes plugin (aishop/execution_repository): *)
(* the tables execution_jobs, execution_steps, step_results, device_leases *)
(* and the rows of evidence a step result may cite.  One action per        *)
(* repository operation; each operation is one SQLite transaction          *)
(* (BEGIN IMMEDIATE, or a single statement), except the evidence upload,   *)
(* which validates and stores in two.                                      *)
(*                                                                         *)
(* Time.  A row of device_leases holds expires_at; the model holds left,   *)
(* the ticks from the present to expires_at.  A request reads the clock    *)
(* once, when it arrives, and runs its transactions later: lag is the age  *)
(* of the timestamp a transaction works with, so "expires_at < now" in the *)
(* code is left + lag < 0 here.                                            *)
(***************************************************************************)
EXTENDS Integers, FiniteSets

CONSTANTS
  Device,        \* the paired phones
  NJobs,         \* jobs, numbered in the order claim_job ranks them
  NSteps,        \* steps of a job, numbered by ordinal
  Lease,         \* lease ids (uuid4, never reused): bounds the claims
  CanRun,        \* [Device -> SUBSET Job]: packages, versions, capabilities match
  EvidenceStep,  \* the steps with evidence_required
  LeaseTTL,      \* ticks a lease lives without renewal (30 seconds)
  MaxLag,        \* the oldest timestamp a transaction may work with
  Nobody         \* the device of a lease id not yet issued

Job == 1..NJobs
Step == 1..NSteps

ASSUME JobLeaseAssumption ==
  /\ NJobs \in Nat \ {0}
  /\ NSteps \in Nat \ {0}
  /\ CanRun \in [Device -> SUBSET Job]
  /\ EvidenceStep \subseteq Step
  /\ LeaseTTL \in Nat
  /\ MaxLag \in Nat
  /\ Nobody \notin Device

VARIABLES
  jobStatus,   \* [Job -> status of the row, "NONE" before create_job]
  results,     \* [Job -> [Step -> status of the step_results row, or "NONE"]]
  lease,       \* [Lease -> row of device_leases, FreeLease before claim_job]
  uploads,     \* evidence uploads validated and not yet stored
  evidence     \* evidence rows: <<job, step, device>>

vars == <<jobStatus, results, lease, uploads, evidence>>
evidenceVars == <<uploads, evidence>>

-----------------------------------------------------------------------------
Terminal == {"SUCCEEDED", "FAILED", "CANCELLED"}
\* Mutant: jobs that wait for a person are on offer.
ClaimableToAll == {"QUEUED", "RETRY_WAIT", "HUMAN_TAKEOVER"}
Claimable == {"QUEUED", "RETRY_WAIT"}
JobStatus == Terminal \cup Claimable \cup {"NONE", "LEASED", "HUMAN_TAKEOVER"}

Verdict == {"SUCCEEDED", "RETRYABLE", "HUMAN_TAKEOVER", "FAILED"}

Released == {"EXPIRED", "COMPLETED", "RETRY", "TAKEOVER", "FAILED", "CANCELLED"}
LeaseStatus == {"FREE", "ACTIVE"} \cup Released
FreeLease == [status |-> "FREE", job |-> 0, device |-> Nobody, left |-> 0]

Lag == 0..MaxLag

\* A lease this long overdue is expired for every request: its age stops here.
Overdue == -(MaxLag + 1)

LeaseRow == [status : LeaseStatus, job : Job \cup {0},
             device : Device \cup {Nobody}, left : Int]

TypeOK ==
  /\ jobStatus \in [Job -> JobStatus]
  /\ results \in [Job -> [Step -> Verdict \cup {"NONE"}]]
  /\ lease \in [Lease -> LeaseRow]
  /\ uploads \subseteq Job \X Step \X Device
  /\ evidence \subseteq Job \X Step \X Device

Init ==
  /\ jobStatus = [j \in Job |-> "NONE"]
  /\ results = [j \in Job |-> [s \in Step |-> "NONE"]]
  /\ lease = [l \in Lease |-> FreeLease]
  /\ uploads = {}
  /\ evidence = {}

-----------------------------------------------------------------------------
Active(l) == lease[l].status = "ACTIVE"

\* The row a released lease leaves behind; its expiry is never read again.
Release(l, status) ==
  [status |-> status, job |-> lease[l].job, device |-> lease[l].device, left |-> 0]

\* expires_at < the request's timestamp
Late(l, lag) == Active(l) /\ lease[l].left + lag < 0

\* The tables after _expire_leases: the late leases EXPIRED, their jobs RETRY_WAIT.
LeaseAfterExpiry(lag) ==
  [l \in Lease |-> IF Late(l, lag) THEN Release(l, "EXPIRED") ELSE lease[l]]

\* Mutant: the leases expire and the jobs are forgotten.
StatusLeftAlone(lag) == jobStatus

\* Mutant: the lease's status is written to the job.
StatusOfTheLease(lag) ==
  [j \in Job |-> IF \E l \in Lease : Late(l, lag) /\ lease[l].job = j
                 THEN "EXPIRED" ELSE jobStatus[j]]

StatusAfterExpiry(lag) ==
  [j \in Job |-> IF \E l \in Lease : Late(l, lag) /\ lease[l].job = j
                 THEN "RETRY_WAIT" ELSE jobStatus[j]]

\* Mutant: a lease in its last tick does not count (<= for <).
HoldingStrictly(d, lag) ==
  \E l \in Lease : Active(l) /\ lease[l].left + lag > 0 /\ lease[l].device = d

\* The device still holds an active lease once the late ones are expired.
Holding(d, lag) ==
  \E l \in Lease : Active(l) /\ ~Late(l, lag) /\ lease[l].device = d

\* The jobs claim_job may hand to the device.
Open(d, lag) == {j \in CanRun[d] : StatusAfterExpiry(lag)[j] \in Claimable}

-----------------------------------------------------------------------------
CreateJob(j) ==
  /\ jobStatus[j] = "NONE"
  /\ jobStatus' = [jobStatus EXCEPT ![j] = "QUEUED"]
  /\ UNCHANGED <<results, lease, evidenceVars>>

\* claim_job that issues no lease: the device holds one, or no job is open to it.
ClaimNothing(d, lag) ==
  /\ Holding(d, lag) \/ Open(d, lag) = {}
  /\ lease' = LeaseAfterExpiry(lag)
  /\ jobStatus' = StatusAfterExpiry(lag)
  /\ UNCHANGED <<results, evidenceVars>>

\* claim_job that issues lease l for the first open job.
ClaimJob(d, l, lag) ==
  /\ ~Holding(d, lag)
  /\ lease[l].status = "FREE"
  /\ \E j \in Open(d, lag) :
       /\ \A k \in Open(d, lag) : j <= k
       /\ lease' = [LeaseAfterExpiry(lag) EXCEPT
                      ![l] = [status |-> "ACTIVE", job |-> j,
                              device |-> d, left |-> LeaseTTL - lag]]
       /\ jobStatus' = [StatusAfterExpiry(lag) EXCEPT ![j] = "LEASED"]
  /\ UNCHANGED <<results, evidenceVars>>

\* expire_leases, which maintenance runs
ExpireLeases(lag) ==
  /\ lease' = LeaseAfterExpiry(lag)
  /\ jobStatus' = StatusAfterExpiry(lag)
  /\ UNCHANGED <<results, evidenceVars>>

RenewLease(d, l, lag) ==
  /\ Active(l) /\ lease[l].device = d /\ ~Late(l, lag)
  /\ lease' = [lease EXCEPT ![l].left = LeaseTTL - lag]
  /\ UNCHANGED <<jobStatus, results, evidenceVars>>

\* Mutant: the last step's success completes the job.
CompletesAtTheEnd(j, s, v) == v = "SUCCEEDED" /\ s = NSteps

\* What a fresh result of each kind does to the job, and to the lease it came under.
Completes(j, s, v) ==
  v = "SUCCEEDED" /\ \A r \in Step \ {s} : results[j][r] = "SUCCEEDED"

NextStatus(j, s, v) ==
  CASE v = "SUCCEEDED"      -> IF Completes(j, s, v) THEN "SUCCEEDED" ELSE "LEASED"
    [] v = "RETRYABLE"      -> "RETRY_WAIT"
    [] v = "HUMAN_TAKEOVER" -> "HUMAN_TAKEOVER"
    [] v = "FAILED"         -> "FAILED"

\* Mutant: only a completed job gives its lease back.
ReleaseWhenComplete(j, s, v) == IF Completes(j, s, v) THEN "COMPLETED" ELSE "ACTIVE"

ReleaseStatus(j, s, v) ==
  CASE v = "SUCCEEDED"      -> IF Completes(j, s, v) THEN "COMPLETED" ELSE "ACTIVE"
    [] v = "RETRYABLE"      -> "RETRY"
    [] v = "HUMAN_TAKEOVER" -> "TAKEOVER"
    [] v = "FAILED"         -> "FAILED"

\* Mutant: the lease need not be active.
AdmissibleEver(d, l, s, cites, lag) ==
  /\ lease[l].device = d
  /\ s \in EvidenceStep => cites
  /\ cites => <<lease[l].job, s, d>> \in evidence

\* Mutant: evidence of any phone for the step will do.
AdmissibleOnAnyones(d, l, s, cites, lag) ==
  /\ Active(l) /\ lease[l].device = d /\ ~Late(l, lag)
  /\ s \in EvidenceStep => cites
  /\ cites => \E k \in Device : <<lease[l].job, s, k>> \in evidence

\* Mutant: a second result for a step is an error.
AdmissibleOnce(d, l, s, cites, lag) ==
  /\ Active(l) /\ lease[l].device = d /\ ~Late(l, lag)
  /\ results[lease[l].job][s] = "NONE"

\* The checks of record_step_result: an active lease of this device, and evidence
\* where the step demands it (cited rows must be this device's, for this step).
Admissible(d, l, s, cites, lag) ==
  /\ Active(l) /\ lease[l].device = d /\ ~Late(l, lag)
  /\ s \in EvidenceStep => cites
  /\ cites => <<lease[l].job, s, d>> \in evidence

\* record_step_result of a step without a result: insert it and move job and lease on.
\* (A second result for a step is accepted and changes nothing.)
RecordStepResult(d, l, s, v, cites, lag) ==
  LET j == lease[l].job
      released == ReleaseStatus(j, s, v)
  IN /\ Admissible(d, l, s, cites, lag)
     /\ results[j][s] = "NONE"
     /\ results' = [results EXCEPT ![j][s] = v]
     /\ jobStatus' = [jobStatus EXCEPT ![j] = NextStatus(j, s, v)]
     /\ lease' = IF released = "ACTIVE" THEN lease
                 ELSE [lease EXCEPT ![l] = Release(l, released)]
     /\ UNCHANGED evidenceVars

CancelAll ==
  /\ jobStatus' = [j \in Job |-> IF jobStatus[j] \in Terminal \cup {"NONE"}
                                 THEN jobStatus[j] ELSE "CANCELLED"]
  /\ lease' = [l \in Lease |->
                 IF Active(l) /\ jobStatus[lease[l].job] \notin Terminal
                 THEN Release(l, "CANCELLED") ELSE lease[l]]
  /\ UNCHANGED <<results, evidenceVars>>

\* retry_task_jobs for the task of job j
RetryTaskJobs(j) ==
  /\ jobStatus[j] \in {"RETRY_WAIT", "HUMAN_TAKEOVER"}
  /\ jobStatus' = [jobStatus EXCEPT ![j] = "QUEUED"]
  /\ lease' = [l \in Lease |-> IF Active(l) /\ lease[l].job = j
                               THEN Release(l, "RETRY") ELSE lease[l]]
  /\ UNCHANGED <<results, evidenceVars>>

\* Mutant: any phone may upload for a lease.
ValidateUploadOfAny(d, l, s, lag) ==
  /\ Active(l) /\ ~Late(l, lag)
  /\ uploads' = uploads \cup {<<lease[l].job, s, d>>}
  /\ UNCHANGED <<jobStatus, results, lease, evidence>>

\* upload_evidence, first transaction: validate_evidence_upload.
\* (Only screenshots are evidence, and only the steps that capture one upload it.)
ValidateUpload(d, l, s, lag) ==
  /\ Active(l) /\ lease[l].device = d /\ ~Late(l, lag)
  /\ uploads' = uploads \cup {<<lease[l].job, s, d>>}
  /\ UNCHANGED <<jobStatus, results, lease, evidence>>

\* upload_evidence, second transaction: store_evidence.
StoreEvidence(e) ==
  /\ e \in uploads
  /\ uploads' = uploads \ {e}
  /\ evidence' = evidence \cup {e}
  /\ UNCHANGED <<jobStatus, results, lease>>

\* prune_evidence: rows past the retention or over the byte limit go, oldest first.
PruneEvidence(e) ==
  /\ e \in evidence
  /\ evidence' = evidence \ {e}
  /\ UNCHANGED <<jobStatus, results, lease, uploads>>

Tick ==
  /\ lease' = [l \in Lease |->
                 IF Active(l) /\ lease[l].left > Overdue
                 THEN [lease[l] EXCEPT !.left = @ - 1] ELSE lease[l]]
  /\ UNCHANGED <<jobStatus, results, evidenceVars>>

-----------------------------------------------------------------------------
Next ==
  \/ \E j \in Job : CreateJob(j)
  \/ \E d \in Device, lag \in Lag : ClaimNothing(d, lag)
  \/ \E d \in Device, l \in Lease, lag \in Lag : ClaimJob(d, l, lag)
  \/ \E lag \in Lag : ExpireLeases(lag)
  \/ \E d \in Device, l \in Lease, lag \in Lag : RenewLease(d, l, lag)
  \/ \E d \in Device, l \in Lease, s \in Step, v \in Verdict, cites \in BOOLEAN, lag \in Lag :
       RecordStepResult(d, l, s, v, cites, lag)
  \/ CancelAll
  \/ \E j \in Job : RetryTaskJobs(j)
  \/ \E d \in Device, l \in Lease, s \in EvidenceStep, lag \in Lag :
       ValidateUpload(d, l, s, lag)
  \/ \E e \in uploads : StoreEvidence(e)
  \/ \E e \in evidence : PruneEvidence(e)
  \/ Tick

Spec == Init /\ [][Next]_vars

-----------------------------------------------------------------------------
(***************************************************************************)
(* Properties                                                              *)
(***************************************************************************)

\* At most one active lease per job and per device, although claims, results and
\* expiries of several requests interleave with timestamps of different ages: the
\* unique indexes on device_leases never reject claim_job's insert.
OneHolder ==
  \A l, k \in Lease :
    Active(l) /\ Active(k) /\ (lease[l].job = lease[k].job \/ lease[l].device = lease[k].device)
      => l = k

\* The two tables agree: a job is LEASED exactly while some lease of it is active, so
\* no job is stranded LEASED without a holder or handed out while one is at work.
LeasedIffHeld ==
  \A j \in Job :
    jobStatus[j] = "LEASED" <=> \E l \in Lease : Active(l) /\ lease[l].job = j

\* The status of a job says what its results say: SUCCEEDED exactly when every step
\* has succeeded, FAILED exactly when a step has failed, whatever was retried, expired
\* or cancelled in between.
VerdictsMatch ==
  \A j \in Job :
    /\ jobStatus[j] = "SUCCEEDED" <=> \A s \in Step : results[j][s] = "SUCCEEDED"
    /\ jobStatus[j] = "FAILED" <=> \E s \in Step : results[j][s] = "FAILED"

\* Whoever stored evidence for a job, or is about to, held a lease of that job.
EvidenceFromHolder ==
  \A e \in uploads \cup evidence :
    \E l \in Lease : lease[l].job = e[1] /\ lease[l].device = e[3]

\* A job that succeeded, failed or was cancelled stays so and takes no further
\* result, although neither _expire_leases nor record_step_result looks at its status.
TerminalStays ==
  [][\A j \in Job : jobStatus[j] \in Terminal =>
        jobStatus'[j] = jobStatus[j] /\ results'[j] = results[j]]_vars

-----------------------------------------------------------------------------
(***************************************************************************)
(* The store implements the job board.                                     *)
(***************************************************************************)
PhaseOf(status) ==
  CASE status = "NONE" -> "absent"
    [] status \in {"QUEUED", "RETRY_WAIT", "LEASED"} -> "open"
    [] status = "HUMAN_TAKEOVER" -> "shelved"
    [] status = "SUCCEEDED" -> "succeeded"
    [] status = "FAILED" -> "failed"
    [] status = "CANCELLED" -> "cancelled"

phase == [j \in Job |-> PhaseOf(jobStatus[j])]

HeldBy(j, d) == \E l \in Lease : Active(l) /\ lease[l].job = j /\ lease[l].device = d

holder ==
  [j \in Job |-> IF \E d \in Device : HeldBy(j, d)
                 THEN CHOOSE d \in Device : HeldBy(j, d) ELSE Nobody]

Board == INSTANCE JobBoard WITH
  Device <- Device, Job <- Job, Nobody <- Nobody, phase <- phase, holder <- holder

\* Every behaviour of the store is one of the job board: leases, stale timestamps and
\* repeated results never let a phone without the job end it, two phones hold one job,
\* or an ended job come back.
BoardSpec == Board!Spec
=============================================================================
