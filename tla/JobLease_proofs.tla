--------------------------- MODULE JobLease_proofs ---------------------------
(***************************************************************************)
(* Proofs about the execution store, for any phones, jobs, steps, leases,  *)
(* lease time and request lag.                                             *)
(***************************************************************************)
EXTENDS JobLease, TLAPS

\* A lease that was ever issued names a job and a device; one that was not names none.
RowOK ==
  \A l \in Lease : IF lease[l].status = "FREE" THEN lease[l].job = 0
                   ELSE lease[l].job \in Job /\ lease[l].device \in Device

IInv == TypeOK /\ RowOK /\ OneHolder /\ LeasedIffHeld /\ VerdictsMatch

-----------------------------------------------------------------------------
\* Releasing a lease changes its status and nothing that names its job or device.
LEMMA ReleaseRow ==
  ASSUME TypeOK, NEW l \in Lease, NEW st \in Released
  PROVE  /\ Release(l, st) \in LeaseRow
         /\ Release(l, st).status = st
         /\ Release(l, st).job = lease[l].job
         /\ Release(l, st).device = lease[l].device
BY DEF TypeOK, LeaseRow, LeaseStatus, Release

\* What the tables look like after _expire_leases: every late lease has become
\* EXPIRED, every other lease is as it was.
LEMMA ExpiryTables ==
  ASSUME TypeOK, NEW lag \in Lag
  PROVE  /\ LeaseAfterExpiry(lag) \in [Lease -> LeaseRow]
         /\ StatusAfterExpiry(lag) \in [Job -> JobStatus]
         /\ \A l \in Lease :
              /\ LeaseAfterExpiry(lag)[l].job = lease[l].job
              /\ LeaseAfterExpiry(lag)[l].device = lease[l].device
              /\ LeaseAfterExpiry(lag)[l].status =
                   IF Late(l, lag) THEN "EXPIRED" ELSE lease[l].status
<1>1. \A l \in Lease : Release(l, "EXPIRED") \in LeaseRow
                       /\ Release(l, "EXPIRED").status = "EXPIRED"
                       /\ Release(l, "EXPIRED").job = lease[l].job
                       /\ Release(l, "EXPIRED").device = lease[l].device
  BY ReleaseRow DEF Released
<1>2. StatusAfterExpiry(lag) \in [Job -> JobStatus]
  BY DEF TypeOK, StatusAfterExpiry, JobStatus, Claimable
<1>3. LeaseAfterExpiry(lag) \in [Lease -> LeaseRow]
  BY <1>1 DEF TypeOK, LeaseAfterExpiry
<1> QED BY <1>1, <1>2, <1>3 DEF LeaseAfterExpiry

-----------------------------------------------------------------------------
LEMMA InitIInv == Init => IInv
<1> SUFFICES ASSUME Init PROVE IInv
  OBVIOUS
<1> USE DEF Init
<1>1. 1 \in Step
  BY JobLeaseAssumption DEF Step
<1>2. TypeOK
  BY DEF TypeOK, FreeLease, LeaseRow, LeaseStatus, JobStatus
<1>3. RowOK /\ OneHolder /\ LeasedIffHeld
  BY DEF RowOK, OneHolder, LeasedIffHeld, Active, FreeLease
<1>4. VerdictsMatch
  BY <1>1 DEF VerdictsMatch
<1> QED BY <1>2, <1>3, <1>4 DEF IInv

\* Every operation of the store keeps its tables well typed.
LEMMA TypeStep == TypeOK /\ RowOK /\ [Next]_vars => TypeOK' /\ RowOK'
<1> SUFFICES ASSUME TypeOK, RowOK, [Next]_vars PROVE TypeOK' /\ RowOK'
  OBVIOUS
<1> USE DEF TypeOK, RowOK
<1>1. ASSUME NEW j \in Job, CreateJob(j) PROVE TypeOK' /\ RowOK'
  BY <1>1 DEF CreateJob, evidenceVars, JobStatus, Claimable
<1>2. ASSUME NEW d \in Device, NEW lag \in Lag, ClaimNothing(d, lag) PROVE TypeOK' /\ RowOK'
  BY <1>2, ExpiryTables DEF ClaimNothing, evidenceVars, Late, Active
<1>3. ASSUME NEW d \in Device, NEW l \in Lease, NEW lag \in Lag, ClaimJob(d, l, lag)
      PROVE TypeOK' /\ RowOK'
  <2>1. PICK j \in Open(d, lag) :
          /\ lease' = [LeaseAfterExpiry(lag) EXCEPT
                         ![l] = [status |-> "ACTIVE", job |-> j,
                                 device |-> d, left |-> LeaseTTL - lag]]
          /\ jobStatus' = [StatusAfterExpiry(lag) EXCEPT ![j] = "LEASED"]
    BY <1>3 DEF ClaimJob
  <2>2. j \in Job
    BY JobLeaseAssumption DEF Open
  <2>3. [status |-> "ACTIVE", job |-> j, device |-> d, left |-> LeaseTTL - lag] \in LeaseRow
    BY <2>2, JobLeaseAssumption DEF LeaseRow, LeaseStatus, Lag
  <2>4. lease' \in [Lease -> LeaseRow] /\ jobStatus' \in [Job -> JobStatus]
    BY <2>1, <2>2, <2>3, ExpiryTables DEF JobStatus
  <2>5. RowOK'
    BY <2>1, <2>2, ExpiryTables DEF Late, Active
  <2> QED BY <1>3, <2>4, <2>5 DEF ClaimJob, evidenceVars
<1>4. ASSUME NEW lag \in Lag, ExpireLeases(lag) PROVE TypeOK' /\ RowOK'
  BY <1>4, ExpiryTables DEF ExpireLeases, evidenceVars, Late, Active
<1>5. ASSUME NEW d \in Device, NEW l \in Lease, NEW lag \in Lag, RenewLease(d, l, lag)
      PROVE TypeOK' /\ RowOK'
  <2>1. LeaseTTL - lag \in Int
    BY JobLeaseAssumption DEF Lag
  <2> QED BY <1>5, <2>1 DEF RenewLease, evidenceVars, LeaseRow
<1>6. ASSUME NEW d \in Device, NEW l \in Lease, NEW s \in Step, NEW v \in Verdict,
             NEW cites \in BOOLEAN, NEW lag \in Lag, RecordStepResult(d, l, s, v, cites, lag)
      PROVE TypeOK' /\ RowOK'
  <2> DEFINE j == lease[l].job
             released == ReleaseStatus(j, s, v)
  <2>1. j \in Job
    BY <1>6 DEF RecordStepResult, Admissible, Active
  <2>2. NextStatus(j, s, v) \in JobStatus
    BY DEF NextStatus, Verdict, JobStatus, Terminal, Claimable
  <2>3. released = "ACTIVE" \/ released \in Released
    BY DEF ReleaseStatus, Verdict, Released
  <2>4. lease' \in [Lease -> LeaseRow] /\ RowOK'
    <3>1. CASE released = "ACTIVE"
      BY <1>6, <3>1 DEF RecordStepResult
    <3>2. CASE released \in Released
      <4> released # "ACTIVE"
        BY <3>2 DEF Released
      <4>1. lease' = [lease EXCEPT ![l] = Release(l, released)]
        BY <1>6 DEF RecordStepResult
      <4> released # "FREE"
        BY <3>2 DEF Released
      <4> QED BY <4>1, <3>2, <1>6, ReleaseRow DEF RecordStepResult, Admissible, Active
    <3> QED BY <2>3, <3>1, <3>2
  <2> QED BY <1>6, <2>1, <2>2, <2>4 DEF RecordStepResult, evidenceVars
<1>7. ASSUME CancelAll PROVE TypeOK' /\ RowOK'
  <2>1. \A l \in Lease : Release(l, "CANCELLED") \in LeaseRow
                         /\ Release(l, "CANCELLED").status = "CANCELLED"
                         /\ Release(l, "CANCELLED").job = lease[l].job
                         /\ Release(l, "CANCELLED").device = lease[l].device
    BY ReleaseRow DEF Released
  <2> QED BY <1>7, <2>1 DEF CancelAll, evidenceVars, JobStatus, Terminal, Active
<1>8. ASSUME NEW j \in Job, RetryTaskJobs(j) PROVE TypeOK' /\ RowOK'
  <2>1. \A l \in Lease : Release(l, "RETRY") \in LeaseRow
                         /\ Release(l, "RETRY").status = "RETRY"
                         /\ Release(l, "RETRY").job = lease[l].job
                         /\ Release(l, "RETRY").device = lease[l].device
    BY ReleaseRow DEF Released
  <2> QED BY <1>8, <2>1 DEF RetryTaskJobs, evidenceVars, JobStatus, Claimable, Active
<1>9. ASSUME NEW d \in Device, NEW l \in Lease, NEW s \in EvidenceStep, NEW lag \in Lag,
             ValidateUpload(d, l, s, lag)
      PROVE TypeOK' /\ RowOK'
  BY <1>9, JobLeaseAssumption DEF ValidateUpload, Active
<1>10. ASSUME NEW e \in uploads, StoreEvidence(e) PROVE TypeOK' /\ RowOK'
  BY <1>10 DEF StoreEvidence
<1>11. ASSUME NEW e \in evidence, PruneEvidence(e) PROVE TypeOK' /\ RowOK'
  BY <1>11 DEF PruneEvidence
<1>12. ASSUME Tick PROVE TypeOK' /\ RowOK'
  BY <1>12 DEF Tick, evidenceVars, LeaseRow, Active
<1>13. CASE UNCHANGED vars
  BY <1>13 DEF vars
<1> QED BY <1>1, <1>2, <1>3, <1>4, <1>5, <1>6, <1>7, <1>8, <1>9, <1>10, <1>11, <1>12, <1>13
        DEF Next

-----------------------------------------------------------------------------
\* A job whose status changes to match a table without late leases: after expiry a
\* job is LEASED exactly while one of the remaining active leases names it.
LEMMA ExpiryAgrees ==
  ASSUME IInv, NEW lag \in Lag, NEW j \in Job
  PROVE  /\ StatusAfterExpiry(lag)[j] = "LEASED" <=>
              \E l \in Lease : Active(l) /\ ~Late(l, lag) /\ lease[l].job = j
         /\ StatusAfterExpiry(lag)[j] # jobStatus[j] =>
              jobStatus[j] = "LEASED" /\ StatusAfterExpiry(lag)[j] = "RETRY_WAIT"
         /\ StatusAfterExpiry(lag)[j] = "NONE" <=> jobStatus[j] = "NONE"
BY DEF IInv, OneHolder, LeasedIffHeld, StatusAfterExpiry, Late, Active

\* VerdictsMatch survives any step that moves only jobs that are neither SUCCEEDED nor
\* FAILED, to a status that is neither, and records no result.
LEMMA VerdictsKept ==
  ASSUME TypeOK, VerdictsMatch, results' = results,
         \A j \in Job : \/ jobStatus'[j] = jobStatus[j]
                        \/ {jobStatus[j], jobStatus'[j]} \cap {"SUCCEEDED", "FAILED"} = {}
  PROVE  VerdictsMatch'
BY DEF VerdictsMatch

LEMMA ExpiryKeeps ==
  ASSUME IInv, NEW lag \in Lag,
         lease' = LeaseAfterExpiry(lag), jobStatus' = StatusAfterExpiry(lag),
         results' = results
  PROVE  OneHolder' /\ LeasedIffHeld' /\ VerdictsMatch'
<1>1. \A l \in Lease : /\ Active(l)' <=> Active(l) /\ ~Late(l, lag)
                       /\ lease'[l].job = lease[l].job
                       /\ lease'[l].device = lease[l].device
  BY ExpiryTables DEF IInv, Active
<1>2. OneHolder'
  BY <1>1 DEF IInv, OneHolder
<1>3. LeasedIffHeld'
  BY <1>1, ExpiryAgrees DEF LeasedIffHeld
<1>4. VerdictsMatch'
  BY ExpiryAgrees, VerdictsKept DEF IInv
<1> QED BY <1>2, <1>3, <1>4

\* The safety invariants are inductive.
LEMMA SafetyStep == IInv /\ [Next]_vars => OneHolder' /\ LeasedIffHeld' /\ VerdictsMatch'
<1> SUFFICES ASSUME IInv, [Next]_vars PROVE OneHolder' /\ LeasedIffHeld' /\ VerdictsMatch'
  OBVIOUS
<1> DEFINE Safe == OneHolder /\ LeasedIffHeld /\ VerdictsMatch
<1>0. TypeOK /\ RowOK /\ Safe /\ TypeOK' /\ RowOK'
  BY TypeStep DEF IInv
<1> USE <1>0
<1>1. ASSUME NEW j \in Job, CreateJob(j) PROVE Safe'
  <2>1. lease' = lease /\ results' = results
    BY <1>1 DEF CreateJob
  <2>2. \A k \in Job : jobStatus'[k] = IF k = j THEN "QUEUED" ELSE jobStatus[k]
    BY <1>1 DEF CreateJob, TypeOK
  <2>3. jobStatus[j] = "NONE"
    BY <1>1 DEF CreateJob
  <2>4. OneHolder' /\ LeasedIffHeld'
    BY <2>1, <2>2, <2>3 DEF OneHolder, LeasedIffHeld, Active
  <2>5. VerdictsMatch'
    BY <2>1, <2>2, <2>3, VerdictsKept
  <2> QED BY <2>4, <2>5
<1>2. ASSUME NEW d \in Device, NEW lag \in Lag, ClaimNothing(d, lag) PROVE Safe'
  BY <1>2, ExpiryKeeps DEF ClaimNothing
<1>3. ASSUME NEW d \in Device, NEW l \in Lease, NEW lag \in Lag, ClaimJob(d, l, lag)
      PROVE Safe'
  <2>1. PICK j \in Open(d, lag) :
          /\ lease' = [LeaseAfterExpiry(lag) EXCEPT
                         ![l] = [status |-> "ACTIVE", job |-> j,
                                 device |-> d, left |-> LeaseTTL - lag]]
          /\ jobStatus' = [StatusAfterExpiry(lag) EXCEPT ![j] = "LEASED"]
    BY <1>3 DEF ClaimJob
  <2>2. j \in Job /\ StatusAfterExpiry(lag)[j] \in Claimable
    BY JobLeaseAssumption DEF Open
  <2>3. lease[l].status = "FREE" /\ ~Holding(d, lag) /\ results' = results
    BY <1>3 DEF ClaimJob
  <2>4. /\ Active(l)' /\ lease'[l].job = j /\ lease'[l].device = d
        /\ \A k \in Lease \ {l} : /\ Active(k)' <=> Active(k) /\ ~Late(k, lag)
                                  /\ lease'[k].job = lease[k].job
                                  /\ lease'[k].device = lease[k].device
    BY <2>1, ExpiryTables DEF Active
  <2>5. \A k \in Job : jobStatus'[k] = IF k = j THEN "LEASED" ELSE StatusAfterExpiry(lag)[k]
    BY <2>1, <2>2, ExpiryTables
  <2>6. ~Active(l) /\ \A k \in Lease : Active(k) /\ ~Late(k, lag) =>
                         lease[k].job # j /\ lease[k].device # d
    BY <2>2, <2>3, ExpiryAgrees DEF Active, Holding, Claimable
  <2>7. OneHolder'
    BY <2>4, <2>6 DEF OneHolder
  <2>8. LeasedIffHeld'
    BY <2>4, <2>5, <2>6, ExpiryAgrees DEF LeasedIffHeld
  <2>9. VerdictsMatch'
    <3>1. jobStatus[j] \notin {"SUCCEEDED", "FAILED"}
      BY <2>2, ExpiryAgrees DEF Claimable
    <3>2. \A k \in Job : \/ jobStatus'[k] = jobStatus[k]
                         \/ {jobStatus[k], jobStatus'[k]} \cap {"SUCCEEDED", "FAILED"} = {}
      BY <3>1, <2>5, ExpiryAgrees
    <3> QED BY <3>2, <2>3, VerdictsKept
  <2> QED BY <2>7, <2>8, <2>9
<1>4. ASSUME NEW lag \in Lag, ExpireLeases(lag) PROVE Safe'
  BY <1>4, ExpiryKeeps DEF ExpireLeases
<1>5. ASSUME NEW d \in Device, NEW l \in Lease, NEW lag \in Lag, RenewLease(d, l, lag)
      PROVE Safe'
  <2>1. \A k \in Lease : /\ lease'[k].status = lease[k].status
                         /\ lease'[k].job = lease[k].job
                         /\ lease'[k].device = lease[k].device
    BY <1>5 DEF RenewLease, TypeOK, LeaseRow
  <2> QED BY <1>5, <2>1 DEF RenewLease, OneHolder, LeasedIffHeld, VerdictsMatch, Active
<1>6. ASSUME NEW d \in Device, NEW l \in Lease, NEW s \in Step, NEW v \in Verdict,
             NEW cites \in BOOLEAN, NEW lag \in Lag, RecordStepResult(d, l, s, v, cites, lag)
      PROVE Safe'
  <2> DEFINE j == lease[l].job
             released == ReleaseStatus(j, s, v)
             next == NextStatus(j, s, v)
  <2>1. j \in Job /\ Active(l) /\ jobStatus[j] = "LEASED"
    BY <1>6 DEF RecordStepResult, Admissible, Active, RowOK, LeasedIffHeld
  <2>2. \A k \in Job : jobStatus'[k] = IF k = j THEN next ELSE jobStatus[k]
    BY <1>6, <2>1 DEF RecordStepResult, TypeOK
  <2>3. \A k \in Job : k # j => results'[k] = results[k]
    BY <1>6, <2>1 DEF RecordStepResult, TypeOK
  <2>4. \A r \in Step : results'[j][r] = IF r = s THEN v ELSE results[j][r]
    BY <1>6, <2>1 DEF RecordStepResult, TypeOK
  <2>5. /\ released = "ACTIVE" <=> next = "LEASED"
        /\ released = "ACTIVE" \/ released \in Released
        /\ "ACTIVE" \notin Released
    BY DEF ReleaseStatus, NextStatus, Verdict, Released
  <2>6. \A k \in Lease : /\ lease'[k].job = lease[k].job
                         /\ lease'[k].device = lease[k].device
                         /\ Active(k)' <=> Active(k) /\ (k = l => released = "ACTIVE")
    <3>1. CASE released = "ACTIVE"
      BY <1>6, <3>1 DEF RecordStepResult, Active
    <3>2. CASE released \in Released
      BY <1>6, <2>5, <3>2, ReleaseRow DEF RecordStepResult, Active, TypeOK
    <3> QED BY <2>5, <3>1, <3>2
  <2>7. OneHolder'
    BY <2>6 DEF OneHolder
  <2>8. LeasedIffHeld'
    BY <2>1, <2>2, <2>5, <2>6 DEF LeasedIffHeld, OneHolder
  <2>9. VerdictsMatch'
    <3>1. /\ next = "SUCCEEDED" <=> \A r \in Step : results'[j][r] = "SUCCEEDED"
          /\ next = "FAILED" <=> v = "FAILED"
      BY <2>4 DEF NextStatus, Verdict, Completes
    <3>2. \A r \in Step : results[j][r] # "FAILED"
      BY <2>1 DEF VerdictsMatch
    <3> QED BY <2>2, <2>3, <2>4, <3>1, <3>2 DEF VerdictsMatch
  <2> QED BY <2>7, <2>8, <2>9
<1>7. ASSUME CancelAll PROVE Safe'
  <2>1. \A l \in Lease : Active(l) => jobStatus[lease[l].job] = "LEASED"
    BY DEF LeasedIffHeld, RowOK, Active
  <2>2. \A l \in Lease : ~Active(l)'
    BY <1>7, <2>1, ReleaseRow DEF CancelAll, Active, Terminal, Released, TypeOK
  <2>3. \A j \in Job : jobStatus'[j] = IF jobStatus[j] \in Terminal \cup {"NONE"}
                                       THEN jobStatus[j] ELSE "CANCELLED"
    BY <1>7 DEF CancelAll
  <2>4. OneHolder' /\ LeasedIffHeld'
    BY <2>2, <2>3 DEF OneHolder, LeasedIffHeld, Terminal
  <2>5. VerdictsMatch'
    BY <1>7, <2>3, VerdictsKept DEF CancelAll, Terminal
  <2> QED BY <2>4, <2>5
<1>8. ASSUME NEW j \in Job, RetryTaskJobs(j) PROVE Safe'
  <2>1. jobStatus[j] \in {"RETRY_WAIT", "HUMAN_TAKEOVER"} /\ results' = results
    BY <1>8 DEF RetryTaskJobs
  <2>2. \A l \in Lease : Active(l) => lease[l].job # j
    BY <2>1 DEF LeasedIffHeld
  <2>3. \A l \in Lease : lease'[l] = lease[l]
    BY <1>8, <2>2 DEF RetryTaskJobs
  <2>4. \A k \in Job : jobStatus'[k] = IF k = j THEN "QUEUED" ELSE jobStatus[k]
    BY <1>8 DEF RetryTaskJobs, TypeOK
  <2>5. OneHolder' /\ LeasedIffHeld'
    BY <2>1, <2>2, <2>3, <2>4 DEF OneHolder, LeasedIffHeld, Active
  <2>6. VerdictsMatch'
    BY <2>1, <2>4, VerdictsKept
  <2> QED BY <2>5, <2>6
<1>9. ASSUME UNCHANGED <<jobStatus, results, lease>> PROVE Safe'
  BY <1>9 DEF OneHolder, LeasedIffHeld, VerdictsMatch, Active
<1>10. ASSUME Tick PROVE Safe'
  <2>1. \A l \in Lease : /\ lease'[l].status = lease[l].status
                         /\ lease'[l].job = lease[l].job
                         /\ lease'[l].device = lease[l].device
    BY <1>10 DEF Tick, TypeOK, LeaseRow
  <2> QED BY <1>10, <2>1 DEF Tick, OneHolder, LeasedIffHeld, VerdictsMatch, Active
<1> QED BY <1>1, <1>2, <1>3, <1>4, <1>5, <1>6, <1>7, <1>8, <1>9, <1>10
        DEF Next, vars, ValidateUpload, StoreEvidence, PruneEvidence

-----------------------------------------------------------------------------
\* An issued lease keeps its job and its device.
LEMMA RowsKept ==
  ASSUME TypeOK, RowOK, [Next]_vars, NEW l \in Lease, lease[l].status # "FREE"
  PROVE  lease'[l].job = lease[l].job /\ lease'[l].device = lease[l].device
<1>1. \A k \in Lease : \A st : /\ Release(k, st).job = lease[k].job
                             /\ Release(k, st).device = lease[k].device
  BY DEF Release
<1>2. \A lag \in Lag : /\ LeaseAfterExpiry(lag)[l].job = lease[l].job
                       /\ LeaseAfterExpiry(lag)[l].device = lease[l].device
  BY ExpiryTables
<1>3. ASSUME NEW d \in Device, NEW k \in Lease, NEW lag \in Lag, ClaimJob(d, k, lag)
      PROVE  lease'[l] = LeaseAfterExpiry(lag)[l]
  BY <1>3, ExpiryTables DEF ClaimJob
<1>4. ASSUME NEW d \in Device, NEW k \in Lease, NEW s \in Step, NEW v \in Verdict,
             NEW cites \in BOOLEAN, NEW lag \in Lag, RecordStepResult(d, k, s, v, cites, lag)
      PROVE  lease'[l].job = lease[l].job /\ lease'[l].device = lease[l].device
  <2> DEFINE released == ReleaseStatus(lease[k].job, s, v)
  <2>1. lease' = lease \/ lease' = [lease EXCEPT ![k] = Release(k, released)]
    BY <1>4 DEF RecordStepResult
  <2> HIDE DEF released
  <2> QED BY <1>1, <2>1 DEF TypeOK
<1>5. ASSUME Tick
      PROVE  lease'[l].job = lease[l].job /\ lease'[l].device = lease[l].device
  BY <1>5 DEF Tick, TypeOK, LeaseRow
<1>6. ASSUME NEW d \in Device, NEW k \in Lease, NEW lag \in Lag, RenewLease(d, k, lag)
      PROVE  lease'[l].job = lease[l].job /\ lease'[l].device = lease[l].device
  BY <1>6 DEF RenewLease, TypeOK, LeaseRow
<1>7. ASSUME CancelAll \/ \E j \in Job : RetryTaskJobs(j)
      PROVE  lease'[l].job = lease[l].job /\ lease'[l].device = lease[l].device
  BY <1>7, <1>1 DEF CancelAll, RetryTaskJobs
<1> QED BY <1>2, <1>3, <1>4, <1>5, <1>6, <1>7
        DEF Next, vars, CreateJob, ClaimNothing, ExpireLeases, ValidateUpload, StoreEvidence,
            PruneEvidence

LEMMA EvidenceKept ==
  IInv /\ EvidenceFromHolder /\ [Next]_vars => EvidenceFromHolder'
<1> SUFFICES ASSUME IInv, EvidenceFromHolder, [Next]_vars, NEW e \in (uploads \cup evidence)'
             PROVE  \E l \in Lease : lease'[l].job = e[1] /\ lease'[l].device = e[3]
  BY DEF EvidenceFromHolder
<1>1. CASE e \in uploads \cup evidence
  <2>1. PICK l \in Lease : lease[l].job = e[1] /\ lease[l].device = e[3]
    BY <1>1 DEF EvidenceFromHolder
  <2>2. e[1] \in Job
    BY <1>1 DEF IInv, TypeOK
  <2>3. lease[l].status # "FREE"
    BY <2>1, <2>2 DEF IInv, RowOK, Job
  <2> QED BY <2>1, <2>3, RowsKept DEF IInv
<1>2. CASE e \notin uploads \cup evidence
  <2>1. PICK d \in Device, l \in Lease, s \in EvidenceStep, lag \in Lag : ValidateUpload(d, l, s, lag)
    BY <1>2 DEF Next, vars, evidenceVars, CreateJob, ClaimNothing, ClaimJob, ExpireLeases,
                RenewLease, RecordStepResult, CancelAll, RetryTaskJobs, StoreEvidence,
                PruneEvidence, Tick
  <2>2. e = <<lease[l].job, s, d>> /\ lease' = lease /\ lease[l].device = d
    BY <1>2, <2>1 DEF ValidateUpload
  <2> QED BY <2>2
<1> QED BY <1>1, <1>2

\* No step touches a job that has ended: the leases that expire or take a result
\* belong to jobs that are LEASED.
LEMMA TerminalStep ==
  ASSUME IInv, [Next]_vars, NEW j \in Job, jobStatus[j] \in Terminal
  PROVE  jobStatus'[j] = jobStatus[j] /\ results'[j] = results[j]
<1> USE DEF Terminal
<1>0. TypeOK /\ \A l \in Lease : Active(l) => lease[l].job # j
  BY DEF IInv, LeasedIffHeld
<1>1. \A lag \in Lag : StatusAfterExpiry(lag)[j] = jobStatus[j]
  BY ExpiryAgrees
<1>2. ASSUME NEW d \in Device, NEW l \in Lease, NEW lag \in Lag, ClaimJob(d, l, lag)
      PROVE  jobStatus'[j] = jobStatus[j] /\ results'[j] = results[j]
  <2>1. PICK k \in Open(d, lag) : jobStatus' = [StatusAfterExpiry(lag) EXCEPT ![k] = "LEASED"]
    BY <1>2 DEF ClaimJob
  <2>2. k # j
    BY <1>1 DEF Open, Claimable
  <2> QED BY <1>0, <1>1, <1>2, <2>1, <2>2, ExpiryTables DEF ClaimJob
<1>3. ASSUME NEW d \in Device, NEW l \in Lease, NEW s \in Step, NEW v \in Verdict,
             NEW cites \in BOOLEAN, NEW lag \in Lag, RecordStepResult(d, l, s, v, cites, lag)
      PROVE  jobStatus'[j] = jobStatus[j] /\ results'[j] = results[j]
  BY <1>0, <1>3 DEF RecordStepResult, Admissible, TypeOK
<1> QED BY <1>0, <1>1, <1>2, <1>3
        DEF Next, vars, TypeOK, CreateJob, ClaimNothing, ExpireLeases, RenewLease, CancelAll,
            RetryTaskJobs, ValidateUpload, StoreEvidence, PruneEvidence, Tick

-----------------------------------------------------------------------------
LEMMA Invariant == Spec => []IInv
<1>1. IInv /\ [Next]_vars => IInv'
  BY TypeStep, SafetyStep DEF IInv
<1> QED BY InitIInv, <1>1, PTL DEF Spec

\* The tables of the execution store stay well typed.
THEOREM TypeCorrect == Spec => []TypeOK
BY Invariant, PTL DEF IInv

\* At most one active lease per job and per device: the unique indexes are never hit.
THEOREM LeaseExclusive == Spec => []OneHolder
BY Invariant, PTL DEF IInv

\* A job is LEASED exactly while an active lease names it.
THEOREM TablesAgree == Spec => []LeasedIffHeld
BY Invariant, PTL DEF IInv

\* A job has succeeded exactly when each of its steps has, and failed exactly when one has.
THEOREM VerdictsCorrect == Spec => []VerdictsMatch
BY Invariant, PTL DEF IInv

\* Evidence is only ever stored for a job by a device that held a lease of it.
THEOREM EvidenceOwned == Spec => []EvidenceFromHolder
<1>1. Init => EvidenceFromHolder
  BY DEF Init, EvidenceFromHolder
<1> QED BY <1>1, EvidenceKept, Invariant, PTL DEF Spec

\* A job that has ended stays as it ended.
THEOREM TerminalAbsorbing == Spec => TerminalStays
<1>1. IInv /\ [Next]_vars =>
        [\A j \in Job : jobStatus[j] \in Terminal =>
            jobStatus'[j] = jobStatus[j] /\ results'[j] = results[j]]_vars
  BY TerminalStep
<1> QED BY <1>1, Invariant, PTL DEF Spec, TerminalStays

-----------------------------------------------------------------------------
(***************************************************************************)
(* The execution store implements the job board: its initial state maps to *)
(* the board's, and each of its steps to a board step or to none.          *)
(***************************************************************************)
\* The board's view of a job: its holder is the one device with an active lease of it.
LEMMA HolderIs ==
  ASSUME TypeOK, RowOK, OneHolder, NEW j \in Job
  PROVE  /\ holder[j] \in Device \cup {Nobody}
         /\ \A d \in Device : holder[j] = d <=> HeldBy(j, d)
         /\ holder[j] = Nobody <=> \A l \in Lease : Active(l) => lease[l].job # j
<1>1. \A d, e \in Device : HeldBy(j, d) /\ HeldBy(j, e) => d = e
  BY DEF HeldBy, OneHolder
<1>2. CASE \E d \in Device : HeldBy(j, d)
  <2>1. holder[j] = CHOOSE d \in Device : HeldBy(j, d)
    BY <1>2 DEF holder
  <2>2. holder[j] \in Device /\ HeldBy(j, holder[j])
    BY <1>2, <2>1
  <2>3. \E l \in Lease : Active(l) /\ lease[l].job = j
    BY <2>2 DEF HeldBy
  <2> QED BY <1>1, <2>2, <2>3, JobLeaseAssumption
<1>3. CASE ~\E d \in Device : HeldBy(j, d)
  <2>1. holder[j] = Nobody
    BY <1>3 DEF holder
  <2>2. \A l \in Lease : Active(l) => lease[l].job # j
    BY <1>3 DEF HeldBy, RowOK, Active
  <2> QED BY <1>3, <2>1, <2>2, JobLeaseAssumption
<1> QED BY <1>2, <1>3

LEMMA HolderIsPrimed ==
  ASSUME TypeOK', RowOK', OneHolder', NEW j \in Job
  PROVE  /\ holder'[j] \in Device \cup {Nobody}
         /\ \A d \in Device : holder'[j] = d <=> HeldBy(j, d)'
         /\ holder'[j] = Nobody <=> \A l \in Lease : Active(l)' => lease'[l].job # j
<1>1. \A d, e \in Device : HeldBy(j, d)' /\ HeldBy(j, e)' => d = e
  BY DEF HeldBy, OneHolder
<1>2. CASE \E d \in Device : HeldBy(j, d)'
  <2>1. holder'[j] = CHOOSE d \in Device : HeldBy(j, d)'
    BY <1>2 DEF holder
  <2>2. holder'[j] \in Device /\ (\E d \in Device : d = holder'[j] /\ HeldBy(j, d)')
    BY <1>2, <2>1
  <2>3. \E l \in Lease : Active(l)' /\ lease'[l].job = j
    BY <2>2 DEF HeldBy
  <2> QED BY <1>1, <2>2, <2>3, JobLeaseAssumption
<1>3. CASE ~\E d \in Device : HeldBy(j, d)'
  <2>1. holder'[j] = Nobody
    BY <1>3 DEF holder
  <2>2. \A l \in Lease : Active(l)' => lease'[l].job # j
    BY <1>3 DEF HeldBy, RowOK, Active
  <2> QED BY <1>3, <2>1, <2>2, JobLeaseAssumption
<1> QED BY <1>2, <1>3

\* A step that only releases leases strikes out the jobs they were for.
LEMMA ReleaseMeansVanish ==
  ASSUME TypeOK, RowOK, OneHolder, TypeOK', RowOK', OneHolder', NEW gone \in SUBSET Lease,
         \A l \in Lease : /\ Active(l)' <=> Active(l) /\ l \notin gone
                          /\ Active(l) => /\ lease'[l].job = lease[l].job
                                          /\ lease'[l].device = lease[l].device
  PROVE  holder' = Board!Without({j \in Job : \E l \in gone : Active(l) /\ lease[l].job = j})
<1> DEFINE G == {j \in Job : \E l \in gone : Active(l) /\ lease[l].job = j}
<1> SUFFICES ASSUME NEW j \in Job
             PROVE  holder'[j] = IF j \in G THEN Nobody ELSE holder[j]
  BY DEF Board!Without, holder
<1>1. CASE j \in G
  <2>1. \A l \in Lease : Active(l)' => lease'[l].job # j
    BY <1>1 DEF OneHolder
  <2> QED BY <1>1, <2>1, HolderIsPrimed
<1>2. CASE j \notin G
  <2>1. \A l \in Lease : (Active(l)' /\ lease'[l].job = j) <=> (Active(l) /\ lease[l].job = j)
    BY <1>2
  <2>2. \A d \in Device : HeldBy(j, d)' <=> HeldBy(j, d)
    BY <2>1 DEF HeldBy
  <2> QED BY <1>2, <2>1, <2>2, HolderIs, HolderIsPrimed
<1> QED BY <1>1, <1>2

\* Nothing happens on the board while no active lease and no phase changes.
LEMMA SameHolder ==
  ASSUME TypeOK, RowOK, OneHolder, TypeOK', RowOK', OneHolder',
         \A l \in Lease : /\ Active(l)' <=> Active(l)
                          /\ Active(l) => /\ lease'[l].job = lease[l].job
                                          /\ lease'[l].device = lease[l].device
  PROVE  holder' = holder
<1>1. holder' = Board!Without({j \in Job : \E l \in {} : Active(l) /\ lease[l].job = j})
  BY ReleaseMeansVanish
<1> QED BY <1>1 DEF Board!Without, holder

LEMMA PhaseValues ==
  /\ PhaseOf("NONE") = "absent"
  /\ PhaseOf("QUEUED") = "open"
  /\ PhaseOf("RETRY_WAIT") = "open"
  /\ PhaseOf("LEASED") = "open"
  /\ PhaseOf("HUMAN_TAKEOVER") = "shelved"
BY DEF PhaseOf

LEMMA PhaseExpiry ==
  ASSUME IInv, NEW lag \in Lag, NEW j \in Job
  PROVE  PhaseOf(StatusAfterExpiry(lag)[j]) = PhaseOf(jobStatus[j])
<1>1. \/ StatusAfterExpiry(lag)[j] = jobStatus[j]
      \/ StatusAfterExpiry(lag)[j] = "RETRY_WAIT" /\ jobStatus[j] = "LEASED"
  BY ExpiryAgrees
<1> QED BY <1>1, PhaseValues

-----------------------------------------------------------------------------
LEMMA BoardInit == Init => Board!Init
<1> SUFFICES ASSUME Init PROVE Board!Init
  OBVIOUS
<1>1. phase = [j \in Job |-> "absent"]
  BY DEF Init, phase, PhaseOf
<1>2. \A j \in Job : holder[j] = Nobody
  BY DEF Init, holder, HeldBy, Active, FreeLease
<1> QED BY <1>1, <1>2 DEF Board!Init, holder

LEMMA BoardStep == IInv /\ IInv' /\ [Next]_vars => [Board!Next]_(Board!vars)
<1> SUFFICES ASSUME IInv, IInv', [Next]_vars PROVE [Board!Next]_(Board!vars)
  OBVIOUS
<1>0. /\ TypeOK /\ RowOK /\ OneHolder /\ LeasedIffHeld
      /\ TypeOK' /\ RowOK' /\ OneHolder' /\ LeasedIffHeld'
  BY DEF IInv
<1> USE <1>0
<1> DEFINE Stutter == phase' = phase /\ holder' = holder
           Late_(lag) == {l \in Lease : Late(l, lag)}
           Gone(lag) == {j \in Job : \E l \in Late_(lag) : Active(l) /\ lease[l].job = j}
<1>1. ASSUME NEW j \in Job, CreateJob(j) PROVE Board!Post(j)
  <2>1. holder' = holder
    BY <1>1, SameHolder DEF CreateJob, Active
  <2>2. phase[j] = "absent"
    BY <1>1, PhaseValues DEF CreateJob, phase
  <2>3. \A k \in Job : jobStatus'[k] = IF k = j THEN "QUEUED" ELSE jobStatus[k]
    BY <1>1 DEF CreateJob, TypeOK
  <2>4. phase' = [phase EXCEPT ![j] = "open"]
    BY <2>3, PhaseValues DEF phase
  <2> QED BY <2>1, <2>2, <2>4 DEF Board!Post
<1>2. ASSUME NEW lag \in Lag, lease' = LeaseAfterExpiry(lag), jobStatus' = StatusAfterExpiry(lag)
      PROVE  Board!Vanish(Gone(lag))
  <2>1. holder' = Board!Without(Gone(lag))
    <3>1. \A l \in Lease : /\ Active(l)' <=> Active(l) /\ l \notin Late_(lag)
                           /\ lease'[l].job = lease[l].job
                           /\ lease'[l].device = lease[l].device
      BY <1>2, ExpiryTables DEF Active
    <3> QED BY <3>1, ReleaseMeansVanish
  <2>2. phase' = phase
    BY <1>2, PhaseExpiry DEF phase
  <2> QED BY <2>1, <2>2 DEF Board!Vanish
<1>3. ASSUME NEW d \in Device, NEW l \in Lease, NEW lag \in Lag, ClaimJob(d, l, lag)
      PROVE  \E j \in Job : Board!Take(d, j, Gone(lag))
  <2>1. PICK j \in Open(d, lag) :
          /\ lease' = [LeaseAfterExpiry(lag) EXCEPT
                         ![l] = [status |-> "ACTIVE", job |-> j,
                                 device |-> d, left |-> LeaseTTL - lag]]
          /\ jobStatus' = [StatusAfterExpiry(lag) EXCEPT ![j] = "LEASED"]
    BY <1>3 DEF ClaimJob
  <2>2. j \in Job /\ StatusAfterExpiry(lag)[j] \in Claimable
    BY JobLeaseAssumption DEF Open
  <2>3. ~Active(l) /\ ~Holding(d, lag)
    BY <1>3 DEF ClaimJob, Active
  <2>4. /\ Active(l)' /\ lease'[l].job = j /\ lease'[l].device = d
        /\ \A k \in Lease \ {l} : /\ Active(k)' <=> Active(k) /\ ~Late(k, lag)
                                  /\ lease'[k].job = lease[k].job
                                  /\ lease'[k].device = lease[k].device
    BY <2>1, ExpiryTables DEF Active
  <2>5. /\ phase' = phase
        /\ phase[j] = "open"
    <3>1. \A k \in Job : jobStatus'[k] = IF k = j THEN "LEASED" ELSE StatusAfterExpiry(lag)[k]
      BY <2>1, <2>2, ExpiryTables
    <3>2. phase[j] = "open"
      BY <2>2, PhaseExpiry DEF phase, PhaseOf, Claimable
    <3>3. \A k \in Job : PhaseOf(jobStatus'[k]) = PhaseOf(jobStatus[k])
      BY <3>1, <3>2, PhaseExpiry, PhaseValues DEF phase
    <3> QED BY <3>2, <3>3 DEF phase
  <2>6. \A k \in Job : Board!Without(Gone(lag))[k] =
                         IF k \in Gone(lag) THEN Nobody ELSE holder[k]
    BY DEF Board!Without
  <2>7. ASSUME NEW k \in Job, NEW e \in Device
        PROVE  Board!Without(Gone(lag))[k] = e <=>
                 \E m \in Lease : Active(m) /\ ~Late(m, lag) /\ lease[m].job = k /\ lease[m].device = e
    <3>1. CASE k \in Gone(lag)
      <4>1. PICK m \in Lease : Late(m, lag) /\ Active(m) /\ lease[m].job = k
        BY <3>1
      <4>2. \A n \in Lease : Active(n) /\ lease[n].job = k => n = m
        BY <4>1 DEF OneHolder
      <4> QED BY <2>6, <3>1, <4>1, <4>2, JobLeaseAssumption
    <3>2. CASE k \notin Gone(lag)
      BY <2>6, <3>2, HolderIs DEF HeldBy
    <3> QED BY <3>1, <3>2
  <2>8. \A m \in Lease : Active(m) /\ ~Late(m, lag) => lease[m].job # j /\ lease[m].device # d
    BY <2>2, <2>3, ExpiryAgrees DEF Holding, Claimable
  <2>9. Board!Without(Gone(lag))[j] = Nobody
    BY <2>2, <2>6, <2>7, <2>8, HolderIs
  <2>10. \A k \in Job : Board!Without(Gone(lag))[k] # d
    BY <2>7, <2>8
  <2>11. \A k \in Job : holder'[k] = IF k = j THEN d ELSE Board!Without(Gone(lag))[k]
    <3>1. holder'[j] = d
      BY <2>2, <2>4, HolderIsPrimed DEF HeldBy
    <3>2. ASSUME NEW k \in Job, k # j PROVE holder'[k] = Board!Without(Gone(lag))[k]
      <4>1. \A e \in Device : holder'[k] = e <=> Board!Without(Gone(lag))[k] = e
        BY <2>4, <2>3, <2>7, <3>2, HolderIsPrimed DEF HeldBy
      <4>2. Board!Without(Gone(lag))[k] \in Device \cup {Nobody}
        BY <2>6, HolderIs
      <4> QED BY <4>1, <4>2, HolderIsPrimed
    <3> QED BY <3>1, <3>2
  <2>12. holder' = [Board!Without(Gone(lag)) EXCEPT ![j] = d]
    BY <2>2, <2>11 DEF Board!Without, holder
  <2> QED BY <2>2, <2>5, <2>9, <2>10, <2>12 DEF Board!Take
<1>4. ASSUME NEW d \in Device, NEW l \in Lease, NEW s \in Step, NEW v \in Verdict,
             NEW cites \in BOOLEAN, NEW lag \in Lag, RecordStepResult(d, l, s, v, cites, lag)
      PROVE  \/ Stutter
             \/ \E j \in Job, p \in {"succeeded", "failed", "shelved", "open"} : Board!Settle(d, j, p)
  <2> DEFINE j == lease[l].job
             released == ReleaseStatus(j, s, v)
             next == NextStatus(j, s, v)
  <2>1. Active(l) /\ lease[l].device = d /\ j \in Job
    BY <1>4 DEF RecordStepResult, Admissible, RowOK, Active
  <2>2. jobStatus[j] = "LEASED" /\ holder[j] = d
    BY <2>1, HolderIs DEF LeasedIffHeld, HeldBy
  <2>3. \A k \in Job : phase'[k] = IF k = j THEN PhaseOf(next) ELSE phase[k]
    BY <1>4, <2>1 DEF RecordStepResult, phase, TypeOK
  <2>4. /\ released = "ACTIVE" <=> next = "LEASED"
        /\ released = "ACTIVE" \/ released \in Released
        /\ next \in {"LEASED", "SUCCEEDED", "RETRY_WAIT", "HUMAN_TAKEOVER", "FAILED"}
        /\ "ACTIVE" \notin Released
    BY DEF ReleaseStatus, NextStatus, Verdict, Released
  <2>5. CASE released = "ACTIVE"
    <3>1. lease' = lease
      BY <1>4, <2>5 DEF RecordStepResult
    <3>2. holder' = holder
      BY <3>1, SameHolder DEF Active
    <3>3. \A k \in Job : phase'[k] = phase[k]
      BY <2>2, <2>3, <2>4, <2>5 DEF phase, PhaseOf
    <3> QED BY <3>2, <3>3 DEF phase
  <2>6. CASE released \in Released
    <3>1. \A k \in Lease : /\ Active(k)' <=> Active(k) /\ k \notin {l}
                           /\ lease'[k].job = lease[k].job
                           /\ lease'[k].device = lease[k].device
      BY <1>4, <2>4, <2>6, ReleaseRow DEF RecordStepResult, Active, TypeOK
    <3>2. holder' = Board!Without({k \in Job : \E m \in {l} : Active(m) /\ lease[m].job = k})
      BY <3>1, ReleaseMeansVanish
    <3>3. holder' = [holder EXCEPT ![j] = Nobody]
      BY <2>1, <3>2 DEF Board!Without, holder
    <3>4. PhaseOf(next) \in {"succeeded", "failed", "shelved", "open"} /\ phase[j] = "open"
      BY <2>1, <2>2, <2>4 DEF phase, PhaseOf
    <3>5. phase' = [phase EXCEPT ![j] = PhaseOf(next)]
      BY <2>1, <2>3 DEF phase
    <3>6. Board!Settle(d, j, PhaseOf(next))
      BY <2>2, <3>3, <3>4, <3>5 DEF Board!Settle
    <3> QED BY <2>1, <3>4, <3>6
  <2> QED BY <2>4, <2>5, <2>6
<1>5. ASSUME CancelAll PROVE Board!CancelAll
  <2>1. \A l \in Lease : ~Active(l)'
    <3>1. \A l \in Lease : Active(l) => jobStatus[lease[l].job] = "LEASED"
      BY DEF LeasedIffHeld, RowOK, Active
    <3> QED BY <1>5, <3>1, ReleaseRow DEF CancelAll, Active, Terminal, Released, TypeOK
  <2>2. \A j \in Job : holder'[j] = Nobody
    BY <2>1, HolderIsPrimed
  <2>3. \A j \in Job : phase'[j] = IF phase[j] \in {"open", "shelved"} THEN "cancelled" ELSE phase[j]
    <3> SUFFICES ASSUME NEW j \in Job
                 PROVE  PhaseOf(jobStatus'[j]) =
                          IF PhaseOf(jobStatus[j]) \in {"open", "shelved"}
                          THEN "cancelled" ELSE PhaseOf(jobStatus[j])
      BY DEF phase
    <3>1. jobStatus'[j] = IF jobStatus[j] \in Terminal \cup {"NONE"} THEN jobStatus[j] ELSE "CANCELLED"
      BY <1>5 DEF CancelAll
    <3>2. jobStatus[j] \in JobStatus
      BY DEF TypeOK
    <3> QED BY <3>1, <3>2 DEF PhaseOf, JobStatus, Terminal, Claimable
  <2> QED BY <2>2, <2>3 DEF Board!CancelAll, phase, holder
<1>6. ASSUME NEW j \in Job, RetryTaskJobs(j) PROVE Stutter \/ Board!Reopen(j)
  <2>1. jobStatus[j] \in {"RETRY_WAIT", "HUMAN_TAKEOVER"}
    BY <1>6 DEF RetryTaskJobs
  <2>2. \A l \in Lease : Active(l) => lease[l].job # j
    BY <2>1 DEF LeasedIffHeld
  <2>3. holder' = holder
    BY <1>6, <2>2, SameHolder DEF RetryTaskJobs, Active
  <2>4. \A k \in Job : phase'[k] = IF k = j THEN "open" ELSE phase[k]
    <3>1. \A k \in Job : jobStatus'[k] = IF k = j THEN "QUEUED" ELSE jobStatus[k]
      BY <1>6 DEF RetryTaskJobs, TypeOK
    <3> QED BY <3>1, PhaseValues DEF phase
  <2>5. CASE jobStatus[j] = "RETRY_WAIT"
    <3>1. phase[j] = "open"
      BY <2>5 DEF phase, PhaseOf
    <3> QED BY <2>3, <2>4, <3>1 DEF phase
  <2>6. CASE jobStatus[j] = "HUMAN_TAKEOVER"
    <3>1. phase[j] = "shelved" /\ phase' = [phase EXCEPT ![j] = "open"]
      BY <2>4, <2>6, PhaseValues DEF phase
    <3> QED BY <2>3, <3>1 DEF Board!Reopen
  <2> QED BY <2>1, <2>5, <2>6
<1>7. ASSUME Tick \/ \E d \in Device, l \in Lease, lag \in Lag : RenewLease(d, l, lag)
      PROVE  Stutter
  <2>1. \A l \in Lease : /\ lease'[l].status = lease[l].status
                         /\ lease'[l].job = lease[l].job
                         /\ lease'[l].device = lease[l].device
    <3>1. CASE Tick
      BY <3>1 DEF Tick, TypeOK, LeaseRow
    <3>2. CASE \E d \in Device, l \in Lease, lag \in Lag : RenewLease(d, l, lag)
      BY <3>2 DEF RenewLease, TypeOK, LeaseRow
    <3> QED BY <1>7, <3>1, <3>2
  <2>2. holder' = holder
    BY <2>1, SameHolder DEF Active
  <2> QED BY <1>7, <2>2 DEF Tick, RenewLease, phase
<1>8. ASSUME UNCHANGED <<jobStatus, lease>> PROVE Stutter
  BY <1>8, SameHolder DEF phase, Active
<1>9. ASSUME NEW lag \in Lag, ExpireLeases(lag) \/ \E d \in Device : ClaimNothing(d, lag)
      PROVE  Board!Vanish(Gone(lag))
  BY <1>2, <1>9 DEF ExpireLeases, ClaimNothing
<1>10. \A lag \in Lag : Gone(lag) \in SUBSET Job
  OBVIOUS
<1>11. CASE Stutter
  BY <1>11 DEF Board!vars
<1>12. CASE Board!Next
  BY <1>12
<1> QED
  <2>1. Next \/ UNCHANGED vars
    OBVIOUS
  <2> HIDE DEF Stutter, Gone
  <2> QED BY <2>1, <1>1, <1>3, <1>4, <1>5, <1>6, <1>7, <1>8, <1>9, <1>10, <1>11, <1>12
          DEF Next, Board!Next, vars, ValidateUpload, StoreEvidence, PruneEvidence

\* The execution store implements the job board.
THEOREM Implements == Spec => BoardSpec
<1>1. IInv /\ IInv' /\ [Next]_vars => [Board!Next]_(Board!vars)
  BY BoardStep
<1> QED BY BoardInit, <1>1, Invariant, PTL DEF Spec, BoardSpec, Board!Spec
=============================================================================
