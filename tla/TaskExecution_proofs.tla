------------------------ MODULE TaskExecution_proofs ------------------------
(***************************************************************************)
(* Proofs about the heartbeat, dispatch, stop and retry handlers running   *)
(* side by side, for any number of phones, tasks, steps and leases.        *)
(***************************************************************************)
EXTENDS TaskExecution, JobLease_proofs, FiniteSetTheorems

Reporting == {"sync", "verify", "succeed", "settle"}

\* What the threads hold: the job or task they are about, and a job status to report
\* that fits where they are.
ThreadsOK ==
  /\ \A d \in Device :
       /\ phone[d].pc \in Reporting \cup {"recorded", "claimed", "assign", "execute"}
            => phone[d].job \in Job
       /\ phone[d].pc \in {"verify", "succeed"} => phone[d].seen = "SUCCEEDED"
       /\ phone[d].pc = "settle" => phone[d].seen \in {"RETRY_WAIT", "HUMAN_TAKEOVER", "FAILED"}
  /\ agent.pc # "idle" => agent.task \in Task
  /\ op.pc \in {"retry", "requeue"} => op.task \in Task

\* An end a handler has read and is about to report is still the job's.
ReadEndIsReal ==
  \A d \in Device :
    phone[d].pc \in Reporting /\ phone[d].seen \in {"SUCCEEDED", "FAILED"}
      => jobStatus[phone[d].job] = phone[d].seen

XInv == IInv /\ XTypeOK /\ ThreadsOK /\ ReadEndIsReal /\ ReportedEndIsReal

-----------------------------------------------------------------------------
LEMMA TaskStateValues ==
  Tasks!TaskState = {"RECEIVED", "PLANNING", "WAITING_APPROVAL", "QUEUED", "ASSIGNED", "EXECUTING",
                     "VERIFYING", "RETRY_WAIT", "HUMAN_TAKEOVER", "SUCCEEDED", "FAILED", "CANCELLED"}
BY DEF Tasks!TaskState, Tasks!Successors

\* Every handler step is a step of the execution store, or leaves it alone.
LEMMA StoreStep == ThreadsOK /\ [XNext]_xvars => [Next]_vars
<1> SUFFICES ASSUME ThreadsOK, XNext PROVE [Next]_vars
  BY DEF xvars, storeVars, vars
<1> USE DEF vars, storeVars, Task
<1>1. ASSUME NEW t \in Task, Create(t) \/ StartPlanning(t) \/ DispatchRead(t) \/ RetryRead(t)
      PROVE [Next]_vars
  BY <1>1 DEF Create, StartPlanning, DispatchRead, RetryRead
<1>2. CASE DispatchQueue
  BY <1>2 DEF DispatchQueue
<1>3. CASE DispatchCreate
  BY <1>3 DEF DispatchCreate, ThreadsOK, Next
<1>4. ASSUME NEW d \in Device, NEW l \in Lease, NEW s \in Step, NEW v \in Verdicts, NEW lag \in Lag,
             HeartbeatResult(d, l, s, v, lag)
      PROVE [Next]_vars
  BY <1>4, TaskExecutionAssumption DEF HeartbeatResult, Next
<1>5. ASSUME NEW d \in Device,
             \/ ReadJob(d) \/ SyncRead(d) \/ SyncVerify(d) \/ SyncSucceed(d) \/ SyncSettle(d)
             \/ AnswerWithoutJob(d) \/ ClaimRead(d) \/ SyncAssign(d) \/ SyncExecute(d)
      PROVE [Next]_vars
  BY <1>5 DEF ReadJob, SyncRead, SyncVerify, SyncSucceed, SyncSettle, SyncStep,
              AnswerWithoutJob, ClaimRead, SyncAssign, SyncExecute
<1>6. ASSUME NEW d \in Device, NEW lag \in Lag, HeartbeatClaim(d, lag) PROVE [Next]_vars
  BY <1>6 DEF HeartbeatClaim, Next
<1>7. ASSUME NEW d \in Device, NEW lag \in Lag, HeartbeatRenew(d, lag) PROVE [Next]_vars
  BY <1>7 DEF HeartbeatRenew, Next
<1>8. CASE \E route \in StopRoutes : StopList(route)
  BY <1>8 DEF StopList
<1>9. CASE StopTask \/ RetryQueue
  BY <1>9 DEF StopTask, RetryQueue
<1>10. CASE StopJobs
  BY <1>10 DEF StopJobs, Next
<1>11. CASE RetryRequeue
  BY <1>11 DEF RetryRequeue, ThreadsOK, Next
<1>12. CASE Restart
  BY <1>12 DEF Restart
<1>13. CASE Background
  BY <1>13 DEF Background, Next
<1> QED
  BY <1>1, <1>2, <1>3, <1>4, <1>5, <1>6, <1>7, <1>8, <1>9, <1>10, <1>11, <1>12, <1>13 DEF XNext

-----------------------------------------------------------------------------
\* A transition the store applied or replayed leaves the task tables well typed, and
\* moves no task but its own, and that one to the target.
LEMMA ApplyType ==
  ASSUME XTypeOK, NEW t \in Task, NEW version, NEW key, NEW target \in Tasks!TaskState,
         Apply(t, version, target, key)
  PROVE  /\ taskState' \in [Task -> Tasks!TaskState \cup {"NONE"}]
         /\ taskVersion' \in [Task -> Nat]
         /\ \A u \in Task : taskState'[u] = taskState[u] \/ (u = t /\ taskState'[u] = target)
BY DEF XTypeOK, Apply, Tasks!Transition, taskVars

LEMMA DiesKeeps ==
  ASSUME NEW t, NEW version, NEW key, NEW target, Dies(t, version, target, key)
  PROVE  UNCHANGED taskVars
BY DEF Dies

XTables == /\ taskState \in [Task -> Tasks!TaskState \cup {"NONE"}]
           /\ taskVersion \in [Task -> Nat]

Threads ==
  /\ phone \in [Device -> [pc : PhonePc, job : Job \cup {0}, version : Nat,
                           seen : JobStatus, lease : Lease \cup {Nobody}]]
  /\ op \in [pc : {"idle", "stop", "retry", "requeue"}, task : Task \cup {0}, version : Nat,
             route : {"api", "tool"}, listed : SUBSET Task, todo : SUBSET (Task \X Nat)]
  /\ agent \in [pc : {"idle", "queue", "create"}, task : Task \cup {0}, version : Nat]

LEMMA TypeParts == XTypeOK <=> TypeOK /\ XTables /\ Threads
BY DEF XTypeOK, XTables, Threads

\* Serving a heartbeat changes one phone's thread.
LEMMA ServeType ==
  ASSUME Threads, ThreadsOK, NEW d \in Device, NEW pc \in PhonePc, NEW j \in Job \cup {0},
         NEW version \in Nat, NEW seen \in JobStatus, NEW l \in Lease \cup {Nobody},
         pc \in Reporting \cup {"recorded", "claimed", "assign", "execute"} => j \in Job,
         pc \in {"verify", "succeed"} => seen = "SUCCEEDED",
         pc = "settle" => seen \in {"RETRY_WAIT", "HUMAN_TAKEOVER", "FAILED"},
         Serve(d, Thread(pc, j, version, seen, l))
  PROVE  Threads' /\ ThreadsOK'
BY DEF Threads, ThreadsOK, Serve, Thread

LEMMA IdleServeType ==
  ASSUME Threads, ThreadsOK, NEW d \in Device, Serve(d, IdlePhone)
  PROVE  Threads' /\ ThreadsOK'
BY DEF Threads, ThreadsOK, Serve, IdlePhone, Thread, PhonePc, JobStatus, Reporting

\* The other threads.
LEMMA OperateType ==
  ASSUME Threads, ThreadsOK, NEW thread,
         thread \in [pc : {"idle", "stop", "retry", "requeue"}, task : Task \cup {0}, version : Nat,
             route : {"api", "tool"}, listed : SUBSET Task, todo : SUBSET (Task \X Nat)],
         thread.pc \in {"retry", "requeue"} => thread.task \in Task,
         Operate(thread)
  PROVE  Threads' /\ ThreadsOK'
BY DEF Threads, ThreadsOK, Operate

LEMMA IdleOpType ==
  ASSUME Threads, ThreadsOK, Operate(IdleOp)
  PROVE  Threads' /\ ThreadsOK'
BY OperateType DEF IdleOp, Retrying

LEMMA PlanType ==
  ASSUME Threads, ThreadsOK, NEW thread,
         thread \in [pc : {"idle", "queue", "create"}, task : Task \cup {0}, version : Nat],
         thread.pc # "idle" => thread.task \in Task,
         Plan(thread)
  PROVE  Threads' /\ ThreadsOK'
BY DEF Threads, ThreadsOK, Plan

-----------------------------------------------------------------------------
\* The store's part of a step: its invariant holds again and ended jobs stay ended.
LEMMA StoreKept ==
  ASSUME IInv, ThreadsOK, [XNext]_xvars
  PROVE  /\ IInv'
         /\ \A j \in Job : jobStatus[j] \in Terminal => jobStatus'[j] = jobStatus[j]
<1>1. [Next]_vars
  BY StoreStep
<1> QED BY <1>1, TypeStep, SafetyStep, TerminalStep DEF IInv

\* One call of tasks.transition by a heartbeat handler.
LEMMA SyncStepType ==
  ASSUME XTypeOK, ThreadsOK, NEW d \in Device, NEW pc, NEW target \in Tasks!TaskState, NEW key,
         NEW nextpc \in {"succeed", "claim", "renew"},
         pc \in {"verify", "succeed", "settle", "execute"},
         nextpc = "succeed" => pc = "verify",
         SyncStep(d, pc, target, key, nextpc)
  PROVE  XTables' /\ Threads' /\ ThreadsOK'
<1> DEFINE t == phone[d].job
<1>0. t \in Job /\ phone[d].seen \in JobStatus /\ phone[d].lease \in Lease \cup {Nobody}
      /\ Threads /\ XTables /\ (pc = "verify" => phone[d].seen = "SUCCEEDED")
  BY TypeParts DEF SyncStep, ThreadsOK, Reporting, Threads
<1>1. CASE Apply(t, phone[d].version, target, key)
           /\ Serve(d, Thread(nextpc, t, taskVersion'[t], phone[d].seen, phone[d].lease))
  <2>1. XTables'
    BY <1>0, <1>1, ApplyType DEF XTables, Task
  <2>2. taskVersion'[t] \in Nat /\ nextpc \in PhonePc
    BY <1>0, <2>1 DEF XTables, Task, PhonePc
  <2> QED BY <1>0, <1>1, <2>1, <2>2, ServeType DEF Reporting
<1>2. CASE Dies(t, phone[d].version, target, key) /\ Serve(d, IdlePhone)
  BY <1>0, <1>2, IdleServeType DEF Dies, taskVars, XTables
<1> QED BY <1>1, <1>2 DEF SyncStep

LEMMA XTypeStep ==
  ASSUME IInv, XTypeOK, ThreadsOK, [XNext]_xvars
  PROVE  XTypeOK' /\ ThreadsOK'
<1>0. /\ Threads /\ XTables /\ TypeOK /\ TypeOK' /\ RowOK /\ RowOK'
      /\ \A d \in Device : /\ phone[d].job \in Job \cup {0} /\ phone[d].seen \in JobStatus
                           /\ phone[d].lease \in Lease \cup {Nobody} /\ phone[d].version \in Nat
  BY TypeParts, StoreKept DEF IInv, Threads
<1> SUFFICES ASSUME XNext PROVE XTables' /\ Threads' /\ ThreadsOK'
  BY <1>0 DEF XTypeOK, xvars, taskVars, Threads, XTables, ThreadsOK
<1> USE <1>0
<1>1. ASSUME NEW t \in Task, Create(t) PROVE XTables' /\ Threads' /\ ThreadsOK'
  BY <1>1, TaskStateValues DEF Create, Tasks!CreateTask, Threads, ThreadsOK, XTables
<1>2. ASSUME NEW t \in Task, StartPlanning(t) PROVE XTables' /\ Threads' /\ ThreadsOK'
  BY <1>2, TaskStateValues DEF StartPlanning, Tasks!Transition, Threads, ThreadsOK, XTables
<1>3. ASSUME NEW t \in Task, DispatchRead(t) PROVE XTables' /\ Threads' /\ ThreadsOK'
  BY <1>3, PlanType DEF DispatchRead, Dispatching, XTables, taskVars
<1>4. CASE DispatchQueue
  <2>1. agent.task \in Task /\ agent.version \in Nat /\ "QUEUED" \in Tasks!TaskState
    BY <1>4, TaskStateValues DEF DispatchQueue, ThreadsOK, Threads
  <2>2. XTables'
    BY <1>4, <2>1, ApplyType DEF DispatchQueue, XTables, Dies, taskVars
  <2> QED BY <1>4, <2>1, <2>2, PlanType DEF DispatchQueue, Dispatching, IdleAgent
<1>5. CASE DispatchCreate
  BY <1>5, PlanType DEF DispatchCreate, Dispatching, IdleAgent, XTables, taskVars
<1>6. ASSUME NEW d \in Device, NEW l \in Lease, NEW s \in Step, NEW v \in Verdicts, NEW lag \in Lag,
             HeartbeatResult(d, l, s, v, lag)
      PROVE XTables' /\ Threads' /\ ThreadsOK'
  <2>1. lease[l].job \in Job
    BY <1>6 DEF HeartbeatResult, RecordStepResult, Admissible, Active, RowOK
  <2> QED BY <1>6, <2>1, ServeType
          DEF HeartbeatResult, XTables, taskVars, PhonePc, JobStatus, Reporting
<1>7. ASSUME NEW d \in Device, ReadJob(d) PROVE XTables' /\ Threads' /\ ThreadsOK'
  BY <1>7, ServeType DEF ReadJob, XTables, taskVars, PhonePc, Reporting, ThreadsOK, TypeOK
<1>8. ASSUME NEW d \in Device, SyncRead(d) PROVE XTables' /\ Threads' /\ ThreadsOK'
  <2>1. phone[d].job \in Job /\ taskVersion[phone[d].job] \in Nat
    BY <1>8 DEF SyncRead, ThreadsOK, Reporting, XTables, Task
  <2> QED BY <1>8, <2>1, ServeType DEF SyncRead, XTables, taskVars, PhonePc, Reporting, Reportable
<1>9. ASSUME NEW d \in Device, SyncVerify(d) \/ SyncSucceed(d) \/ SyncExecute(d)
      PROVE XTables' /\ Threads' /\ ThreadsOK'
  BY <1>9, SyncStepType, TaskStateValues DEF SyncVerify, SyncSucceed, SyncExecute
<1>10. ASSUME NEW d \in Device, SyncSettle(d) PROVE XTables' /\ Threads' /\ ThreadsOK'
  <2>1. phone[d].seen \in Tasks!TaskState
    BY <1>10, TaskStateValues DEF SyncSettle, SyncStep, ThreadsOK
  <2> QED BY <1>10, <2>1, SyncStepType DEF SyncSettle
<1>11. ASSUME NEW d \in Device, AnswerWithoutJob(d) PROVE XTables' /\ Threads' /\ ThreadsOK'
  BY <1>11, IdleServeType DEF AnswerWithoutJob, XTables, taskVars
<1>12. ASSUME NEW d \in Device, NEW lag \in Lag, HeartbeatClaim(d, lag)
       PROVE XTables' /\ Threads' /\ ThreadsOK'
  <2>1. CASE Serve(d, IdlePhone)
    BY <1>12, <2>1, IdleServeType DEF HeartbeatClaim, XTables, taskVars
  <2>2. ASSUME NEW j \in Job, Serve(d, Thread("claimed", j, 0, "NONE", Nobody))
        PROVE Threads' /\ ThreadsOK'
    BY <2>2, ServeType DEF PhonePc, JobStatus, Reporting
  <2>3. ASSUME NEW l \in Lease, ClaimJob(d, l, lag) PROVE lease'[l].job \in Job
    <3>1. lease'[l].status = "ACTIVE"
      BY <2>3, ExpiryTables DEF ClaimJob
    <3> QED BY <3>1 DEF RowOK
  <2>4. ASSUME NEW l \in Lease, Active(l) PROVE lease[l].job \in Job
    BY <2>4 DEF Active, RowOK
  <2> QED BY <1>12, <2>1, <2>2, <2>3, <2>4 DEF HeartbeatClaim, XTables, taskVars
<1>13. ASSUME NEW d \in Device, ClaimRead(d) PROVE XTables' /\ Threads' /\ ThreadsOK'
  <2>1. phone[d].job \in Job /\ taskVersion[phone[d].job] \in Nat
    BY <1>13 DEF ClaimRead, ThreadsOK, XTables, Task
  <2> QED BY <1>13, <2>1, ServeType
          DEF ClaimRead, XTables, taskVars, PhonePc, JobStatus, Reporting
<1>14. ASSUME NEW d \in Device, SyncAssign(d) PROVE XTables' /\ Threads' /\ ThreadsOK'
  <2>1. phone[d].job \in Task /\ "ASSIGNED" \in Tasks!TaskState
    BY <1>14, TaskStateValues DEF SyncAssign, ThreadsOK, Task
  <2>2. XTables'
    BY <1>14, <2>1, ApplyType DEF SyncAssign, XTables, Dies, taskVars
  <2>3. taskVersion'[phone[d].job] \in Nat
    BY <2>1, <2>2 DEF XTables
  <2>4. CASE Serve(d, IdlePhone)
    BY <2>2, <2>4, IdleServeType
  <2>5. CASE ~Serve(d, IdlePhone)
    <3>1. PICK pc \in {"execute", "renew"} :
            Serve(d, Thread(pc, phone[d].job, taskVersion'[phone[d].job], "NONE", phone[d].lease))
      BY <1>14, <2>5 DEF SyncAssign
    <3>2. phone[d].job \in Job
      BY <2>1 DEF Task
    <3> QED BY <2>2, <2>3, <3>1, <3>2, ServeType DEF PhonePc, JobStatus, Reporting
  <2> QED BY <2>4, <2>5
<1>15. ASSUME NEW d \in Device, NEW lag \in Lag, HeartbeatRenew(d, lag)
       PROVE XTables' /\ Threads' /\ ThreadsOK'
  BY <1>15, IdleServeType DEF HeartbeatRenew, XTables, taskVars
<1>16. ASSUME NEW route \in StopRoutes, StopList(route) PROVE XTables' /\ Threads' /\ ThreadsOK'
  BY <1>16, OperateType, TaskExecutionAssumption DEF StopList, Stopping, XTables, taskVars
<1>17. CASE StopTask
  <2>1. PICK item \in op.todo :
          \/ Apply(item[1], item[2], "CANCELLED", <<"stop", item[2]>>)
             /\ Operate(Stopping(op.route, op.listed, op.todo \ {item}))
          \/ Dies(item[1], item[2], "CANCELLED", <<"stop", item[2]>>) /\ Operate(IdleOp)
    BY <1>17 DEF StopTask
  <2>2. item[1] \in Task /\ "CANCELLED" \in Tasks!TaskState
    BY TaskStateValues DEF Threads
  <2>3. XTables'
    BY <2>1, <2>2, ApplyType DEF XTables, Dies, taskVars
  <2> QED BY <2>1, <2>3, OperateType, IdleOpType DEF Stopping, Threads
<1>18. CASE StopJobs
  BY <1>18, IdleOpType DEF StopJobs, XTables, taskVars
<1>19. ASSUME NEW t \in Task, RetryRead(t) PROVE XTables' /\ Threads' /\ ThreadsOK'
  BY <1>19, OperateType DEF RetryRead, Retrying, XTables, taskVars
<1>20. CASE RetryQueue
  <2>1. op.task \in Task /\ op.version \in Nat /\ "QUEUED" \in Tasks!TaskState
    BY <1>20, TaskStateValues DEF RetryQueue, ThreadsOK, Threads
  <2>2. XTables'
    BY <1>20, <2>1, ApplyType DEF RetryQueue, XTables, Dies, taskVars
  <2> QED BY <1>20, <2>1, <2>2, OperateType, IdleOpType DEF RetryQueue, Retrying
<1>21. CASE RetryRequeue
  BY <1>21, IdleOpType DEF RetryRequeue, XTables, taskVars
<1>22. CASE Restart
  BY <1>22 DEF Restart, Threads, ThreadsOK, XTables, taskVars, IdlePhone, IdleOp, IdleAgent,
               Thread, Retrying, Dispatching, PhonePc, JobStatus, Reporting
<1>23. CASE Background
  BY <1>23 DEF Background, Threads, ThreadsOK, XTables, taskVars
<1> QED
  BY <1>1, <1>2, <1>3, <1>4, <1>5, <1>6, <1>7, <1>8, <1>9, <1>10, <1>11, <1>12, <1>13, <1>14,
     <1>15, <1>16, <1>17, <1>18, <1>19, <1>20, <1>21, <1>22, <1>23 DEF XNext

-----------------------------------------------------------------------------
\* What a step may do to a phone's thread: nothing, take it out of the report of a
\* result, give it a job status read in this very step, or carry the one it read on.
Carried(d) ==
  \/ phone'[d] = phone[d]
  \/ phone'[d].pc \notin Reporting
  \/ phone'[d].seen = jobStatus'[phone'[d].job]
  \/ /\ phone[d].pc \in Reporting
     /\ phone'[d].job = phone[d].job /\ phone'[d].seen = phone[d].seen

LEMMA ThreadCarried ==
  ASSUME XInv, [XNext]_xvars, NEW d \in Device
  PROVE  Carried(d)
<1>1. CASE UNCHANGED phone
  BY <1>1 DEF Carried
<1>2. ASSUME NEW e \in Device, NEW pc, NEW j, NEW version, NEW seen, NEW l,
             Serve(e, Thread(pc, j, version, seen, l)),
             \/ pc \notin Reporting
             \/ seen = jobStatus'[j]
             \/ phone[e].pc \in Reporting /\ j = phone[e].job /\ seen = phone[e].seen
      PROVE Carried(d)
  BY <1>2 DEF Carried, Serve, Thread, XInv, XTypeOK
<1>3. ASSUME NEW e \in Device, Serve(e, IdlePhone) PROVE Carried(d)
  BY <1>2, <1>3 DEF IdlePhone, Reporting
<1>4. ASSUME NEW e \in Device, NEW l \in Lease, NEW s \in Step, NEW v \in Verdicts, NEW lag \in Lag,
             HeartbeatResult(e, l, s, v, lag)
      PROVE Carried(d)
  BY <1>2, <1>4 DEF HeartbeatResult, Reporting
<1>5. ASSUME NEW e \in Device, ReadJob(e) PROVE Carried(d)
  BY <1>2, <1>5 DEF ReadJob, storeVars
<1>6. ASSUME NEW e \in Device, SyncRead(e) PROVE Carried(d)
  BY <1>2, <1>6 DEF SyncRead, Reporting
<1>7. ASSUME NEW e \in Device, NEW pc, NEW target, NEW key, NEW nextpc,
             SyncStep(e, pc, target, key, nextpc),
             pc \in Reporting \/ nextpc \notin Reporting
      PROVE Carried(d)
  BY <1>2, <1>3, <1>7 DEF SyncStep
<1>8. ASSUME NEW e \in Device, SyncVerify(e) \/ SyncSucceed(e) \/ SyncSettle(e) \/ SyncExecute(e)
      PROVE Carried(d)
  BY <1>7, <1>8 DEF SyncVerify, SyncSucceed, SyncSettle, SyncExecute, Reporting
<1>9. ASSUME NEW e \in Device, AnswerWithoutJob(e) \/ ClaimRead(e) PROVE Carried(d)
  BY <1>2, <1>3, <1>9 DEF AnswerWithoutJob, ClaimRead, Reporting
<1>10. ASSUME NEW e \in Device, SyncAssign(e) PROVE Carried(d)
  BY <1>2, <1>3, <1>10 DEF SyncAssign, Reporting
<1>11. ASSUME NEW e \in Device, NEW lag \in Lag, HeartbeatClaim(e, lag) \/ HeartbeatRenew(e, lag)
       PROVE Carried(d)
  BY <1>2, <1>3, <1>11 DEF HeartbeatClaim, HeartbeatRenew, Reporting
<1>12. CASE Restart
  BY <1>12 DEF Restart, Carried, IdlePhone, Thread, Reporting
<1>13. ASSUME NEW t \in Task, Create(t) \/ StartPlanning(t) \/ DispatchRead(t) \/ RetryRead(t)
       PROVE Carried(d)
  BY <1>1, <1>13 DEF Create, StartPlanning, DispatchRead, RetryRead, Plan, Operate
<1>14. CASE \/ DispatchQueue \/ DispatchCreate \/ StopTask \/ StopJobs \/ RetryQueue
            \/ RetryRequeue \/ Background \/ \E route \in StopRoutes : StopList(route)
  BY <1>1, <1>14 DEF DispatchQueue, DispatchCreate, StopTask, StopJobs, RetryQueue, RetryRequeue,
                     Background, StopList, Plan, Operate
<1> QED
  BY <1>1, <1>4, <1>5, <1>6, <1>8, <1>9, <1>10, <1>11, <1>12, <1>13, <1>14 DEF XNext, xvars

\* A task comes to SUCCEEDED or FAILED only by the hand of a handler that read it.
Reported(t) ==
  taskState'[t] \in {"SUCCEEDED", "FAILED"} =>
    \/ taskState'[t] = taskState[t]
    \/ \E d \in Device : phone[d].pc \in Reporting /\ phone[d].job = t
                        /\ phone[d].seen = taskState'[t]

LEMMA EndReported ==
  ASSUME XInv, [XNext]_xvars, NEW t \in Task
  PROVE  Reported(t)
<1>0. XTypeOK /\ ThreadsOK
  BY DEF XInv
<1>1. CASE UNCHANGED taskState
  BY <1>1 DEF Reported
<1>2. ASSUME NEW u, NEW version, NEW key, NEW target,
             Apply(u, version, target, key) \/ Dies(u, version, target, key),
             \/ target \notin {"SUCCEEDED", "FAILED"}
             \/ \E d \in Device : phone[d].pc \in Reporting /\ phone[d].job = u
                                 /\ phone[d].seen = target
      PROVE Reported(t)
  BY <1>0, <1>2 DEF Reported, XTypeOK, Apply, Dies, Tasks!Transition, taskVars
<1>3. ASSUME NEW u \in Task, Create(u) PROVE Reported(t)
  BY <1>0, <1>3 DEF Reported, XTypeOK, Create, Tasks!CreateTask
<1>4. ASSUME NEW u \in Task, StartPlanning(u) PROVE Reported(t)
  BY <1>2, <1>4 DEF StartPlanning, Apply
<1>5. ASSUME NEW u \in Task, DispatchRead(u) \/ RetryRead(u) PROVE Reported(t)
  BY <1>1, <1>5 DEF DispatchRead, RetryRead, taskVars
<1>6. CASE DispatchQueue
  BY <1>2, <1>6 DEF DispatchQueue
<1>7. CASE StopTask
  BY <1>2, <1>7 DEF StopTask
<1>8. CASE RetryQueue
  BY <1>2, <1>8 DEF RetryQueue
<1>9. ASSUME NEW d \in Device, SyncVerify(d) \/ SyncExecute(d) \/ SyncAssign(d) PROVE Reported(t)
  BY <1>2, <1>9 DEF SyncVerify, SyncExecute, SyncStep, SyncAssign
<1>10. ASSUME NEW d \in Device, SyncSucceed(d) PROVE Reported(t)
  <2>1. phone[d].pc \in Reporting /\ phone[d].seen = "SUCCEEDED"
    BY <1>0, <1>10 DEF SyncSucceed, SyncStep, ThreadsOK, Reporting
  <2> QED BY <1>2, <1>10, <2>1 DEF SyncSucceed, SyncStep
<1>11. ASSUME NEW d \in Device, SyncSettle(d) PROVE Reported(t)
  BY <1>2, <1>11 DEF SyncSettle, SyncStep, Reporting
<1>12. ASSUME NEW d \in Device, NEW l \in Lease, NEW s \in Step, NEW v \in Verdicts, NEW lag \in Lag,
              HeartbeatResult(d, l, s, v, lag)
       PROVE Reported(t)
  BY <1>1, <1>12 DEF HeartbeatResult, taskVars
<1>13. ASSUME NEW d \in Device, ReadJob(d) \/ SyncRead(d) \/ AnswerWithoutJob(d) \/ ClaimRead(d)
       PROVE Reported(t)
  BY <1>1, <1>13 DEF ReadJob, SyncRead, AnswerWithoutJob, ClaimRead, taskVars
<1>14. ASSUME NEW d \in Device, NEW lag \in Lag, HeartbeatClaim(d, lag) \/ HeartbeatRenew(d, lag)
       PROVE Reported(t)
  BY <1>1, <1>14 DEF HeartbeatClaim, HeartbeatRenew, taskVars
<1>15. CASE \/ DispatchCreate \/ StopJobs \/ RetryRequeue \/ Restart \/ Background
            \/ \E route \in StopRoutes : StopList(route)
  BY <1>1, <1>15 DEF DispatchCreate, StopJobs, RetryRequeue, Restart, Background, StopList, taskVars
<1> QED
  BY <1>1, <1>3, <1>4, <1>5, <1>6, <1>7, <1>8, <1>9, <1>10, <1>11, <1>12, <1>13, <1>14, <1>15
  DEF XNext, xvars, taskVars

-----------------------------------------------------------------------------
LEMMA XInitInv == XInit => XInv
<1> SUFFICES ASSUME XInit PROVE XInv
  OBVIOUS
<1>1. IInv
  BY InitIInv DEF XInit
<1>2. XTypeOK
  BY <1>1, TaskStateValues
  DEF XInit, XTypeOK, IInv, Tasks!TaskInit, IdlePhone, IdleOp, IdleAgent, Thread, Retrying,
      Dispatching, PhonePc, JobStatus
<1>3. ThreadsOK /\ ReadEndIsReal
  BY DEF XInit, ThreadsOK, ReadEndIsReal, IdlePhone, IdleOp, IdleAgent, Thread, Retrying,
         Dispatching, Reporting
<1>4. ReportedEndIsReal
  BY DEF XInit, ReportedEndIsReal, Tasks!TaskInit
<1> QED BY <1>1, <1>2, <1>3, <1>4 DEF XInv

LEMMA XStepInv == XInv /\ [XNext]_xvars => XInv'
<1> SUFFICES ASSUME XInv, [XNext]_xvars PROVE XInv'
  OBVIOUS
<1>1. IInv' /\ XTypeOK' /\ ThreadsOK'
  BY XTypeStep, StoreKept DEF XInv
<1>2. \A j \in Job : jobStatus[j] \in {"SUCCEEDED", "FAILED"} => jobStatus'[j] = jobStatus[j]
  BY StoreKept DEF XInv, Terminal
<1>3. ReadEndIsReal'
  <2> SUFFICES ASSUME NEW d \in Device, phone'[d].pc \in Reporting,
                      phone'[d].seen \in {"SUCCEEDED", "FAILED"}
               PROVE  jobStatus'[phone'[d].job] = phone'[d].seen
    BY DEF ReadEndIsReal
  <2>1. CASE phone[d].pc \in Reporting /\ phone'[d].job = phone[d].job /\ phone'[d].seen = phone[d].seen
    BY <1>2, <2>1 DEF XInv, ReadEndIsReal, ThreadsOK
  <2> QED BY <2>1, ThreadCarried DEF Carried
<1>4. ReportedEndIsReal'
  <2> SUFFICES ASSUME NEW t \in Task, taskState'[t] \in {"SUCCEEDED", "FAILED"}
               PROVE  jobStatus'[t] = taskState'[t]
    BY DEF ReportedEndIsReal
  <2>1. jobStatus[t] = taskState'[t]
    BY EndReported DEF Reported, XInv, ReadEndIsReal, ReportedEndIsReal
  <2> QED BY <1>2, <2>1 DEF Task
<1> QED BY <1>1, <1>3, <1>4 DEF XInv

LEMMA XInvariant == XSpec => []XInv
BY XInitInv, XStepInv, PTL DEF XSpec

\* The tables and the threads of the handlers stay well typed.
THEOREM XTypeCorrect == XSpec => []XTypeOK
BY XInvariant, PTL DEF XInv

\* However the handlers interleave, and wherever the server dies, a task that says
\* SUCCEEDED or FAILED has a job that did.
THEOREM ReportsCorrect == XSpec => []ReportedEndIsReal
BY XInvariant, PTL DEF XInv

\* The handlers use the execution store by its own steps: all that is proved of the
\* store holds of the system.
THEOREM StoreInUse == XSpec => Spec
<1>1. XInit => Init
  BY DEF XInit
<1>2. XInv /\ [XNext]_xvars => [Next]_vars
  BY StoreStep DEF XInv
<1> QED BY <1>1, <1>2, XInvariant, PTL DEF XSpec, Spec

-----------------------------------------------------------------------------
(***************************************************************************)
(* What the idempotency keys say.  A task is ASSIGNED once, because the    *)
(* key is used up, so a retried one stays in the queue or is cancelled; a  *)
(* stopped one is CANCELLED.                                               *)
(***************************************************************************)
Used(t, name) == \E e \in taskEvents : e[1] = t /\ e[2][1] = name

KeysMean ==
  \A t \in Task :
    /\ taskState[t] \in {"ASSIGNED", "EXECUTING", "VERIFYING", "RETRY_WAIT", "HUMAN_TAKEOVER"}
         => <<t, <<"assigned">>>> \in taskEvents
    /\ Used(t, "stop") => taskState[t] = "CANCELLED"
    /\ Used(t, "retry") => /\ <<t, <<"assigned">>>> \in taskEvents
                           /\ taskState[t] \in {"QUEUED", "CANCELLED"}

\* A handler about to move a task it found EXECUTING finds it so, or is refused.
VersionsRead ==
  \A d \in Device : phone[d].pc \in {"verify", "settle"} =>
    /\ phone[d].version <= taskVersion[phone[d].job]
    /\ phone[d].version = taskVersion[phone[d].job] => taskState[phone[d].job] = "EXECUTING"

\* A retry is of a task that had been assigned, and requeues its job under a used key.
RetryGoesOn ==
  /\ op.pc \in {"retry", "requeue"} => <<op.task, <<"assigned">>>> \in taskEvents
  /\ op.pc = "requeue" => Used(op.task, "retry")

\* A job shelved for a person when a handler read it is shelved still, or the task was
\* retried since and will not be handed over any more.
Shelved(j) == jobStatus[j] \in {"HUMAN_TAKEOVER", "CANCELLED"}

ReadShelfIsReal ==
  \A d \in Device :
    phone[d].pc \in {"sync", "settle"} /\ phone[d].seen = "HUMAN_TAKEOVER"
      => Shelved(phone[d].job) \/ Used(phone[d].job, "retry")

EventsFinite ==
  IsFiniteSet(taskEvents) /\ \A t \in Task : taskState[t] = "NONE" => taskVersion[t] = 0

KInv ==
  /\ XInv /\ KeysMean /\ VersionsRead /\ RetryGoesOn /\ ReadShelfIsReal /\ EventsFinite
  /\ HumanHolds /\ VersionCountsEvents /\ StopIsThorough

-----------------------------------------------------------------------------
\* The transitions the handlers ask for, and what the one that asks has read.
Asked(t, version, target, key) ==
  \/ <<target, key>> \in {<<"PLANNING", <<"planning">>>>, <<"QUEUED", <<"queued">>>>,
                          <<"VERIFYING", <<"verifying">>>>, <<"SUCCEEDED", <<"succeeded">>>>,
                          <<"ASSIGNED", <<"assigned">>>>, <<"EXECUTING", <<"executing">>>>,
                          <<"CANCELLED", <<"stop", version>>>>}
  \/ /\ target \in {"RETRY_WAIT", "HUMAN_TAKEOVER", "FAILED"} /\ key = <<"settled", target>>
     /\ \E d \in Device : /\ phone[d].pc = "settle" /\ phone[d].job = t
                          /\ phone[d].version = version /\ phone[d].seen = target
  \/ /\ target = "QUEUED" /\ key = <<"retry", version>>
     /\ op.pc = "retry" /\ op.task = t /\ op.version = version

Moved == \E t \in Task, version \in Nat, target \in Tasks!TaskState :
           \E key : Tasks!Transition(t, version, target, key) /\ Asked(t, version, target, key)

LEMMA TaskStep ==
  ASSUME XInv, [XNext]_xvars
  PROVE  UNCHANGED taskVars \/ (\E t \in Task : Tasks!CreateTask(t)) \/ Moved
<1>0. XTypeOK /\ ThreadsOK /\ Threads /\ XTables
  BY TypeParts DEF XInv
<1>1. ASSUME NEW t \in Task, NEW version \in Nat, NEW target \in Tasks!TaskState, NEW key,
             Apply(t, version, target, key) \/ Dies(t, version, target, key),
             Asked(t, version, target, key)
      PROVE  UNCHANGED taskVars \/ Moved
  BY <1>1 DEF Apply, Dies, Moved
<1>2. ASSUME NEW t \in Task, StartPlanning(t) PROVE Moved
  <2>1. taskVersion[t] \in Nat /\ "PLANNING" \in Tasks!TaskState
    BY <1>0, TaskStateValues DEF XTables
  <2> QED BY <1>2, <2>1 DEF StartPlanning, Moved, Asked
<1>3. ASSUME NEW t \in Task, Create(t) \/ DispatchRead(t) \/ RetryRead(t)
      PROVE  UNCHANGED taskVars \/ \E u \in Task : Tasks!CreateTask(u)
  BY <1>3 DEF Create, DispatchRead, RetryRead
<1>4. CASE DispatchQueue
  <2>1. agent.task \in Task /\ agent.version \in Nat /\ "QUEUED" \in Tasks!TaskState
    BY <1>0, <1>4, TaskStateValues DEF DispatchQueue, ThreadsOK, Threads
  <2>2. Asked(agent.task, agent.version, "QUEUED", <<"queued">>)
    BY DEF Asked
  <2> QED BY <1>1, <1>4, <2>1, <2>2 DEF DispatchQueue
<1>5. ASSUME NEW d \in Device,
             SyncVerify(d) \/ SyncSucceed(d) \/ SyncSettle(d) \/ SyncAssign(d) \/ SyncExecute(d)
      PROVE  UNCHANGED taskVars \/ Moved
  <2> DEFINE t == phone[d].job
  <2>1. t \in Task /\ phone[d].version \in Nat
    BY <1>0, <1>5 DEF SyncVerify, SyncSucceed, SyncSettle, SyncAssign, SyncExecute, SyncStep,
                      ThreadsOK, Threads, Reporting, Task
  <2>2. PICK target \in Tasks!TaskState, key \in {<<"verifying">>, <<"succeeded">>, <<"assigned">>,
                                    <<"executing">>, <<"settled", phone[d].seen>>} :
          /\ Apply(t, phone[d].version, target, key) \/ Dies(t, phone[d].version, target, key)
          /\ Asked(t, phone[d].version, target, key)
    <3>1. CASE SyncVerify(d)
      BY <3>1, TaskStateValues DEF SyncVerify, SyncStep, Asked
    <3>2. CASE SyncSucceed(d)
      BY <3>2, TaskStateValues DEF SyncSucceed, SyncStep, Asked
    <3>3. CASE SyncAssign(d)
      BY <3>3, TaskStateValues DEF SyncAssign, Asked
    <3>4. CASE SyncExecute(d)
      BY <3>4, TaskStateValues DEF SyncExecute, SyncStep, Asked
    <3>5. CASE SyncSettle(d)
      <4>1. /\ phone[d].pc = "settle"
            /\ phone[d].seen \in {"RETRY_WAIT", "HUMAN_TAKEOVER", "FAILED"}
            /\ phone[d].seen \in Tasks!TaskState
        BY <1>0, <3>5, TaskStateValues DEF SyncSettle, SyncStep, ThreadsOK
      <4>2. Asked(t, phone[d].version, phone[d].seen, <<"settled", phone[d].seen>>)
        BY <4>1 DEF Asked
      <4> QED BY <3>5, <4>1, <4>2 DEF SyncSettle, SyncStep
    <3> QED BY <1>5, <3>1, <3>2, <3>3, <3>4, <3>5
  <2> HIDE DEF t
  <2> QED BY <1>1, <2>1, <2>2
<1>6. CASE StopTask
  <2>1. PICK item \in op.todo :
          \/ Apply(item[1], item[2], "CANCELLED", <<"stop", item[2]>>)
          \/ Dies(item[1], item[2], "CANCELLED", <<"stop", item[2]>>)
    BY <1>6 DEF StopTask
  <2>2. item[1] \in Task /\ item[2] \in Nat /\ "CANCELLED" \in Tasks!TaskState
    BY <1>0, TaskStateValues DEF Threads
  <2>3. Asked(item[1], item[2], "CANCELLED", <<"stop", item[2]>>)
    BY DEF Asked
  <2> QED BY <1>1, <2>1, <2>2, <2>3
<1>7. CASE RetryQueue
  <2>1. op.task \in Task /\ op.version \in Nat /\ "QUEUED" \in Tasks!TaskState
    BY <1>0, <1>7, TaskStateValues DEF RetryQueue, ThreadsOK, Threads
  <2>2. Asked(op.task, op.version, "QUEUED", <<"retry", op.version>>)
    BY <1>7 DEF Asked, RetryQueue
  <2> QED BY <1>1, <1>7, <2>1, <2>2 DEF RetryQueue
<1>8. ASSUME NEW d \in Device,
             \/ ReadJob(d) \/ SyncRead(d) \/ AnswerWithoutJob(d) \/ ClaimRead(d)
             \/ \E lag \in Lag : HeartbeatClaim(d, lag) \/ HeartbeatRenew(d, lag)
             \/ \E l \in Lease, s \in Step, v \in Verdicts, lag \in Lag :
                  HeartbeatResult(d, l, s, v, lag)
      PROVE  UNCHANGED taskVars
  BY <1>8 DEF ReadJob, SyncRead, AnswerWithoutJob, ClaimRead, HeartbeatClaim, HeartbeatRenew,
              HeartbeatResult
<1>9. CASE \/ DispatchCreate \/ StopJobs \/ RetryRequeue \/ Restart \/ Background
           \/ \E route \in StopRoutes : StopList(route)
  BY <1>9 DEF DispatchCreate, StopJobs, RetryRequeue, Restart, Background, StopList
<1>10. CASE XNext
  <2> HIDE DEF Moved
  <2> QED BY <1>2, <1>3, <1>4, <1>5, <1>6, <1>7, <1>8, <1>9, <1>10 DEF XNext
<1> QED BY <1>10 DEF xvars

\* What a transition does to the tables, row by row.
LEMMA TransitionRows ==
  ASSUME XTables, NEW t \in Task, NEW version, NEW target \in Tasks!TaskState, NEW key,
         Tasks!Transition(t, version, target, key)
  PROVE  /\ \A u \in Task : /\ taskState'[u] = IF u = t THEN target ELSE taskState[u]
                            /\ taskVersion'[u] = IF u = t THEN taskVersion[u] + 1 ELSE taskVersion[u]
         /\ taskEvents' = taskEvents \cup {<<t, key>>} /\ <<t, key>> \notin taskEvents
         /\ version = taskVersion[t] /\ taskState[t] # "NONE"
         /\ taskState[t] \in Tasks!TaskState /\ target \in Tasks!Successors[taskState[t]]
BY DEF Tasks!Transition, Tasks!Accepted, Tasks!Replayed, XTables

\* A transition into a state comes from the states the graph leads there from.
LEMMA Predecessors ==
  ASSUME NEW from \in Tasks!TaskState, NEW to \in Tasks!Successors[from]
  PROVE  /\ from \notin Tasks!TerminalState
         /\ to \in {"VERIFYING", "RETRY_WAIT"} => from \in {"EXECUTING", "VERIFYING"}
         /\ to = "EXECUTING" => from = "ASSIGNED"
         /\ to = "ASSIGNED" => from = "QUEUED"
         /\ from = "QUEUED" => to \in {"ASSIGNED", "CANCELLED"}
         /\ from = "EXECUTING" => to # "EXECUTING"
BY TaskStateValues DEF Tasks!Successors, Tasks!TerminalState

\* The keys of one transition more.
LEMMA UsedNow ==
  ASSUME NEW t, NEW key, taskEvents' = taskEvents \cup {<<t, key>>}, NEW u, NEW name
  PROVE  Used(u, name)' <=> Used(u, name) \/ (u = t /\ key[1] = name)
<1> DEFINE new == <<t, key>>
<1>1. new[1] = t /\ new[2] = key
  OBVIOUS
<1>2. taskEvents' = taskEvents \cup {new}
  OBVIOUS
<1> HIDE DEF new
<1> QED BY <1>1, <1>2 DEF Used

\* A task is only ever moved to a state of the graph under the name of that move.
LEMMA AskedNames ==
  ASSUME NEW t, NEW version, NEW target, NEW key, Asked(t, version, target, key)
  PROVE  /\ key[1] = "stop" => target = "CANCELLED"
         /\ key[1] = "retry" => target = "QUEUED" /\ op.pc = "retry" /\ op.task = t
         /\ target = "ASSIGNED" => key = <<"assigned">>
         /\ target = "HUMAN_TAKEOVER" =>
              \E d \in Device : /\ phone[d].pc = "settle" /\ phone[d].job = t
                                /\ phone[d].version = version /\ phone[d].seen = target
BY DEF Asked

LEMMA CreateRows ==
  ASSUME XTables, NEW t \in Task, Tasks!CreateTask(t)
  PROVE  /\ taskState[t] = "NONE"
         /\ \A u \in Task : /\ taskState'[u] = IF u = t THEN "RECEIVED" ELSE taskState[u]
                            /\ taskVersion'[u] = IF u = t THEN 1 ELSE taskVersion[u]
         /\ taskEvents' = taskEvents \cup {<<t, <<"received">>>>}
BY DEF Tasks!CreateTask, XTables

LEMMA KeysMeanStep ==
  ASSUME KInv, [XNext]_xvars
  PROVE  KeysMean'
<1>0. XTables /\ Threads /\ ThreadsOK /\ KeysMean
  BY TypeParts DEF KInv, XInv
<1>1. CASE UNCHANGED taskVars
  BY <1>0, <1>1 DEF KeysMean, Used, taskVars
<1>2. ASSUME NEW t \in Task, Tasks!CreateTask(t) PROVE KeysMean'
  <2>1. \A u \in Task : /\ Used(u, "stop")' <=> Used(u, "stop")
                        /\ Used(u, "retry")' <=> Used(u, "retry")
    <3> DEFINE key == <<"received">>
    <3>1. taskEvents' = taskEvents \cup {<<t, key>>} /\ key[1] = "received"
      BY <1>0, <1>2, CreateRows
    <3> HIDE DEF key
    <3> QED BY <3>1, UsedNow
  <2>2. ~Used(t, "stop") /\ ~Used(t, "retry")
    BY <1>0, <1>2, CreateRows DEF KeysMean
  <2> QED BY <1>0, <1>2, <2>1, <2>2, CreateRows DEF KeysMean
<1>3. ASSUME NEW t \in Task, NEW version \in Nat, NEW target \in Tasks!TaskState, NEW key,
             Tasks!Transition(t, version, target, key), Asked(t, version, target, key)
      PROVE  KeysMean'
  <2>0. /\ \A u \in Task : taskState'[u] = IF u = t THEN target ELSE taskState[u]
        /\ taskEvents' = taskEvents \cup {<<t, key>>} /\ <<t, key>> \notin taskEvents
        /\ version = taskVersion[t]
        /\ taskState[t] \in Tasks!TaskState /\ target \in Tasks!Successors[taskState[t]]
    BY <1>0, <1>3, TransitionRows
  <2>1. /\ key[1] = "stop" => target = "CANCELLED"
        /\ key[1] = "retry" => target = "QUEUED" /\ op.pc = "retry" /\ op.task = t
        /\ target = "ASSIGNED" => key = <<"assigned">>
    BY <1>3, AskedNames
  <2>2. target = "HUMAN_TAKEOVER" => taskState[t] = "EXECUTING"
    BY <1>3, <2>0, AskedNames DEF KInv, VersionsRead
  <2>3. /\ taskState[t] \notin Tasks!TerminalState
        /\ target \in {"VERIFYING", "RETRY_WAIT"} => taskState[t] \in {"EXECUTING", "VERIFYING"}
        /\ target = "EXECUTING" => taskState[t] = "ASSIGNED"
        /\ taskState[t] = "QUEUED" => target \in {"ASSIGNED", "CANCELLED"}
    BY <2>0, Predecessors
  <2>4. \A u \in Task : \A name : Used(u, name)' <=> Used(u, name) \/ (u = t /\ key[1] = name)
    BY <2>0, UsedNow
  <2>5. \A u \in Task : u # t =>
          /\ taskState'[u] = taskState[u]
          /\ <<u, <<"assigned">>>> \in taskEvents' <=> <<u, <<"assigned">>>> \in taskEvents
    BY <2>0
  <2>6. target \in {"ASSIGNED", "EXECUTING", "VERIFYING", "RETRY_WAIT", "HUMAN_TAKEOVER"}
          => <<t, <<"assigned">>>> \in taskEvents'
    BY <1>0, <2>0, <2>1, <2>2, <2>3 DEF KeysMean
  <2>7. Used(t, "stop")' => target = "CANCELLED"
    BY <1>0, <2>1, <2>3, <2>4 DEF KeysMean, Tasks!TerminalState
  <2>8. Used(t, "retry")' => <<t, <<"assigned">>>> \in taskEvents' /\ target \in {"QUEUED", "CANCELLED"}
    <3>1. CASE Used(t, "retry")
      <4>1. <<t, <<"assigned">>>> \in taskEvents /\ taskState[t] = "QUEUED"
        BY <1>0, <2>3, <3>1 DEF KeysMean, Tasks!TerminalState
      <4>2. target # "ASSIGNED"
        BY <2>0, <2>1, <4>1
      <4> QED BY <2>0, <2>3, <4>1, <4>2
    <3>2. CASE key[1] = "retry"
      BY <2>0, <2>1, <3>2 DEF KInv, RetryGoesOn
    <3> QED BY <2>4, <3>1, <3>2
  <2> QED BY <1>0, <2>0, <2>4, <2>5, <2>6, <2>7, <2>8 DEF KeysMean
<1> QED BY <1>1, <1>2, <1>3, TaskStep DEF KInv, Moved

\* A version names one state of a task: either nothing moved it or the version is past.
LEMMA VersionStep ==
  ASSUME XInv, [XNext]_xvars, NEW t \in Task, taskState[t] # "NONE"
  PROVE  /\ taskVersion[t] <= taskVersion'[t]
         /\ taskVersion'[t] = taskVersion[t] => taskState'[t] = taskState[t]
         /\ taskState'[t] # "NONE"
         /\ taskState[t] \in Tasks!TerminalState => taskState'[t] = taskState[t]
<1>0. XTables /\ taskVersion[t] \in Nat
  BY TypeParts DEF XInv, XTables
<1>1. CASE UNCHANGED taskVars
  BY <1>0, <1>1 DEF taskVars
<1>2. ASSUME NEW u \in Task, Tasks!CreateTask(u)
      PROVE  taskVersion'[t] = taskVersion[t] /\ taskState'[t] = taskState[t]
  BY <1>0, <1>2, CreateRows
<1>3. ASSUME NEW u \in Task, NEW version \in Nat, NEW target \in Tasks!TaskState, NEW key,
             Tasks!Transition(u, version, target, key)
      PROVE  \/ taskVersion'[t] = taskVersion[t] /\ taskState'[t] = taskState[t]
             \/ /\ taskVersion'[t] = taskVersion[t] + 1 /\ taskState'[t] # "NONE"
                /\ taskState[t] \notin Tasks!TerminalState
  <2>1. /\ taskState'[t] = IF t = u THEN target ELSE taskState[t]
        /\ taskVersion'[t] = IF t = u THEN taskVersion[t] + 1 ELSE taskVersion[t]
        /\ taskState[u] \in Tasks!TaskState /\ target \in Tasks!Successors[taskState[u]]
    BY <1>0, <1>3, TransitionRows
  <2>2. taskState[u] \notin Tasks!TerminalState
    BY <2>1, Predecessors
  <2>3. target # "NONE"
    BY TaskStateValues
  <2> QED BY <2>1, <2>2, <2>3
<1> QED BY <1>0, <1>1, <1>2, <1>3, TaskStep DEF Moved

\* A heartbeat leaves the operator's thread alone.
LEMMA PhoneLeavesOp ==
  ASSUME NEW d \in Device,
         \/ ReadJob(d) \/ SyncRead(d) \/ AnswerWithoutJob(d) \/ ClaimRead(d)
         \/ SyncVerify(d) \/ SyncSucceed(d) \/ SyncSettle(d) \/ SyncAssign(d) \/ SyncExecute(d)
         \/ \E lag \in Lag : HeartbeatClaim(d, lag) \/ HeartbeatRenew(d, lag)
         \/ \E l \in Lease, s \in Step, v \in Verdicts, lag \in Lag :
              HeartbeatResult(d, l, s, v, lag)
  PROVE  UNCHANGED op
BY DEF ReadJob, SyncRead, AnswerWithoutJob, ClaimRead, HeartbeatClaim, HeartbeatRenew,
       HeartbeatResult, SyncVerify, SyncSucceed, SyncSettle, SyncAssign, SyncExecute,
       SyncStep, Serve

LEMMA StopThoroughStep ==
  ASSUME KInv, [XNext]_xvars
  PROVE  StopIsThorough'
<1>0. XTables /\ Threads /\ ThreadsOK /\ XInv /\ StopIsThorough /\ KeysMean
  BY TypeParts DEF KInv, XInv
<1>1. CASE UNCHANGED op
  <2> SUFFICES ASSUME op.pc = "stop", NEW t \in op.listed,
                      ~\E item \in op.todo : item[1] = t
               PROVE  taskState'[t] \in Tasks!TerminalState
    BY <1>1 DEF StopIsThorough
  <2>1. t \in Task /\ taskState[t] \in Tasks!TerminalState
    BY <1>0 DEF StopIsThorough, Threads
  <2> QED BY <1>0, <2>1, VersionStep DEF Tasks!TerminalState
<1>2. CASE op'.pc # "stop"
  BY <1>2 DEF StopIsThorough
<1>3. ASSUME NEW route \in StopRoutes, StopList(route) PROVE StopIsThorough'
  <2> DEFINE live == {t \in Task : taskState[t] \notin Tasks!TerminalState \cup {"NONE"}}
  <2>1. op'.listed = live /\ op'.todo = {<<t, taskVersion[t]>> : t \in live}
    BY <1>3 DEF StopList, Operate, Stopping
  <2>2. \A t \in live : \E item \in op'.todo : item[1] = t
    <3> SUFFICES ASSUME NEW t \in live PROVE \E item \in op'.todo : item[1] = t
      OBVIOUS
    <3>1. <<t, taskVersion[t]>> \in op'.todo /\ <<t, taskVersion[t]>>[1] = t
      BY <2>1
    <3> QED BY <3>1
  <2> QED BY <2>1, <2>2 DEF StopIsThorough
<1>4. CASE StopTask
  <2>1. PICK item \in op.todo :
          \/ /\ Apply(item[1], item[2], "CANCELLED", <<"stop", item[2]>>)
             /\ Operate(Stopping(op.route, op.listed, op.todo \ {item}))
          \/ Operate(IdleOp)
    BY <1>4 DEF StopTask
  <2>2. CASE Operate(IdleOp)
    BY <1>2, <2>2 DEF Operate, IdleOp, Retrying
  <2>3. CASE /\ Apply(item[1], item[2], "CANCELLED", <<"stop", item[2]>>)
             /\ Operate(Stopping(op.route, op.listed, op.todo \ {item}))
    <3>1. op.pc = "stop" /\ op'.listed = op.listed /\ op'.todo = op.todo \ {item}
      BY <1>4, <2>3 DEF StopTask, Operate, Stopping
    <3>2. item[1] \in Task
      BY <1>0 DEF Threads
    <3>3. taskState'[item[1]] = "CANCELLED"
      <4>1. CASE Tasks!Transition(item[1], item[2], "CANCELLED", <<"stop", item[2]>>)
        <5>1. ASSUME NEW t \in Task, NEW version, NEW key,
                     Tasks!Transition(t, version, "CANCELLED", key)
              PROVE  taskState'[t] = "CANCELLED"
          BY <1>0, <5>1 DEF Tasks!Transition, XTables
        <5> QED BY <3>2, <4>1, <5>1
      <4>2. CASE Tasks!Replayed(item[1], <<"stop", item[2]>>) /\ UNCHANGED taskVars
        <5>1. Used(item[1], "stop")
          BY <4>2 DEF Tasks!Replayed, Used
        <5> QED BY <1>0, <3>2, <4>2, <5>1 DEF KeysMean, taskVars
      <4> QED BY <2>3, <4>1, <4>2 DEF Apply
    <3>4. \A t \in op.listed : taskState[t] \in Tasks!TerminalState => taskState'[t] \in Tasks!TerminalState
      BY <1>0, VersionStep DEF Tasks!TerminalState, Threads
    <3>5. ASSUME NEW t \in op.listed
          PROVE  taskState'[t] \in Tasks!TerminalState \/ \E other \in op'.todo : other[1] = t
      BY <1>0, <3>1, <3>3, <3>4 DEF StopIsThorough, Tasks!TerminalState
    <3> QED BY <3>1, <3>5 DEF StopIsThorough
  <2> QED BY <2>1, <2>2, <2>3
<1>5. CASE StopJobs \/ RetryQueue \/ RetryRequeue \/ Restart \/ \E t \in Task : RetryRead(t)
  BY <1>2, <1>5 DEF StopJobs, RetryQueue, RetryRequeue, Restart, RetryRead, Operate, IdleOp, Retrying
<1>6. CASE \/ DispatchQueue \/ DispatchCreate \/ Background
           \/ \E t \in Task : Create(t) \/ StartPlanning(t) \/ DispatchRead(t)
  BY <1>1, <1>6 DEF DispatchQueue, DispatchCreate, Background, Create, StartPlanning, DispatchRead, Plan
<1> QED BY <1>1, <1>3, <1>4, <1>5, <1>6, PhoneLeavesOp DEF XNext, xvars

-----------------------------------------------------------------------------
\* What a step may do to a thread that reports a result, in more detail: nothing, give it
\* the job status read in this very step, or have it read the task with that status.
ReadNow(d) ==
  \/ phone'[d] = phone[d]
  \/ phone'[d].pc \notin {"sync", "verify", "settle"}
  \/ phone'[d].pc = "sync" /\ phone'[d].seen = jobStatus'[phone'[d].job]
  \/ /\ phone[d].pc = "sync" /\ phone'[d].pc # "sync"
     /\ phone'[d].job = phone[d].job /\ phone'[d].seen = phone[d].seen
     /\ phone'[d].version = taskVersion[phone[d].job] /\ taskState[phone[d].job] = "EXECUTING"
     /\ UNCHANGED taskVars

LEMMA ThreadReads ==
  ASSUME XInv, [XNext]_xvars, NEW d \in Device
  PROVE  ReadNow(d)
<1>0. Threads
  BY TypeParts DEF XInv
<1>1. CASE UNCHANGED phone
  BY <1>1 DEF ReadNow
<1>2. ASSUME NEW e \in Device, NEW thread, Serve(e, thread)
      PROVE  phone'[d] = IF d = e THEN thread ELSE phone[d]
  BY <1>0, <1>2 DEF Serve, Threads
<1>3. ASSUME NEW e \in Device, NEW pc, NEW j, NEW version, NEW seen, NEW l,
             Serve(e, Thread(pc, j, version, seen, l)), pc \notin {"sync", "verify", "settle"}
      PROVE  ReadNow(d)
  BY <1>2, <1>3 DEF ReadNow, Thread
<1>4. ASSUME NEW e \in Device, Serve(e, IdlePhone) PROVE ReadNow(d)
  BY <1>3, <1>4 DEF IdlePhone
<1>5. ASSUME NEW e \in Device, NEW l \in Lease, NEW s \in Step, NEW v \in Verdicts, NEW lag \in Lag,
             HeartbeatResult(e, l, s, v, lag)
      PROVE  ReadNow(d)
  BY <1>3, <1>5 DEF HeartbeatResult
<1>6. ASSUME NEW e \in Device, ReadJob(e) PROVE ReadNow(d)
  BY <1>2, <1>6 DEF ReadJob, ReadNow, Thread, storeVars
<1>7. ASSUME NEW e \in Device, SyncRead(e) PROVE ReadNow(d)
  BY <1>2, <1>7 DEF SyncRead, ReadNow, Thread, Reportable
<1>8. ASSUME NEW e \in Device,
             SyncVerify(e) \/ SyncSucceed(e) \/ SyncSettle(e) \/ SyncExecute(e) \/ SyncAssign(e)
      PROVE  ReadNow(d)
  BY <1>3, <1>4, <1>8 DEF SyncVerify, SyncSucceed, SyncSettle, SyncExecute, SyncAssign, SyncStep
<1>9. ASSUME NEW e \in Device, AnswerWithoutJob(e) \/ ClaimRead(e) PROVE ReadNow(d)
  BY <1>3, <1>4, <1>9 DEF AnswerWithoutJob, ClaimRead
<1>10. ASSUME NEW e \in Device, NEW lag \in Lag, HeartbeatClaim(e, lag) \/ HeartbeatRenew(e, lag)
       PROVE  ReadNow(d)
  BY <1>3, <1>4, <1>10 DEF HeartbeatClaim, HeartbeatRenew
<1>11. CASE Restart
  BY <1>11 DEF Restart, ReadNow, IdlePhone, Thread
<1>12. ASSUME NEW t \in Task, Create(t) \/ StartPlanning(t) \/ DispatchRead(t) \/ RetryRead(t)
       PROVE  ReadNow(d)
  BY <1>1, <1>12 DEF Create, StartPlanning, DispatchRead, RetryRead, Plan, Operate
<1>13. CASE \/ DispatchQueue \/ DispatchCreate \/ StopTask \/ StopJobs \/ RetryQueue
            \/ RetryRequeue \/ Background \/ \E route \in StopRoutes : StopList(route)
  BY <1>1, <1>13 DEF DispatchQueue, DispatchCreate, StopTask, StopJobs, RetryQueue, RetryRequeue,
                     Background, StopList, Plan, Operate
<1> QED
  BY <1>1, <1>5, <1>6, <1>7, <1>8, <1>9, <1>10, <1>11, <1>12, <1>13 DEF XNext, xvars

LEMMA VersionsReadStep ==
  ASSUME KInv, [XNext]_xvars
  PROVE  VersionsRead'
<1> SUFFICES ASSUME NEW d \in Device, phone'[d].pc \in {"verify", "settle"}
             PROVE  /\ phone'[d].version <= taskVersion'[phone'[d].job]
                    /\ phone'[d].version = taskVersion'[phone'[d].job]
                         => taskState'[phone'[d].job] = "EXECUTING"
  BY DEF VersionsRead
<1>0. XInv /\ XTables /\ Threads /\ ThreadsOK /\ VersionsRead /\ EventsFinite
  BY TypeParts DEF KInv, XInv
<1>1. CASE phone'[d] = phone[d]
  <2> DEFINE t == phone[d].job
  <2>1. /\ t \in Task /\ phone[d].version \in Nat /\ taskVersion[t] \in Nat
        /\ phone[d].version <= taskVersion[t]
        /\ phone[d].version = taskVersion[t] => taskState[t] = "EXECUTING"
    BY <1>0, <1>1 DEF VersionsRead, ThreadsOK, Reporting, Threads, XTables, Task
  <2>2. taskState[t] # "NONE"
    BY <1>0, <2>1 DEF EventsFinite
  <2>3. /\ taskVersion[t] <= taskVersion'[t]
        /\ taskVersion'[t] = taskVersion[t] => taskState'[t] = taskState[t]
    BY <1>0, <2>1, <2>2, VersionStep
  <2>4. taskVersion'[t] \in Nat
    BY <1>0, <2>1, XTypeStep, TypeParts DEF XInv, XTypeOK
  <2> HIDE DEF t
  <2>5. /\ phone[d].version <= taskVersion'[t]
        /\ phone[d].version = taskVersion'[t] => taskState'[t] = "EXECUTING"
    BY <2>1, <2>3, <2>4
  <2> QED BY <1>1, <2>5 DEF t
<1>2. CASE /\ phone[d].pc = "sync" /\ phone'[d].job = phone[d].job
           /\ phone'[d].version = taskVersion[phone[d].job] /\ taskState[phone[d].job] = "EXECUTING"
           /\ UNCHANGED taskVars
  <2>1. taskVersion[phone[d].job] \in Nat
    BY <1>0, <1>2 DEF XTables, ThreadsOK, Reporting, Task
  <2> QED BY <1>2, <2>1 DEF taskVars
<1> QED BY <1>0, <1>1, <1>2, ThreadReads DEF ReadNow

LEMMA EventsGrow ==
  ASSUME XInv, [XNext]_xvars
  PROVE  taskEvents \subseteq taskEvents'
<1>1. XTables
  BY TypeParts DEF XInv
<1>2. ASSUME NEW t \in Task, Tasks!CreateTask(t) PROVE taskEvents \subseteq taskEvents'
  BY <1>1, <1>2, CreateRows
<1>3. CASE Moved
  BY <1>1, <1>3, TransitionRows DEF Moved
<1> QED BY <1>2, <1>3, TaskStep DEF taskVars

LEMMA UsedStays ==
  ASSUME XInv, [XNext]_xvars, NEW t, NEW name, Used(t, name)
  PROVE  Used(t, name)'
BY EventsGrow DEF Used

LEMMA RetryGoesOnStep ==
  ASSUME KInv, [XNext]_xvars
  PROVE  RetryGoesOn'
<1>0. XInv /\ ThreadsOK /\ RetryGoesOn /\ KeysMean /\ taskEvents \subseteq taskEvents'
  BY EventsGrow DEF KInv, XInv
<1>1. CASE UNCHANGED op
  BY <1>0, <1>1, UsedStays DEF RetryGoesOn
<1>2. CASE op'.pc \in {"idle", "stop"}
  BY <1>2 DEF RetryGoesOn
<1>3. ASSUME NEW t \in Task, RetryRead(t) PROVE RetryGoesOn'
  <2>1. op'.pc = "retry" /\ op'.task = t
    BY <1>3 DEF RetryRead, Operate, Retrying
  <2> QED BY <1>0, <1>3, <2>1 DEF RetryRead, KeysMean, RetryGoesOn
<1>4. CASE RetryQueue
  <2>1. CASE Operate(IdleOp)
    BY <1>2, <2>1 DEF Operate, IdleOp, Retrying
  <2>2. CASE /\ Apply(op.task, op.version, "QUEUED", <<"retry", op.version>>)
             /\ Operate(Retrying("requeue", op.task, op.version))
    <3> DEFINE key == <<"retry", op.version>>
               event == <<op.task, key>>
    <3>1. event \in taskEvents'
      BY <2>2 DEF Apply, Tasks!Transition, Tasks!Replayed, taskVars
    <3>2. event[1] = op.task /\ event[2][1] = "retry"
      OBVIOUS
    <3>3. op'.pc = "requeue" /\ op'.task = op.task /\ op.pc = "retry"
      BY <1>4, <2>2 DEF RetryQueue, Operate, Retrying
    <3> HIDE DEF event, key
    <3> QED BY <1>0, <3>1, <3>2, <3>3 DEF RetryGoesOn, Used
  <2> QED BY <1>4, <2>1, <2>2 DEF RetryQueue
<1>5. ASSUME NEW route \in StopRoutes, StopList(route) PROVE op'.pc = "stop"
  BY <1>5 DEF StopList, Operate, Stopping
<1>6. CASE StopTask \/ StopJobs \/ RetryRequeue \/ Restart
  <2>1. op'.pc \in {"idle", "stop"}
    <3>1. CASE StopTask
      BY <3>1 DEF StopTask, Operate, IdleOp, Retrying, Stopping
    <3>2. CASE StopJobs \/ RetryRequeue \/ Restart
      BY <3>2 DEF StopJobs, RetryRequeue, Restart, Operate, IdleOp, Retrying
    <3> QED BY <1>6, <3>1, <3>2
  <2> QED BY <1>2, <2>1
<1>7. CASE \/ DispatchQueue \/ DispatchCreate \/ Background
           \/ \E t \in Task : Create(t) \/ StartPlanning(t) \/ DispatchRead(t)
  BY <1>1, <1>7 DEF DispatchQueue, DispatchCreate, Background, Create, StartPlanning, DispatchRead, Plan
<1> QED BY <1>1, <1>2, <1>3, <1>4, <1>5, <1>6, <1>7, PhoneLeavesOp DEF XNext, xvars

-----------------------------------------------------------------------------
\* A job on the shelf stays there, but for the requeue of a retry.
LEMMA ShelfStep ==
  ASSUME XInv, [XNext]_xvars, NEW j \in Job, Shelved(j)
  PROVE  Shelved(j)' \/ (op.pc = "requeue" /\ op.task = j)
<1> USE DEF Shelved
<1>0. IInv /\ TypeOK /\ \A l \in Lease : Active(l) => lease[l].job # j
  BY DEF XInv, IInv, LeasedIffHeld
<1>1. \A lag \in Lag : StatusAfterExpiry(lag)[j] = jobStatus[j]
  BY <1>0, ExpiryAgrees
<1>2. ASSUME UNCHANGED jobStatus \/ jobStatus'[j] = jobStatus[j] PROVE Shelved(j)'
  BY <1>2
<1>3. CASE DispatchCreate
  BY <1>0, <1>3 DEF DispatchCreate, CreateJob, TypeOK
<1>4. ASSUME NEW d \in Device, NEW l \in Lease, NEW s \in Step, NEW v \in Verdicts, NEW lag \in Lag,
             HeartbeatResult(d, l, s, v, lag)
      PROVE  jobStatus'[j] = jobStatus[j]
  BY <1>0, <1>4 DEF HeartbeatResult, RecordStepResult, Admissible, TypeOK, storeVars
<1>5. ASSUME NEW d \in Device, NEW lag \in Lag, HeartbeatClaim(d, lag)
      PROVE  jobStatus'[j] = jobStatus[j]
  <2>1. ASSUME NEW l \in Lease, ClaimJob(d, l, lag) PROVE jobStatus'[j] = jobStatus[j]
    <3>1. PICK k \in Open(d, lag) : jobStatus' = [StatusAfterExpiry(lag) EXCEPT ![k] = "LEASED"]
      BY <2>1 DEF ClaimJob
    <3>2. k # j
      BY <1>1 DEF Open, Claimable
    <3> QED BY <1>0, <1>1, <3>1, <3>2, ExpiryTables
  <2> QED BY <1>1, <1>5, <2>1 DEF HeartbeatClaim, ClaimNothing
<1>6. CASE StopJobs
  BY <1>0, <1>6 DEF StopJobs, CancelAll, Terminal, storeVars
<1>7. CASE RetryRequeue
  <2>1. CASE RetryTaskJobs(op.task) /\ op.task # j
    BY <1>0, <2>1 DEF RetryTaskJobs, TypeOK
  <2> QED BY <1>7, <2>1 DEF RetryRequeue, storeVars
<1>8. CASE Background
  BY <1>1, <1>8 DEF Background, Tick, ExpireLeases
<1>9. ASSUME NEW d \in Device, NEW lag \in Lag, HeartbeatRenew(d, lag) PROVE UNCHANGED jobStatus
  BY <1>9 DEF HeartbeatRenew, RenewLease, storeVars
<1>10. ASSUME NEW d \in Device,
              \/ ReadJob(d) \/ SyncRead(d) \/ SyncVerify(d) \/ SyncSucceed(d) \/ SyncSettle(d)
              \/ AnswerWithoutJob(d) \/ ClaimRead(d) \/ SyncAssign(d) \/ SyncExecute(d)
       PROVE  UNCHANGED jobStatus
  BY <1>10 DEF ReadJob, SyncRead, SyncVerify, SyncSucceed, SyncSettle, SyncStep,
               AnswerWithoutJob, ClaimRead, SyncAssign, SyncExecute, storeVars
<1>11. CASE \/ DispatchQueue \/ StopTask \/ RetryQueue \/ Restart
            \/ \E route \in StopRoutes : StopList(route)
            \/ \E t \in Task : Create(t) \/ StartPlanning(t) \/ DispatchRead(t) \/ RetryRead(t)
  BY <1>2, <1>11 DEF DispatchQueue, StopTask, RetryQueue, Restart, StopList, Create, StartPlanning,
               DispatchRead, RetryRead, storeVars
<1> QED
  BY <1>2, <1>3, <1>4, <1>5, <1>6, <1>7, <1>8, <1>9, <1>10, <1>11 DEF XNext, xvars, storeVars

\* With what the keys mean: shelved for good, or retried.
LEMMA ShelfStays ==
  ASSUME KInv, [XNext]_xvars, NEW j \in Job, Shelved(j) \/ Used(j, "retry")
  PROVE  Shelved(j)' \/ Used(j, "retry")'
BY ShelfStep, UsedStays DEF KInv, RetryGoesOn

LEMMA ReadShelfStep ==
  ASSUME KInv, [XNext]_xvars
  PROVE  ReadShelfIsReal'
<1> SUFFICES ASSUME NEW d \in Device, phone'[d].pc \in {"sync", "settle"},
                    phone'[d].seen = "HUMAN_TAKEOVER", NEW j, j = phone'[d].job
             PROVE  Shelved(j)' \/ Used(j, "retry")'
  BY DEF ReadShelfIsReal, Shelved, Used
<1>0. XInv /\ ThreadsOK /\ ReadShelfIsReal /\ ReadNow(d)
  BY ThreadReads DEF KInv, XInv
<1>1. CASE phone'[d].pc = "sync" /\ phone'[d].seen = jobStatus'[phone'[d].job]
  BY <1>1 DEF Shelved
<1>2. CASE /\ phone[d].pc \in {"sync", "settle"}
           /\ phone'[d].job = phone[d].job /\ phone'[d].seen = phone[d].seen
  <2>1. j \in Job /\ (Shelved(j) \/ Used(j, "retry"))
    BY <1>0, <1>2 DEF ThreadsOK, Reporting, ReadShelfIsReal
  <2> QED BY <2>1, ShelfStays
<1> QED BY <1>0, <1>1, <1>2 DEF ReadNow

LEMMA HumanHoldsStep ==
  ASSUME KInv, [XNext]_xvars
  PROVE  HumanHolds'
<1> SUFFICES ASSUME NEW t \in Task, taskState'[t] = "HUMAN_TAKEOVER"
             PROVE  Shelved(t)'
  BY DEF HumanHolds, Shelved
<1>0. XInv /\ XTables /\ ThreadsOK /\ KeysMean /\ RetryGoesOn
  BY TypeParts DEF KInv, XInv
<1>1. ~Used(t, "retry") /\ Shelved(t)
  <2>1. CASE taskState[t] = "HUMAN_TAKEOVER"
    BY <1>0, <2>1 DEF KInv, HumanHolds, KeysMean, Shelved
  <2>2. ASSUME NEW u \in Task, NEW version \in Nat, NEW target \in Tasks!TaskState, NEW key,
               Tasks!Transition(u, version, target, key), Asked(u, version, target, key),
               taskState[t] # "HUMAN_TAKEOVER"
        PROVE  ~Used(t, "retry") /\ Shelved(t)
    <3>1. u = t /\ target = "HUMAN_TAKEOVER" /\ version = taskVersion[t]
      BY <1>0, <2>2, TransitionRows
    <3>2. PICK d \in Device : /\ phone[d].pc = "settle" /\ phone[d].job = t
                              /\ phone[d].version = version /\ phone[d].seen = "HUMAN_TAKEOVER"
      BY <2>2, <3>1, AskedNames
    <3>3. taskState[t] = "EXECUTING"
      BY <3>1, <3>2 DEF KInv, VersionsRead
    <3> QED BY <1>0, <3>2, <3>3 DEF KInv, ReadShelfIsReal, KeysMean
  <2>3. ASSUME NEW u \in Task, Tasks!CreateTask(u) PROVE taskState[t] = "HUMAN_TAKEOVER"
    BY <1>0, <2>3, CreateRows
  <2> QED BY <1>0, <2>1, <2>2, <2>3, TaskStep DEF Moved, taskVars
<1>2. ~(op.pc = "requeue" /\ op.task = t)
  BY <1>0, <1>1 DEF RetryGoesOn
<1> QED BY <1>0, <1>1, <1>2, ShelfStep DEF Task

-----------------------------------------------------------------------------
EventsOf(t) == {e \in taskEvents : e[1] = t}

LEMMA EventsNow ==
  ASSUME NEW t, NEW key, taskEvents' = taskEvents \cup {<<t, key>>}, NEW u
  PROVE  EventsOf(u)' = IF u = t THEN EventsOf(u) \cup {<<t, key>>} ELSE EventsOf(u)
<1> DEFINE new == <<t, key>>
<1>1. new[1] = t /\ taskEvents' = taskEvents \cup {new}
  OBVIOUS
<1> HIDE DEF new
<1>2. EventsOf(u)' = IF u = t THEN EventsOf(u) \cup {new} ELSE EventsOf(u)
  BY <1>1 DEF EventsOf
<1> QED BY <1>2 DEF new

LEMMA CountStep ==
  ASSUME KInv, [XNext]_xvars
  PROVE  VersionCountsEvents' /\ EventsFinite'
<1> DEFINE Counts == /\ IsFiniteSet(taskEvents)
                     /\ \A t \in Task : /\ taskVersion[t] = Cardinality(EventsOf(t))
                                        /\ taskState[t] = "NONE" => taskVersion[t] = 0
<1>0. Counts /\ XInv /\ XTables
  BY TypeParts DEF KInv, XInv, VersionCountsEvents, EventsFinite, EventsOf
<1>1. \A t \in Task : IsFiniteSet(EventsOf(t))
  BY <1>0, FS_Subset DEF EventsOf
<1> SUFFICES Counts'
  BY DEF VersionCountsEvents, EventsFinite, EventsOf
<1>2. CASE UNCHANGED taskVars
  BY <1>0, <1>2 DEF taskVars, EventsOf
<1>3. ASSUME NEW t \in Task, Tasks!CreateTask(t) PROVE Counts'
  <2>0. XTables /\ Tasks!CreateTask(t)
    BY <1>0, <1>3
  <2>1. /\ taskState[t] = "NONE"
        /\ \A u \in Task : /\ taskState'[u] = IF u = t THEN "RECEIVED" ELSE taskState[u]
                           /\ taskVersion'[u] = IF u = t THEN 1 ELSE taskVersion[u]
        /\ taskEvents' = taskEvents \cup {<<t, <<"received">>>>}
    BY <2>0, CreateRows
  <2>2. EventsOf(t) = {}
    BY <1>0, <1>1, <2>1, FS_EmptySet
  <2>3. \A u \in Task : EventsOf(u)' = IF u = t THEN EventsOf(u) \cup {<<t, <<"received">>>>}
                                       ELSE EventsOf(u)
    BY <2>1, EventsNow
  <2>4. Cardinality(EventsOf(t) \cup {<<t, <<"received">>>>}) = 1
    BY <2>2, FS_Singleton
  <2>5. IsFiniteSet(taskEvents')
    BY <1>0, <2>1, FS_AddElement
  <2> QED BY <1>0, <2>1, <2>3, <2>4, <2>5
<1>4. ASSUME NEW t \in Task, NEW version \in Nat, NEW target \in Tasks!TaskState, NEW key,
             Tasks!Transition(t, version, target, key)
      PROVE  Counts'
  <2>1. /\ \A u \in Task : /\ taskState'[u] = IF u = t THEN target ELSE taskState[u]
                           /\ taskVersion'[u] = IF u = t THEN taskVersion[u] + 1 ELSE taskVersion[u]
        /\ taskEvents' = taskEvents \cup {<<t, key>>} /\ <<t, key>> \notin taskEvents
    BY <1>0, <1>4, TransitionRows
  <2>0. target # "NONE"
    BY TaskStateValues
  <2>2. \A u \in Task : EventsOf(u)' = IF u = t THEN EventsOf(u) \cup {<<t, key>>} ELSE EventsOf(u)
    BY <2>1, EventsNow
  <2>3. Cardinality(EventsOf(t) \cup {<<t, key>>}) = Cardinality(EventsOf(t)) + 1
    <3>1. <<t, key>> \notin EventsOf(t)
      BY <2>1 DEF EventsOf
    <3> QED BY <1>1, <3>1, FS_AddElement
  <2>4. IsFiniteSet(taskEvents')
    BY <1>0, <2>1, FS_AddElement
  <2> QED BY <1>0, <2>0, <2>1, <2>2, <2>3, <2>4
<1> QED BY <1>0, <1>2, <1>3, <1>4, TaskStep DEF Moved

-----------------------------------------------------------------------------
LEMMA KInitInv == XInit => KInv
<1> SUFFICES ASSUME XInit PROVE KInv
  OBVIOUS
<1>1. XInv
  BY XInitInv
<1>2. KeysMean /\ HumanHolds
  BY DEF XInit, Tasks!TaskInit, KeysMean, HumanHolds, Used
<1>3. VersionsRead /\ RetryGoesOn /\ ReadShelfIsReal /\ StopIsThorough
  BY DEF XInit, VersionsRead, RetryGoesOn, ReadShelfIsReal, StopIsThorough, IdlePhone, IdleOp,
         Thread, Retrying
<1>4. EventsFinite
  BY FS_EmptySet DEF XInit, Tasks!TaskInit, EventsFinite
<1>5. VersionCountsEvents
  <2>1. ASSUME NEW t \in Task PROVE taskVersion[t] = 0 /\ {e \in taskEvents : e[1] = t} = {}
    BY DEF XInit, Tasks!TaskInit
  <2> QED BY <2>1, FS_EmptySet DEF VersionCountsEvents
<1> QED BY <1>1, <1>2, <1>3, <1>4, <1>5 DEF KInv

LEMMA KInvariant == XSpec => []KInv
<1>1. KInv /\ [XNext]_xvars => KInv'
  BY XStepInv, KeysMeanStep, VersionsReadStep, RetryGoesOnStep, ReadShelfStep, CountStep,
     HumanHoldsStep, StopThoroughStep DEF KInv
<1> QED BY KInitInv, <1>1, PTL DEF XSpec

\* While a task waits for a person its job is on the shelf, whatever late reports, retries,
\* claims and expiries race for it.
THEOREM PersonHolds == XSpec => []HumanHolds
BY KInvariant, PTL DEF KInv

\* The version of a task counts its events: each key moved it exactly once.
THEOREM VersionsCount == XSpec => []VersionCountsEvents
BY KInvariant, PTL DEF KInv

\* A stop request under way has ended every task it has dealt with.
THEOREM StopsThoroughly == XSpec => []StopIsThorough
BY KInvariant, PTL DEF KInv
=============================================================================
