---------------------------- MODULE TaskExecution ----------------------------
(***************************************************************************)
(* Tasks and the jobs that carry them out: the heartbeat handler           *)
(* (execution_service.heartbeat_job), the operator's stop-all and retry    *)
(* endpoints and the agent's dispatch, run by concurrent server threads    *)
(* over the two stores.  Every store operation is a transaction of its     *)
(* own; what a handler read stays in its thread until it is used.          *)
(*                                                                         *)
(* Task t's job has the number of the task: dispatch compiles at most one  *)
(* job per task, its step ids carry the task id and are a primary key.     *)
(***************************************************************************)
EXTENDS JobLease

CONSTANTS
  Verdicts,    \* the step results phones report in this instance
  StopRoutes,  \* where a stop comes from: "api" (endpoint), "tool" (Hermes tool)
  Restarts     \* TRUE: the server may die and come back

VARIABLES
  taskState, taskVersion, taskEvents,
  phone,   \* [Device -> the thread serving the phone's heartbeat]
  op,      \* the thread serving the operator (or the stop tool)
  agent    \* the thread serving the agent's dispatch

Task == Job

Tasks == INSTANCE TaskStore

ASSUME TaskExecutionAssumption ==
  Verdicts \subseteq Verdict /\ StopRoutes \subseteq {"api", "tool"} /\ Restarts \in BOOLEAN

storeVars == <<jobStatus, results, lease, uploads, evidence>>
taskVars == <<taskState, taskVersion, taskEvents>>
xvars == <<storeVars, taskVars, phone, op, agent>>

-----------------------------------------------------------------------------
(***************************************************************************)
(* Threads: where the handler is, the task (or job) it is about, the       *)
(* version it read, and the job status or lease it read.                   *)
(***************************************************************************)
Thread(pc, j, version, seen, l) ==
  [pc |-> pc, job |-> j, version |-> version, seen |-> seen, lease |-> l]

Stopping(route, listed, todo) ==
  [pc |-> "stop", task |-> 0, version |-> 0, route |-> route, listed |-> listed, todo |-> todo]

Retrying(pc, t, version) ==
  [pc |-> pc, task |-> t, version |-> version, route |-> "api", listed |-> {}, todo |-> {}]

Dispatching(pc, t, version) == [pc |-> pc, task |-> t, version |-> version]

IdlePhone == Thread("idle", 0, 0, "NONE", Nobody)
IdleOp == Retrying("idle", 0, 0)
IdleAgent == Dispatching("idle", 0, 0)

XInit ==
  /\ Init
  /\ Tasks!TaskInit
  /\ phone = [d \in Device |-> IdlePhone]
  /\ op = IdleOp
  /\ agent = IdleAgent

Serve(d, thread) ==
  /\ phone' = [phone EXCEPT ![d] = thread]
  /\ UNCHANGED <<op, agent>>

Operate(thread) == op' = thread /\ UNCHANGED <<phone, agent>>

Plan(thread) == agent' = thread /\ UNCHANGED <<phone, op>>

\* A handler calls tasks.transition with what it read: it goes on when the call
\* applies or replays, and dies on a VersionConflict or an InvalidTransition.
Apply(t, version, target, key) ==
  \/ Tasks!Transition(t, version, target, key)
  \/ Tasks!Replayed(t, key) /\ UNCHANGED taskVars

Dies(t, version, target, key) ==
  Tasks!Refused(t, version, target, key) /\ UNCHANGED taskVars

-----------------------------------------------------------------------------
(***************************************************************************)
(* The agent: create the task, plan it, dispatch a workflow.               *)
(***************************************************************************)
Create(t) ==
  /\ Tasks!CreateTask(t)
  /\ UNCHANGED <<storeVars, phone, op, agent>>

StartPlanning(t) ==
  /\ Tasks!Transition(t, taskVersion[t], "PLANNING", <<"planning">>)
  /\ UNCHANGED <<storeVars, phone, op, agent>>

DispatchRead(t) ==
  /\ agent.pc = "idle" /\ taskState[t] = "PLANNING"
  /\ Plan(Dispatching("queue", t, taskVersion[t]))
  /\ UNCHANGED <<storeVars, taskVars>>

DispatchQueue ==
  LET t == agent.task IN
  /\ agent.pc = "queue"
  /\ \/ Apply(t, agent.version, "QUEUED", <<"queued">>) /\ Plan(Dispatching("create", t, agent.version))
     \/ Dies(t, agent.version, "QUEUED", <<"queued">>) /\ Plan(IdleAgent)
  /\ UNCHANGED storeVars

DispatchCreate ==
  /\ agent.pc = "create"
  /\ CreateJob(agent.task)
  /\ Plan(IdleAgent)
  /\ UNCHANGED taskVars

-----------------------------------------------------------------------------
(***************************************************************************)
(* A heartbeat.  It may bring the result of a step.                        *)
(***************************************************************************)
HeartbeatResult(d, l, s, v, lag) ==
  /\ phone[d].pc = "idle"
  /\ \/ RecordStepResult(d, l, s, v, FALSE, lag)
     \/ /\ Admissible(d, l, s, FALSE, lag)
        /\ results[lease[l].job][s] # "NONE"
        /\ UNCHANGED storeVars
  /\ Serve(d, Thread("recorded", lease[l].job, 0, "NONE", Nobody))
  /\ UNCHANGED taskVars

\* Mutant: the handler goes by the result of a step instead of the job's status.
ReadStep(d) ==
  /\ phone[d].pc = "recorded"
  /\ \E s \in Step : Serve(d, Thread("sync", phone[d].job, 0, results[phone[d].job][s], Nobody))
  /\ UNCHANGED <<storeVars, taskVars>>

\* record_step_result returns get_job, read after its transaction.
ReadJob(d) ==
  /\ phone[d].pc = "recorded"
  /\ Serve(d, Thread("sync", phone[d].job, 0, jobStatus[phone[d].job], Nobody))
  /\ UNCHANGED <<storeVars, taskVars>>

\* The job statuses _sync_task_after_result passes on to the task.
Reportable == {"SUCCEEDED", "RETRY_WAIT", "HUMAN_TAKEOVER", "FAILED"}

\* _sync_task_after_result reads the task and decides what to do with it.
SyncRead(d) ==
  LET t == phone[d].job
      seen == phone[d].seen
      report == IF taskState[t] # "EXECUTING" \/ seen \notin Reportable THEN "claim"
                ELSE IF seen = "SUCCEEDED" THEN "verify" ELSE "settle"
  IN /\ phone[d].pc = "sync"
     /\ Serve(d, Thread(report, t, taskVersion[t], seen, Nobody))
     /\ UNCHANGED <<storeVars, taskVars>>

\* One call of tasks.transition by the handler; the row it returns is what the next
\* call works with.
SyncStep(d, pc, target, key, nextpc) ==
  LET t == phone[d].job IN
  /\ phone[d].pc = pc
  /\ \/ /\ Apply(t, phone[d].version, target, key)
        /\ Serve(d, Thread(nextpc, t, taskVersion'[t], phone[d].seen, phone[d].lease))
     \/ Dies(t, phone[d].version, target, key) /\ Serve(d, IdlePhone)
  /\ UNCHANGED storeVars

SyncVerify(d) == SyncStep(d, "verify", "VERIFYING", <<"verifying">>, "succeed")
SyncSucceed(d) == SyncStep(d, "succeed", "SUCCEEDED", <<"succeeded">>, "claim")
SyncSettle(d) == SyncStep(d, "settle", phone[d].seen, <<"settled", phone[d].seen>>, "claim")

\* A worker that is PAUSED, TAKEOVER, OFFLINE or ERROR gets no job.
AnswerWithoutJob(d) ==
  /\ phone[d].pc = "claim"
  /\ Serve(d, IdlePhone)
  /\ UNCHANGED <<storeVars, taskVars>>

\* claim_job: issues a lease, or returns the job the phone already holds, or nothing.
HeartbeatClaim(d, lag) ==
  /\ phone[d].pc \in {"idle", "claim"}
  /\ \/ \E l \in Lease :
          /\ ClaimJob(d, l, lag)
          /\ Serve(d, Thread("claimed", lease'[l].job, 0, "NONE", Nobody))
     \/ /\ ClaimNothing(d, lag)
        /\ \/ \E l \in Lease :
                /\ Active(l) /\ ~Late(l, lag) /\ lease[l].device = d
                /\ Serve(d, Thread("claimed", lease[l].job, 0, "NONE", Nobody))
           \/ ~Holding(d, lag) /\ Serve(d, IdlePhone)
  /\ UNCHANGED taskVars

\* get_job after the claim, then _sync_task_after_claim reads the task.  The job's
\* lease is whichever is active by now, if any.
ClaimRead(d) ==
  LET j == phone[d].job
      held == {l \in Lease : Active(l) /\ lease[l].job = j}
      advance == IF taskState[j] = "QUEUED" THEN "assign"
                 ELSE IF taskState[j] = "ASSIGNED" THEN "execute" ELSE "renew"
  IN /\ phone[d].pc = "claimed"
     /\ \E l \in IF held = {} THEN {Nobody} ELSE held :
          Serve(d, Thread(advance, j, taskVersion[j], "NONE", l))
     /\ UNCHANGED <<storeVars, taskVars>>

\* The row returned need not be ASSIGNED: a replayed key returns the task as it is.
SyncAssign(d) ==
  LET t == phone[d].job IN
  /\ phone[d].pc = "assign"
  /\ \/ /\ Apply(t, phone[d].version, "ASSIGNED", <<"assigned">>)
        /\ Serve(d, Thread(IF taskState'[t] = "ASSIGNED" THEN "execute" ELSE "renew",
                           t, taskVersion'[t], "NONE", phone[d].lease))
     \/ Dies(t, phone[d].version, "ASSIGNED", <<"assigned">>) /\ Serve(d, IdlePhone)
  /\ UNCHANGED storeVars

SyncExecute(d) == SyncStep(d, "execute", "EXECUTING", <<"executing">>, "renew")

\* renew_lease raises LeaseConflict when the lease is gone; either way the answer is sent.
HeartbeatRenew(d, lag) ==
  /\ phone[d].pc = "renew"
  /\ \/ phone[d].lease \in Lease /\ RenewLease(d, phone[d].lease, lag)
     \/ /\ ~\E l \in Lease : l = phone[d].lease /\ Active(l) /\ lease[l].device = d /\ ~Late(l, lag)
        /\ UNCHANGED storeVars
  /\ Serve(d, IdlePhone)
  /\ UNCHANGED taskVars

-----------------------------------------------------------------------------
(***************************************************************************)
(* The operator: stop everything, retry a task.                            *)
(***************************************************************************)
StopList(route) ==
  LET live == {t \in Task : taskState[t] \notin Tasks!TerminalState \cup {"NONE"}} IN
  /\ op.pc = "idle"
  /\ Operate(Stopping(route, live, {<<t, taskVersion[t]>> : t \in live}))
  /\ UNCHANGED <<storeVars, taskVars>>

\* Mutant: a task that moved on is skipped.
StopTaskOrSkip ==
  /\ op.pc = "stop"
  /\ \E item \in op.todo :
       /\ \A other \in op.todo : item[1] <= other[1]
       /\ \/ Apply(item[1], item[2], "CANCELLED", <<"stop", item[2]>>)
          \/ Dies(item[1], item[2], "CANCELLED", <<"stop", item[2]>>)
       /\ Operate(Stopping(op.route, op.listed, op.todo \ {item}))
  /\ UNCHANGED storeVars

\* TaskService.stop_all cancels the listed tasks in order; a task that moved on since
\* it was listed ends the whole request.
StopTask ==
  /\ op.pc = "stop"
  /\ \E item \in op.todo :
       /\ \A other \in op.todo : item[1] <= other[1]
       /\ \/ /\ Apply(item[1], item[2], "CANCELLED", <<"stop", item[2]>>)
             /\ Operate(Stopping(op.route, op.listed, op.todo \ {item}))
          \/ Dies(item[1], item[2], "CANCELLED", <<"stop", item[2]>>) /\ Operate(IdleOp)
  /\ UNCHANGED storeVars

\* The endpoint then cancels the jobs; the tool stops here.
StopJobs ==
  /\ op.pc = "stop" /\ op.todo = {}
  /\ \/ op.route = "api" /\ CancelAll
     \/ op.route = "tool" /\ UNCHANGED storeVars
  /\ Operate(IdleOp)
  /\ UNCHANGED taskVars

RetryRead(t) ==
  /\ op.pc = "idle" /\ taskState[t] \in {"RETRY_WAIT", "HUMAN_TAKEOVER"}
  /\ Operate(Retrying("retry", t, taskVersion[t]))
  /\ UNCHANGED <<storeVars, taskVars>>

RetryQueue ==
  /\ op.pc = "retry"
  /\ \/ /\ Apply(op.task, op.version, "QUEUED", <<"retry", op.version>>)
        /\ Operate(Retrying("requeue", op.task, op.version))
     \/ Dies(op.task, op.version, "QUEUED", <<"retry", op.version>>) /\ Operate(IdleOp)
  /\ UNCHANGED storeVars

RetryRequeue ==
  /\ op.pc = "requeue"
  /\ \/ RetryTaskJobs(op.task)
     \/ jobStatus[op.task] \notin {"RETRY_WAIT", "HUMAN_TAKEOVER"} /\ UNCHANGED storeVars
  /\ Operate(IdleOp)
  /\ UNCHANGED taskVars

-----------------------------------------------------------------------------
\* The server dies: every handler is lost where it was, the stores survive.
Restart ==
  /\ Restarts
  /\ phone' = [d \in Device |-> IdlePhone] /\ op' = IdleOp /\ agent' = IdleAgent
  /\ UNCHANGED <<storeVars, taskVars>>

Background ==
  /\ Tick \/ \E lag \in Lag : ExpireLeases(lag)
  /\ UNCHANGED <<taskVars, phone, op, agent>>

XNext ==
  \/ \E t \in Task : Create(t) \/ StartPlanning(t) \/ DispatchRead(t) \/ RetryRead(t)
  \/ DispatchQueue \/ DispatchCreate
  \/ \E d \in Device, l \in Lease, s \in Step, v \in Verdicts, lag \in Lag :
       HeartbeatResult(d, l, s, v, lag)
  \/ \E d \in Device :
       \/ ReadJob(d) \/ SyncRead(d) \/ SyncVerify(d) \/ SyncSucceed(d) \/ SyncSettle(d)
       \/ AnswerWithoutJob(d) \/ ClaimRead(d) \/ SyncAssign(d) \/ SyncExecute(d)
  \/ \E d \in Device, lag \in Lag : HeartbeatClaim(d, lag) \/ HeartbeatRenew(d, lag)
  \/ \E route \in StopRoutes : StopList(route)
  \/ StopTask \/ StopJobs \/ RetryQueue \/ RetryRequeue
  \/ Restart
  \/ Background

XSpec == XInit /\ [][XNext]_xvars

-----------------------------------------------------------------------------
(***************************************************************************)
(* Properties                                                              *)
(***************************************************************************)
PhonePc == {"idle", "recorded", "sync", "verify", "succeed", "settle",
            "claim", "claimed", "assign", "execute", "renew"}

XTypeOK ==
  /\ TypeOK
  /\ taskState \in [Task -> Tasks!TaskState \cup {"NONE"}]
  /\ taskVersion \in [Task -> Nat]
  /\ phone \in [Device -> [pc : PhonePc, job : Job \cup {0}, version : Nat,
                           seen : JobStatus, lease : Lease \cup {Nobody}]]
  /\ op \in [pc : {"idle", "stop", "retry", "requeue"}, task : Task \cup {0}, version : Nat,
             route : {"api", "tool"}, listed : SUBSET Task, todo : SUBSET (Task \X Nat)]
  /\ agent \in [pc : {"idle", "queue", "create"}, task : Task \cup {0}, version : Nat]

\* A task never reports an end its job did not come to: SUCCEEDED only over a job all of
\* whose steps succeeded, FAILED only over a failed one, whichever handlers raced to
\* report and whatever they had read by then.
ReportedEndIsReal ==
  \A t \in Task :
    /\ taskState[t] = "SUCCEEDED" => jobStatus[t] = "SUCCEEDED"
    /\ taskState[t] = "FAILED" => jobStatus[t] = "FAILED"

\* While a task waits for a person no phone works on its job, nor can one claim it: a
\* late report, a retry or an expiry never puts the job back on offer first.
HumanHolds ==
  \A t \in Task :
    taskState[t] = "HUMAN_TAKEOVER" => jobStatus[t] \in {"HUMAN_TAKEOVER", "CANCELLED"}

\* Every transition is recorded once: the version of a task counts its distinct events,
\* so no replayed key advanced a task and no applied transition lost its event.
VersionCountsEvents ==
  \A t \in Task : taskVersion[t] = Cardinality({e \in taskEvents : e[1] = t})

\* The emergency stop leaves nothing it has passed over: of the tasks it listed, those it
\* is done with have ended and those to come are still to come.
StopIsThorough ==
  op.pc = "stop" =>
    \A t \in op.listed :
      taskState[t] \in Tasks!TerminalState \/ \E item \in op.todo : item[1] = t

-----------------------------------------------------------------------------
(***************************************************************************)
(* What the documentation says and the code does not do                    *)
(***************************************************************************)

\* "All unfinished tasks become CANCELLED": when the stop request ends, every task that
\* was unfinished when it began has ended.
StopReachesAll ==
  [][op.pc = "stop" /\ op'.pc # "stop"
       => \A t \in op.listed : taskState'[t] \in Tasks!TerminalState]_xvars
=============================================================================
