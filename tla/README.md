# AIShop Hermes workbench: a formal model

TLA+ models of the AIShop control plane (the Hermes plugin under
`src/hermes-plugin`) and of the Android worker (`src/android-worker`), the TLC
configurations that check them on small instances, and TLAPS proofs of the
results that matter most. `PROJECT.json` ties every definition to the lines it
translates, every run to its properties, every property to a bug it would catch.

    tlc -workers 2 -config MCJobLease.cfg MCJobLease     # any run listed below
    tlapm JobLease_proofs.tla                            # any *_proofs module

## 1. The system

A business task is created by the Hermes agent, compiled to one device job of a
few steps, carried out by a paired phone that polls over HTTP, and watched and
interrupted by an operator. Three stores share an SQLite file and nothing else:
every store operation is a transaction of its own, and no transaction spans
two stores. The server answers on several threads; the phone runs a heartbeat
loop and its buttons on different threads.

| component | source | state | operations |
|---|---|---|---|
| Execution store | `execution_repository.py`, `execution_domain.py` | jobs, steps, results, leases, evidence, approvals, pending dispatches | create_job, claim_job, renew_lease, record_step_result, expire_leases, cancel_all, retry_task_jobs, evidence upload and pruning, approvals |
| Task store | `repository.py`, `state_machine.py`, `service.py` | tasks with version, task_events with idempotency keys | create_task, transition, stop_all, retry, seed_demo |
| Execution service | `execution_service.py` | none of its own | heartbeat_job: result, report to the task, claim, report, renewal; upload_evidence; decide_approval |
| Dispatch, policy, approvals | `dispatch_service.py`, `policy.py` | approval row, pending dispatch, task | dispatch, resume after a decision |
| Device registry and commands | `device_repository.py`, `device_service.py` | pairing sessions, device rows and tokens, device_commands | pair, heartbeat, queue, emergency stop, acknowledge, deliver |
| Entry points | `plugin_api.py`, `tools.py` | none | operator's endpoints, agent's tools; stop-all is three calls |
| Heartbeat loop of the worker | `WorkerForegroundService.kt`, `HeartbeatCoordinator.kt`, `WorkerPreferences.kt` | coordinatorState and jobRunnerState in memory and on disk | one round: send, reduce, run, upload, save; buttons |
| Job runner of the worker | `JobRunner.kt` | job, lease, completed steps, one pending result | runNext, attachEvidence, acknowledge |
| Maintenance | `maintenance.py` | none | expiry, evidence pruning, diagnostics, export |
| Workflow runs | `workflow_runs.py`, `demo_flows.py` | runs, nodes, edges | create, ready_nodes, start_node, complete_node, aggregate, reconcile_workflow |
| Inbound events | `inbound_events.py`, `CommerceNotificationListener.kt`, the queue in `WorkerPreferences.kt` | event rows, the phone's queue of 100 | enqueue, upload, ingest once, turn into a task |
| App skill registry | `app_skills.py` | manifests | version ranges, compile |
| Business data; authentication; UI; accessibility executor; scripts | see `PROJECT.json` | rows, token file, none | upserts, screens, third-party apps |

How they interact. A heartbeat is one HTTP request that runs through four
components: it may bring a step's result (execution store), which is reported
to the task (task store); it acknowledges a command and fetches the next one
(device store); it may receive a job, which is reported again and whose lease
is renewed. The operator's stop-all goes through the task store, the execution
store and the device store, in that order, in separate transactions. A dispatch and a
decision go through the execution store (approval, pending dispatch, job) and
the task store; a reconciliation goes through workflow runs, execution store
and task store; an event through its own table and the task store.

What is hard, and what would make it correct:

* **Leases.** Claims, results, renewals, expiries and cancellations of several
  phones interleave, and each works with a timestamp taken when its request
  arrived. A job must have one holder, its status must agree with its leases
  and with its results, and an ended job must stay ended.
* **Two stores.** The handler reads the job, then the task, then writes the
  task under the version it read. What a task reports must be true of its job,
  a task that waits for a person must not have its job worked on, a stop must
  not leave anything behind.
* **Delivery.** Requests and answers are lost, late and doubled; the phone
  keeps its notes in memory and on disk and may die anywhere. No step may be
  skipped or reordered, no command acknowledged that was not carried out, and
  both jobs and commands must get through in the end.
* **Approvals.** Asked for, decided, used and carried out in five transactions
  over two stores, by several people at once, against a deadline. Nothing risky
  may happen without a timely yes to exactly it, nor twice, nor after a no.
* **Flows.** Reconciliations overlap, each works with statuses it read some
  transactions ago, and jobs move on meanwhile. Nodes must run in order and
  say what their jobs did; the parent must come to the right end, once.
* **Identity.** A phone is paired, cleared and paired again while its old
  requests are still under way; a notification is uploaded until it is
  acknowledged. Codes pair once, heartbeats are told new from old by one
  number, an event makes one task.
* **Evidence.** Validated in one transaction and stored in another, while the
  lease may have moved on; its upload may fail after the step was run.

## 2. The modules

    JobBoard  <--implements--  JobLease  <--extends--  TaskExecution  --instance--> TaskStore
                                  ^-------extends----  PhoneWorker                     ^
    Clearance <--implements--  Approvals  --extends-----------------------------------+
    WorkflowRuns  --instance----------------------------------------------------------+
    DeviceRegistry  <--extends--  InboundEvents  --extends----------------------------+
    CommandLink (independent: another table, another field of the phone)

| module | models | proofs in |
|---|---|---|
| `JobBoard` | what the execution store promises: jobs on a board, at most one holder each, no leases, clocks or results | |
| `JobLease` | the execution store, one action per repository operation | `JobLease_proofs` |
| `TaskStore` | tasks, versions, idempotency keys, the state graph | |
| `TaskExecution` | the handlers that move tasks and jobs: heartbeat, stop-all, retry, dispatch, maintenance, a server restart | `TaskExecution_proofs` |
| `PhoneWorker` | the worker's loop and job runner, the HTTP exchange, the job part of the server's handler | `PhoneWorker_proofs` |
| `CommandLink` | commands from the operator to the phone, the coordinator, the buttons | `CommandLink_proofs` |
| `Clearance` | what an approval is for: asked, granted or denied once, carried out at most once and only when granted | |
| `Approvals` | dispatch under the policy, approvals, pending dispatches, decisions | `Approvals_proofs` |
| `WorkflowRuns` | the run and its nodes, its launch, reconciliations, the parent task | `WorkflowRuns_proofs` |
| `DeviceRegistry` | pairing codes, tokens, the device row with its heartbeat sequence, and their counterparts on the phone | `InboundEvents_proofs` |
| `InboundEvents` | the phone's queue of notifications, their upload and ingestion, over `DeviceRegistry` and `TaskStore` | `InboundEvents_proofs` |
| `LeastElement` | a set of naturals has a least element: the one induction the proofs need, without an operator parameter | itself |
| `MC*` | model values, `CanRun`, symmetry | |

**JobLease.** `jobStatus`, `results`, `lease`, `evidence` are the tables
execution_jobs, step_results, device_leases and evidence; execution_steps is
`NSteps` and `EvidenceStep`. A job is numbered by its rank in claim_job's
order. `uploads` is what validate_evidence_upload let through and
store_evidence has not stored. `_expire_leases`, which claim_job runs first, is
part of every claim. A lease row keeps `left`, the ticks to `expires_at`, and a
transaction works with a timestamp `lag` ticks old. A repeated result is
accepted and changes nothing, as in the code; it is a step of the modules that
use the store. Each row is released at most once (`Release`), and lease ids are
never reused, so the size of `Lease` bounds the number of claims.

**TaskStore and TaskExecution.** A thread holds what its handler has read: the
job's status, the task's version, the lease. Each step is one transaction or
one read. `Apply`/`Dies` are the two ways out of `tasks.transition`: applied or
replayed under a used key, or an exception that ends the request, which is how
`heartbeat_job`, `stop_all` and `retry` treat it. Idempotency keys are tuples
that are equal when the code's strings are (`<<"stop", version>>`,
`<<"assigned">>`, ...). One job per task, as dispatch compiles it. The phone's
side is open: any phone may report any verdict its lease admits, at any time.

**PhoneWorker.** A request is a record owned by a server thread (`handler`); it
can be lost before it is served, its answer can be lost, and a phone may time
out while its request is still being served and send another. `runner`/`saved`
are JobRunnerState in memory and on disk. An exception (refusal, failed upload)
ends the round where it is, a crash falls back to the disk. A job the answer
does not bring makes the worker forget the finished one if it is BUSY. `Elsewhere`
is what happens without the worker: other jobs are created, leases expire, an
operator cancels or retries, evidence is pruned. The server prunes in the first
heartbeat of a day, before it looks at the result, and in maintenance; both are
transactions of their own, so pruning is a step that any thread may have taken.

**CommandLink.** `command` is device_commands; `worker`/`saved` are the field
coordinatorState and its copy on disk, read, copied and written in separate
steps by the loop and by the buttons, since the code takes no lock. `Reduce` is
HeartbeatCoordinator.reduce. After STOP the loop makes one more request and
ends (`bye`, `parting`, `off`). `carriedOut` is a history variable.

**Approvals.** A request is a server thread that reads the clock once, when it
arrives (`at`), and then takes one transaction per step: `pc` is the line it
stands at, and an exception (`Fail`) ends it there, whatever it has written.
Any thread may dispatch any workflow for a task that is in PLANNING, and decide
any pending dispatch. `Risk` is what classify makes of a workflow with its
inputs; the scope's binding to task, workflow and inputs is the pair of task
and workflow in the row. The token is the one the same request has just stored,
so it is not a variable. A job is refused (`CreateJob`) when its task has one
for the same workflow, because step ids are primary keys. What the rest of the
system does to a task is `Elsewhere`, a cancellation, or any transition the
state graph allows once the task has a job. `astray` is a history variable: the
approvals whose decision found a task that did not wait yet, or was cut off by
a restart. No action looks at it.

**WorkflowRuns.** `node` and `run` are the statuses of the rows, `job` the
status of a node's job, whose life is JobLease's. A reconciliation walks over
`todo`, the nodes it has read: `Remaining` is its control flow, from one node
to the next and from one loop to what follows it. `seen` is what an aggregation
has read; it blocks nodes in one transaction and reads them again (`reread`)
after it. Child tasks and the parent are in TaskStore, moved under the version
the thread has read, with the code's keys. stop_all and the operator's retry of
a parent that was handed over are `StopParent` and `RetryParent`.

**DeviceRegistry and InboundEvents.** One phone stands for all, since rows of
different phones have nothing in common. A call is an HTTP request, served one
transaction at a time; the phone may give it up while it is under way, and it
is served all the same. Tokens are numbers in the order they were generated:
`row.token` is the digest in devices, `phone.token` what the phone holds.
`pairing` and `loop` are the two things of the phone that wait for an answer.
`queue` is pending_inbound_events on disk, `listener` and `removal` the copies
of the two threads that write it. Identities stand for source, account and
event id, and are the tasks of TaskStore: create_task gets the identity as its
key.

Each mutant (`\* Mutant:` definitions) is a plausible bug of the definition it
stands before; `PROJECT.json` pairs it with the property it breaks.

## 3. What is checked

Runs that pass. Deadlock checking is off in three: in `approvals` the clock ends
and a cancelled task has nothing left to do, in `workflow_runs` nobody takes up
a launch that a restart interrupted, nor does the desktop learn of a run whose
parent was cancelled before its launch had queued it, and in `inbound_events` heartbeats and
codes are counted out.

| run | instance | distinct states | shows |
|---|---|---|---|
| `job_lease` | 2 phones (one can run both jobs, the other one), 2 jobs, 2 steps (the second demands evidence), 2 leases, TTL 1, lag up to 1 | 101 k | `OneHolder`, `LeasedIffHeld`, `VerdictsMatch`, `EvidenceFromHolder`, `TerminalStays`, and that the store implements `JobBoard` |
| `task_races` | 2 phones, 1 task, 2 steps, 2 leases, all verdicts, stop by endpoint or tool, restarts | 221 k | `ReportedEndIsReal`, `HumanHolds`, `VersionCountsEvents`, `StopIsThorough` |
| `worker_steps` | 2 phones, 2 requests under way, 2 steps (the second captures), successes, failures and retries, time-outs, cancel, retry, pruning, 1 crash or tick | 1.3 M | `DoneIsRecorded`, `StepsInOrder`, `EvidenceBacksResults` |
| `worker_progress` | 1 phone, 2 requests, 2 steps, losses without bound, 2 crashes | 11 k | `JobsGetDone`, under `Fairness` |
| `link_holds` | 3 commands (pause, resume, stop), 2 heartbeats under way, crashes, refusals, failed rounds | 699 k | `AcknowledgedWasCarriedOut`, `CommandHolds`, `CarriedOutInOrder` |
| `link_progress` | 2 commands, the emergency stop, a button, crashes, refusals, failed rounds, time-outs | 168 k | `CommandsGetThrough`, under `LFairness` and `Calm` |
| `approvals` | 1 task, 2 requests, 4 workflows (two that need approval, one automatic, one only for people), 2 approvals that expire within the tick after they were asked for, 1 tick, other transitions of a task up to version 6, restarts | 1.3 M | `OnlyCleared`, `PendingIsTrue`, `WaitingIsAsked`, `DispatchedThroughTask`, and that dispatch implements `Clearance` |
| `workflow_runs` | 2 requests, 2 nodes and a report that depends on both (the code's one graph), retries and cancellations of jobs, and a stop, a restart or a retry of the parent | 771 k | `NodesInOrder`, `NodesAreTrue`, `ParentIsTrue`, `NodesStay`, and `FlowSettles` under `WFairness` |
| `inbound_events` | 2 pairing codes, 2 requests under way, 1 rotation, 2 heartbeats, 3 notifications (two of one identity, one of an unknown source), a queue of 1 | 1.5 M | `CodesPairOnce`, `NewsIsNew`, `AcknowledgedIsStored`, `RoutedTogether`, `RecordsStand` |

Why the bounds are enough to be interesting. Two phones and two leases are the
least at which a job passes from one phone to another, and a phone from one job
to another; two steps the least at which an order can be wrong and a success is
not yet the end. A lag of one tick against a lease of one tick lets a request
renew, expire or claim against what a newer one has just done. Two requests under way
are a late one and its repetition. Three commands are an acknowledged one, a
pending one and one that may overtake them. Two approvals of one task are two
dispatches that ask twice, and the second may be decided while the first is
carried out; versions up to 6 (`MaxVersion`) let the task be cancelled, handed
over and queued again behind a decision. Two requests are the least at which an
aggregation comes late; a behaviour of `workflow_runs` sees a stop, a restart or
a retry of the parent (`OneOfThem`, `Undisturbed`), the retry under a version
below `MaxVersion`; the theorems about the flow hold with any of them together.
A queue of one is
full with one, so takeLast gives up an event that is being uploaded; two codes
and one phone make a pairing that overtakes another. Where a store is proved, the
bounds do not matter: see section 4. The evidence model is left out of
`task_races` and the refusals of `renew_lease` from the clock are left out of
`worker_progress` (`Others = {}`), because their own runs have them; so is the
pruning, which would leave a waiting result without its evidence (see the
deviations).

`DoneIsRecorded` and `StepsInOrder` count a step as passed when it succeeded or
when an earlier try left a RETRYABLE or HUMAN_TAKEOVER row: that row stands when
a later try succeeds (see below), and the worker goes on.

Runs in which the code does not do what the repository says of it; each has an
entry under `findings` with both quotations.

| run | property | what happens |
|---|---|---|
| `stop_race` | `StopReachesAll` | stop_all cancels under listed versions; a heartbeat in between ends the request, and the tasks after it, all jobs and all phones go on |
| `worker_wedge` | `ResultsArrive` | the answer to the last result is lost; its repetition finds a COMPLETED lease and is refused for ever, which also keeps commands from the phone |
| `link_emergency` | `AcknowledgedWasCarriedOut` | the emergency stop turns a pending command into STOP under its old id; a phone that has the old one acknowledges it and never stops |

What came out of the passing runs and is less obvious: although
`_expire_leases` and `record_step_result` never look at the job's status, no
order of stale requests moves an ended job; although the loop saves its state
last, a command that was acknowledged holds through every crash, failed upload
and refusal (`CommandHolds`), because the round that carries a command out
gets to its save without running a step: a suspended worker takes none up, and
the answer that brings RESUME to a suspended worker brings it no job.

Of the newer modules: `aggregate` may write a status computed from nodes that
have moved on and take a finished run back to RUNNING, but the parent task goes
by a status that was true when it was read and stays true (`ParentIsTrue`), and
the next reconciliation mends the row (`FlowSettles`). An approval that was
used is spent even when the request dies before it creates the job. The phone's
heartbeat sequence outlives a cleared pairing, and so does the server's, which
is why a phone that pairs again is not mistaken for its past (`NewsIsNew`: the
mutant that clears the sequence breaks it).

Deviations the models show and no run states (a property that fails is worth a
run only where the repository says the opposite of it in so many words; these
are for a reader of the code):

* An expired lease puts the job into RETRY_WAIT (`execution_repository.py:586`)
  and leaves its task EXECUTING; `docs/demo-runbook.md:43` says the task becomes
  RETRY_WAIT.
* After one RETRYABLE result the job is handed out again by itself while its
  task waits, and a later HUMAN_TAKEOVER never reaches the task.
* A step that was RETRYABLE or HUMAN_TAKEOVER once keeps that row for ever
  (`execution_repository.py:507`): every step done and acknowledged, the job
  never succeeds.
* After an operator's retry the key `job:<id>:assigned` has been used, so the
  transition replays and the task stays QUEUED while its job runs to the end.
* The loop's write of coordinatorState may undo a button pressed in the same
  instant, and the other way round.
* A job is created behind a stop when dispatch was between its two
  transactions, and a crash there leaves a QUEUED task without a job that no
  dispatch accepts any more.
* After a change of phones the new one executes the succeeded steps again,
  since the answer does not say which are done.
* An approval that expires leaves its task in WAITING_APPROVAL: it is still
  listed, no decision of it is accepted, and only a stop or a cancellation ends
  the task. A decision whose request dies after the first transaction is a
  pending dispatch that can no longer be decided (`astray`).
* An approval can be decided as soon as its pending dispatch is stored, which is
  before the task is moved to WAITING_APPROVAL (`dispatch_service.py:83-86`).
  When the decision reads the task in between, and the task is moved before the
  decision's own transition, that one is refused for its version: the task waits
  for an approval that has been decided and, after a yes, used (`astray`).
* A task that was handed to a person or waits for a retry after it had asked is
  queued by a late approval all the same and gets its job: HUMAN_TAKEOVER and
  RETRY_WAIT lead to QUEUED (`state_machine.py:45-47`,
  `dispatch_service.py:139-146`). A task that is cancelled between the decision's
  transition and its create_job has a job nevertheless.
* A worker's waiting result whose evidence is pruned before it is reported is
  refused for ever; the retention of evidence is long enough to make that
  unlikely.
* A restart between the child task and start_node (`demo_flows.py:461`) stops
  every later reconciliation of that run at the child, whose dispatch is
  refused. `FlowSettles` says so: it promises nothing once a restart took a
  request.
* A simulated flow queues a real job and claims the oldest one it can as device
  `simulator`: a polling phone may take it first.
* Listener and loop write the queue of notifications without a lock: an event
  that arrives while another is being removed may be lost
  (`docs/real-device-validation.md:19` expects every one to arrive).
* `acknowledgeInboundEvent` drops every entry of the delivered event's id
  (`WorkerPreferences.kt:109`). One of the same identity and another payload,
  enqueued after takeLast had pushed the uploaded one out, goes with it and is
  recorded nowhere; uploaded, it would have been refused as a conflict.
* An event whose ingestion dies after its first transaction is recorded for
  ever without a task: its repetition is answered as a duplicate.
* An event whose identity is recorded with another payload is refused for ever,
  stays at the head of the phone's queue, and its refusal ends every round
  before the heartbeat's answer is acted on.
* A late pairing request that overtakes a newer one replaces the newer one's
  token and locks the phone out until it is paired again; so does a rotation,
  whose token nobody brings to the phone. A request that was authenticated
  before its token was revoked is carried out.

## 4. What is proved

TLAPS, for every value of the constants under the named assumptions
(`JobLeaseAssumption`, `TaskExecutionAssumption`, `PhoneWorkerAssumption`,
`CommandLinkAssumption`, `ApprovalsAssumption`, `WorkflowAssumption`,
`RegistryAssumption`, `InboundAssumption`: sizes are naturals, the reserved
values are not members of the sets, the policy knows every workflow's risk, the
dependencies of nodes are nodes). Every safety property and action property
that a passing run checks is a theorem, and so are both refinements. Each
inductive invariant was checked by TLC on the component's run before it was
proved.

* **`JobLease_proofs`**: `TypeCorrect`, `LeaseExclusive`, `TablesAgree`,
  `VerdictsCorrect` are parts of one inductive invariant,
  `IInv == TypeOK /\ RowOK /\ OneHolder /\ LeasedIffHeld /\ VerdictsMatch`.
  They need one another: that a claim does not give a job a second lease
  follows from `LeasedIffHeld` (a claimable job is not LEASED); that a result
  does not touch an ended job follows from `LeasedIffHeld` (its lease is
  active, so the job is LEASED) and keeps `VerdictsMatch`; `RowOK` (an issued
  lease names a job and a device) is needed to speak of either. `EvidenceOwned`
  rests on `RowsKept`: no step changes the job or device of an issued row.
  `TerminalAbsorbing` is an action property from the same invariant.
  `Implements` says that the store implements `JobBoard`: a claim maps to `Take`
  with the late leases struck out in the same step; an expiry to `Vanish`; a
  result to `Settle` or a stutter; `holder` is defined by CHOOSE and is the
  lease's device by `OneHolder` (`HolderIs`).
* **`TaskExecution_proofs`**: `StoreInUse`, every behaviour of the handlers is
  a behaviour of `JobLease`, so all of the above holds there too;
  `XTypeCorrect`; `ReportsCorrect`, a task reports SUCCEEDED or FAILED only
  over a job that came to that end. The strengthening is `ReadEndIsReal`: the
  end a handler has read and is about to report is still the job's status,
  which is true because ended jobs stay ended (`TerminalStep`). A second
  invariant, `KInv`, carries `PersonHolds`, `VersionsCount` and
  `StopsThoroughly`. What a handler has read of a shelved job may be out of
  date, since an operator's retry puts the job back on offer; that it is not
  reported all the same rests on the idempotency keys (`KeysMean`): a task is
  ASSIGNED under one key, so a retried task, whose key is used, never gets as
  far as EXECUTING again, and a report is refused (`VersionsRead`,
  `ReadShelfIsReal`). `StopIsThorough` needs that a stopped task cannot leave
  CANCELLED, `VersionCountsEvents` that the events are finite and keys are new
  when they are recorded.
* **`PhoneWorker_proofs`**: `WorkerTypeCorrect`, `DoneCorrect`,
  `StepsSettledInOrder`, `EvidenceStandsBehind`, from
  `PInv == IInv /\ PhoneTyped /\ NotesFit /\ HandlersFit /\ RoundsFit /\
  StepsInOrder`. A phone's note may be used long after
  it was made: from the disk after a crash, in a request that is served late,
  in an answer that is taken late. `NoteFits` says what a note knows (its lease
  was issued for its job, every step it counts as done has passed, and every
  step before its pending one has); `NoteOn` that the store cannot spoil it,
  because a result once recorded is never changed and an issued lease never
  changes its job (`StoreSteps`, over all of JobLease's actions). `RoundsFit` is
  what makes an acknowledgement count for the right result: the thread a phone
  waits on serves the notes the phone has now, and nobody else waits on it.
  Every step of a phone, a thread or the network is a step of the store or
  leaves it alone (`AlwaysStored`), hence `StoreStaysConsistent`,
  `EndsStandForPhones` and `PhonesImplementBoard`, which say of phones and store
  together what `JobLease_proofs` says of the store. `EvidenceStandsBehind` is an
  action property: evidence need not outlive the result, since it is pruned, but
  the transaction that records the result finds it there, stored by the phone
  that holds the lease.
* **`CommandLink_proofs`**: `LinkTypeCorrect`; `AcknowledgementsHonest`,
  without the emergency stop (`Emergency = FALSE`) a command is acknowledged
  only once it was carried out, for any number of commands and of overlapping
  heartbeats. The invariant says that every id on the phone, on its disk, in a
  button's copy or in a heartbeat's acknowledgement is of a command carried out
  under the type it has. The hypothesis is needed: `link_emergency` is the
  counterexample without it. `CommandsInOrder`, without any hypothesis, buttons
  and emergency stops included: only the newest command can be pending
  (`OnlyLastPends`), and the answer the loop waits for is newest among what was
  carried out (`AnswerIsNewest`), because while it waits the loop carries out
  nothing else. `CommandsHold`, under the two conditions of its run (no
  emergency stop, no buttons; a button is a person's own order to the phone and
  rightly overrides a command): `HoldInv` says that the field and the disk each
  do what the command they note asks for, and that they differ only inside a
  round whose phone was ready for a job before and after (`DiskFits`,
  `RoundFits`), so a failed round or a crash cannot bring a suspended phone back.
* **`Approvals_proofs`**: `ApprovalsTypeCorrect`, `ClearedCorrect`,
  `PendingCorrect`, `DispatchOrderly` and `ApprovalsImplementClearance`, for any
  number of requests, tasks, workflows and approvals and any expiry, with
  restarts anywhere. The invariant is `AInv == ATypeOK /\ RequestsFit /\
  RowsFit /\ SpentOnce /\ OnlyCleared /\ PendingIsTrue /\
  DispatchedThroughTask`. `Fits` says what a handler knows at each of its steps
  (its approval's row is of its task and workflow; past `Authorize` it is
  approved in time and used; at `create` the queue's key is in `task_events`).
  `FitsOn` shows that another request cannot spoil it, because a row of
  approvals only goes on (`RowGoesOn`: a decision stands, a use stands).
  `SpentOnce`, that one request holds a used approval and no job has come of it
  yet, is what makes `CarryOut` happen once: it is preserved by `Authorize`
  because that step finds the approval unused. In the refinement
  `CreateApproval` maps to the asking, `Decide` to the granting or denying,
  `CreateJob` under an approval to `CarryOut`, everything else to a stutter.
  `DispatchOrderly` says for which key a task was queued before its job was
  created. `WaitingCorrect` adds `QInv`. About tasks it says that a task with the
  key of a queueing does not wait any more, nor return to planning
  (`QueuedHaveLeft`), one rejected has ended (`RejectedEnded`), and every
  task has been planned (`Planned`). About requests it says that at most one is at
  work on an approval (`OneAtWork`), that what it is about to do the task's state
  still allows or its version refuses (`RequestsReady`), and that an approval
  between its creation and its pending dispatch is undecided (`OpenUntilKept`).
  The core is `AllHelped`: every approval with a dispatch whose task still plans
  or waits is open, or being decided, or astray; `WaitersNamed` ties a waiting
  task to such an approval. Every step other than a restart is shown to be a
  `Turn`, a relation that says how far rows, tasks and requests can have moved,
  and a `Turn` preserves `QInv` (`TurnInv`).
* **`WorkflowRuns_proofs`**: `WTypeCorrect`, `OrderKept`, `NodesTruthful`,
  `ParentTruthful` and the action property `NodesKeepEnds` (of nodes and of the
  jobs behind them: `EndedStays`), for any acyclic
  graph and any number of requests. In `WInv` the weight is on `Holds`: what a
  request has read some transactions ago and still goes by. It may be out of
  date, but what it says of ends stays true, because nodes and jobs keep their
  ends (`NodesKept`, `JobsKept`, `HoldsStill`): dependencies that had succeeded
  when a node was found ready have succeeded still, ends among the statuses an
  aggregation has read are ends still, and so the status that settles the
  parent says something true (`SaysTrue`) although the run's own row may have
  moved on. That the code takes the first of the nodes left needs `LeastElement`.
* **`InboundEvents_proofs`**: `IntakeTypeCorrect`, `CodesSpentOnce`,
  `HeartbeatsAreNews`, `DeliveredIsStored`, `RoutingCorrect` and the action
  property `RecordsKept`, over `DeviceRegistry` and the intake together. For
  codes the count must leave room for pairings between their two transactions:
  the tokens are no more than the codes used less those in hand (`Spends`). For
  heartbeats every one on its way bears a number the phone has passed (`News`).
  For events `Kept` says that a handler that has recorded one, or answers for
  it, has that very payload in the table; the phone clears its queue of an event
  only on such an answer. `acknowledgeInboundEvent`'s filter is a recursive function, and that
  it gives a queue again is shown by `LeastElement` (`OthersIsQueue`).
* **`LeastElement`**: the library's induction theorems take an operator as a
  parameter, which the provers cannot instantiate. The lemma says the same with
  a set, and an induction becomes the choice of a least counterexample.

Only model-checked: liveness, that is `JobsGetDone`, `CommandsGetThrough`,
`FlowSettles` (and `ResultsArrive`, which fails). They speak of fairness, and so
of ENABLED, which is out of the prover's reach.


## 5. Fairness

`PhoneWorker!Fairness`: the loop is an endless `while` with a delay, so a phone
that can send, run, upload or save does (weak fairness); a server thread that
has a request serves it; an HTTP call that nobody serves times out. Strong
fairness on serving and receiving says that of messages sent again and again
some get through: without it the network may lose every one. Nothing makes a
crash, a loss or the clock happen. `JobsGetDone` further needs the lease to
live and the phone to wait for an answer that is under way (`Impatient =
FALSE`): otherwise the answer to the last result may be lost and the phone is
stuck, which is the finding `worker_wedge`.

`CommandLink!LFairness` is the same for the loop and adds that a pressed button
finishes. `Calm` says that what upsets rounds (the app's deaths, refused
heartbeats, answers later than the time-out, presses) comes to an end; with
crashes for ever nothing gets through. A crash that leaves the same state as
the end of a round is not distinguishable from it and does not count.

`WorkflowRuns!WFairness`: the desktop asks for a reconciliation every two
seconds (`plugin.tsx:92`), and a server thread goes on with what it has begun;
weak fairness on a request's next step or, when it has none, on its start.
Nothing makes a job end: `FlowSettles` allows for a job that is open again and
again. A restart that takes a request in the middle of a launch or a dispatch may
leave a flow nobody finishes (see the deviations): `FlowSettles` promises
nothing after one (`lost`).

## 6. What is not modelled

* The audit trail, texts, codes and payloads: no decision depends on them.
* In `TaskExecution`: two heartbeats of the same phone in the handler at once
  (they are in `PhoneWorker`), and `aishop_transition_task` with arbitrary
  targets: the agent only plans and dispatches. A tool that may write SUCCEEDED
  itself would make `ReportedEndIsReal` a statement about the agent.
* In `PhoneWorker`: commands (they are in `CommandLink`) and conflicts of the
  task's side, which end a request like a lost answer. The answer to a renewal
  carries the lease just renewed; the code reads the job once more
  (`execution_service.py:97`), and what it then finds differs only for a job
  cancelled or expired in between, of which the phone hears with its next
  heartbeat in either case.
* In `CommandLink`: the stop button on the phone. Pairing and the upload of
  events are in `DeviceRegistry` and `InboundEvents`, which leave out commands
  and jobs.
* In `Approvals`: two jobs of one task for one workflow with different inputs
  (their approvals differ in the binding), and the fractions of a second that
  compare as strings in consume_approval.
* In `WorkflowRuns`: simulated flows, which complete their nodes themselves, and
  the demo's reset, which deletes rows. Nodes are of workflows the policy lets
  through, as the only flow of the code has them.
* In `InboundEvents`: how a notification becomes an event, attachments and
  texts.
* The app skill registry and business data: a table of manifests and
  single-statement upserts. Evidence files under prune_evidence.
* The accessibility executor, the screens, the desktop workbench, packaging and
  scripts: no state of the protocol, or third-party apps behind an API. They
  enter as the outcome of a step and as the operator's actions.

## 7. Plan

What is left, in the order in which it matters:

1. Abstract specifications of the composed systems and proofs that these
   implement them: a task as the operator sees it, over `TaskExecution`; one
   event, one task, over `InboundEvents`; a flow's parent, over `WorkflowRuns`.
2. `EvidenceFiles`: files and rows under store_evidence and prune_evidence.
3. `SkillCompile`: version ranges and compilation as operators, checked against
   a reference definition over bounded inputs.
4. Simulated flows over `JobLease`: who claims what.
