------------------------------ MODULE Approvals ------------------------------
(***************************************************************************)
(* Dispatch of a planned task under the policy, the approvals it asks for  *)
(* and their decision (aishop/dispatch_service.py, policy.py, the tables   *)
(* approvals and pending_dispatches of execution_repository.py).  A        *)
(* request is a server thread: each of its steps is one transaction or one *)
(* read, it reads the clock once when it arrives, and any exception ends   *)
(* it where it is.                                                         *)
(***************************************************************************)
EXTENDS TaskStore, Integers

CONSTANTS
  Request,      \* requests that may be under way at once
  Workflow,     \* compiled workflows with their inputs
  Risk,         \* [Workflow -> what the policy says of its action and recipient]
  Approval,     \* approval ids (uuid4): bounds the approvals asked for
  ApprovalTTL,  \* ticks an approval stays open (10 minutes)
  MaxTime,      \* bound of the clock
  MaxVersion,   \* bound of what happens to a task elsewhere
  None          \* no approval, no task, no workflow

ASSUME ApprovalsAssumption ==
  /\ Risk \in [Workflow -> {"LOW", "APPROVAL_REQUIRED", "HUMAN_ONLY"}]
  /\ ApprovalTTL \in Nat
  /\ MaxTime \in Nat
  /\ MaxVersion \in Nat
  /\ None \notin Approval \cup Task \cup Workflow

VARIABLES
  approval,   \* [Approval -> row of approvals, Unasked before create_approval]
  pending,    \* [Approval -> status of its row of pending_dispatches, or "NONE"]
  job,        \* the jobs created: task, workflow, and the approval that led to it
  request,    \* [Request -> what its handler has read, and where it stands]
  now,        \* the clock
  astray      \* history: approvals whose decision found a task that did not wait yet, or
              \* was cut off by a restart

ownVars == <<approval, pending, job, request, now, astray>>
vars == <<taskVars, ownVars>>

Null == -1
Unasked == [status |-> "NONE", task |-> None, workflow |-> None,
            expires |-> Null, decided |-> Null, used |-> Null]
Idle == [pc |-> "idle", task |-> None, workflow |-> None, version |-> 0,
         approval |-> None, approved |-> FALSE, at |-> 0]

Time == 0..MaxTime
ApprovalRow ==
  [status : {"NONE", "PENDING", "APPROVED", "REJECTED"}, task : Task \cup {None},
   workflow : Workflow \cup {None}, expires : Int, decided : Time \cup {Null},
   used : Time \cup {Null}]
PC == {"idle", "takeover", "ask", "keep", "wait", "queue", "create",
       "decide", "read", "reject", "cancel", "authorize", "release", "complete"}

ATypeOK ==
  /\ taskState \in [Task -> TaskState \cup {"NONE"}]
  /\ taskVersion \in [Task -> Nat]
  /\ approval \in [Approval -> ApprovalRow]
  /\ pending \in [Approval -> {"NONE", "PENDING", "DISPATCHED", "REJECTED"}]
  /\ job \subseteq [task : Task, workflow : Workflow, by : Approval \cup {None}]
  /\ request \in [Request ->
       [pc : PC, task : Task \cup {None}, workflow : Workflow \cup {None}, version : Nat,
        approval : Approval \cup {None}, approved : BOOLEAN, at : Time]]
  /\ now \in Time
  /\ astray \subseteq Approval

\* The tasks have been created and planned (TaskExecution has these steps).
AInit ==
  /\ taskState = [t \in Task |-> "PLANNING"]
  /\ taskVersion = [t \in Task |-> 2]
  /\ taskEvents = {}
  /\ approval = [a \in Approval |-> Unasked]
  /\ pending = [a \in Approval |-> "NONE"]
  /\ job = {}
  /\ request = [r \in Request |-> Idle]
  /\ now = 0
  /\ astray = {}

-----------------------------------------------------------------------------
At(r, pc) == request[r].pc = pc
Goto(r, pc) == request' = [request EXCEPT ![r].pc = pc]

\* The request has decided its approval and is carrying the decision out.
Deciding(r) == request[r].pc \in {"read", "reject", "cancel", "authorize", "release"}

\* Return or exception: what the request has written stays, the rest is left undone.
End(r) == request' = [request EXCEPT ![r] = Idle]
Fail(r) == End(r) /\ UNCHANGED <<taskVars, approval, pending, job, now, astray>>

\* tasks.transition under the version the request has read; an exception ends the request.
MoveTask(r, target, key, next) ==
  LET q == request[r]
  IN \/ /\ Transition(q.task, q.version, target, key)
        /\ IF next = "idle" THEN End(r) ELSE Goto(r, next)
        /\ UNCHANGED <<approval, pending, job, now, astray>>
     \/ /\ Replayed(q.task, key)
        /\ IF next = "idle" THEN End(r) ELSE Goto(r, next)
        /\ UNCHANGED <<taskVars, approval, pending, job, now, astray>>
     \/ Refused(q.task, q.version, target, key) /\ Fail(r)

-----------------------------------------------------------------------------
(***************************************************************************)
(* dispatch.                                                               *)
(***************************************************************************)
\* Mutant: what is neither risky nor known to be harmless is let through.
CourseLenient(w) == IF Risk[w] = "APPROVAL_REQUIRED" THEN "ask" ELSE "queue"
\* classify: where the risk takes the request.
Course(w) ==
  CASE Risk[w] = "HUMAN_ONLY" -> "takeover"
    [] Risk[w] = "APPROVAL_REQUIRED" -> "ask"
    [] Risk[w] = "LOW" -> "queue"

DispatchRead(r, t, w) ==
  /\ At(r, "idle")
  /\ taskState[t] = "PLANNING"
  /\ request' = [request EXCEPT ![r] =
       [Idle EXCEPT !.pc = Course(w), !.task = t, !.workflow = w,
                    !.version = taskVersion[t], !.at = now]]
  /\ UNCHANGED <<taskVars, approval, pending, job, now, astray>>

TakeOver(r) ==
  At(r, "takeover") /\ MoveTask(r, "HUMAN_TAKEOVER", <<"takeover", request[r].workflow>>, "idle")

CreateApproval(r, a) ==
  LET q == request[r]
  IN /\ At(r, "ask")
     /\ approval[a] = Unasked
     /\ approval' = [approval EXCEPT ![a] =
          [Unasked EXCEPT !.status = "PENDING", !.task = q.task, !.workflow = q.workflow,
                          !.expires = q.at + ApprovalTTL]]
     /\ request' = [request EXCEPT ![r].pc = "keep", ![r].approval = a]
     /\ UNCHANGED <<taskVars, pending, job, now, astray>>

\* Mutant: the task waits before there is anything to resume.
CreatePendingLater(r) ==
  /\ At(r, "keep")
  /\ Goto(r, "wait")
  /\ UNCHANGED <<taskVars, approval, pending, job, now, astray>>
CreatePending(r) ==
  /\ At(r, "keep")
  /\ pending' = [pending EXCEPT ![request[r].approval] = "PENDING"]
  /\ Goto(r, "wait")
  /\ UNCHANGED <<taskVars, approval, job, now, astray>>

Wait(r) ==
  At(r, "wait") /\ MoveTask(r, "WAITING_APPROVAL", <<"waiting", request[r].approval>>, "idle")

Queue(r) ==
  At(r, "queue") /\ MoveTask(r, "QUEUED", <<"queued", request[r].workflow>>, "create")

\* create_job; the step ids "<task>:<step>" are a primary key, so a second job of one
\* task for one workflow raises.
CreateJob(r) ==
  LET q == request[r]
  IN /\ At(r, "create")
     /\ IF \E j \in job : j.task = q.task /\ j.workflow = q.workflow
        THEN Fail(r)
        ELSE /\ job' = job \cup {[task |-> q.task, workflow |-> q.workflow, by |-> q.approval]}
             /\ IF q.approval = None THEN End(r) ELSE Goto(r, "complete")
             /\ UNCHANGED <<taskVars, approval, pending, now, astray>>

-----------------------------------------------------------------------------
(***************************************************************************)
(* decide_and_resume.                                                      *)
(***************************************************************************)
DecideRead(r, a, approved) ==
  /\ At(r, "idle")
  /\ pending[a] = "PENDING"
  /\ request' = [request EXCEPT ![r] =
       [Idle EXCEPT !.pc = "decide", !.approval = a, !.approved = approved, !.at = now,
                    !.task = approval[a].task, !.workflow = approval[a].workflow]]
  /\ UNCHANGED <<taskVars, approval, pending, job, now, astray>>

\* decide_approval's conditions.
\* Mutant: two operators may decide one approval.
OpenAtAll(a, at) == approval[a].status # "NONE" /\ at <= approval[a].expires
Open(a, at) == approval[a].status = "PENDING" /\ at <= approval[a].expires

Decide(r) ==
  LET q == request[r]
  IN /\ At(r, "decide")
     /\ IF Open(q.approval, q.at)
        THEN /\ approval' = [approval EXCEPT
                  ![q.approval].status = IF q.approved THEN "APPROVED" ELSE "REJECTED",
                  ![q.approval].decided = q.at]
             /\ Goto(r, "read")
             /\ UNCHANGED <<taskVars, pending, job, now, astray>>
        ELSE Fail(r)

ReadTask(r) ==
  /\ At(r, "read")
  /\ request' = [request EXCEPT ![r].version = taskVersion[request[r].task],
                                ![r].pc = IF request[r].approved THEN "authorize" ELSE "reject"]
  /\ astray' = IF taskState[request[r].task] = "PLANNING"
               THEN astray \cup {request[r].approval} ELSE astray
  /\ UNCHANGED <<taskVars, approval, pending, job, now>>

\* complete_pending_dispatch, WHERE status = 'PENDING'.
Resolve(r, status, next) ==
  LET a == request[r].approval
  IN IF pending[a] = "PENDING"
     THEN /\ pending' = [pending EXCEPT ![a] = status]
          /\ IF next = "idle" THEN End(r) ELSE Goto(r, next)
          /\ UNCHANGED <<taskVars, approval, job, now, astray>>
     ELSE Fail(r)

\* Mutant: the task's state is written to the dispatch.
RejectAsCancelled(r) == At(r, "reject") /\ Resolve(r, "CANCELLED", "cancel")
\* Mutant: the dispatch is closed whatever the decision was.
RejectAsDone(r) == At(r, "reject") /\ Resolve(r, "DISPATCHED", "cancel")
Reject(r) == At(r, "reject") /\ Resolve(r, "REJECTED", "cancel")

CancelTask(r) ==
  At(r, "cancel") /\ MoveTask(r, "CANCELLED", <<"rejected", request[r].approval>>, "idle")

\* authorize and consume_approval: the token is the one the decision has just stored.
Authorize(r) ==
  LET q == request[r]
      row == approval[q.approval]
  IN /\ At(r, "authorize")
     /\ IF row.status = "APPROVED" /\ row.used = Null /\ q.at <= row.expires
        THEN /\ approval' = [approval EXCEPT ![q.approval].used = q.at]
             /\ Goto(r, "release")
             /\ UNCHANGED <<taskVars, pending, job, now, astray>>
        ELSE Fail(r)

\* Mutant: the decision is carried out under the version found now, whatever happened.
ReleaseInAnyCase(r) ==
  /\ At(r, "release")
  /\ Goto(r, "create")
  /\ UNCHANGED <<taskVars, approval, pending, job, now, astray>>
Release(r) ==
  At(r, "release") /\ MoveTask(r, "QUEUED", <<"approved", request[r].approval>>, "create")

Complete(r) == At(r, "complete") /\ Resolve(r, "DISPATCHED", "idle")

-----------------------------------------------------------------------------
\* What happens to a task elsewhere (TaskExecution): its job is worked on, it is cancelled,
\* handed to a person, or queued again by an operator.
Elsewhere(t, target) ==
  /\ taskVersion[t] < MaxVersion
  /\ target # "CANCELLED" => \E j \in job : j.task = t
  /\ Transition(t, taskVersion[t], target, <<"elsewhere", taskVersion[t]>>)
  /\ UNCHANGED ownVars

Tick ==
  /\ now < MaxTime
  /\ now' = now + 1
  /\ UNCHANGED <<taskVars, approval, pending, job, request, astray>>

\* The server restarts: the requests under way are gone.
Restart ==
  /\ \E r \in Request : ~At(r, "idle")
  /\ request' = [r \in Request |-> Idle]
  /\ astray' = astray \cup {request[r].approval : r \in {q \in Request : Deciding(q)}}
  /\ UNCHANGED <<taskVars, approval, pending, job, now>>

ANext ==
  \/ \E r \in Request :
       \/ \E t \in Task, w \in Workflow : DispatchRead(r, t, w)
       \/ \E a \in Approval : CreateApproval(r, a)
       \/ \E a \in Approval, approved \in BOOLEAN : DecideRead(r, a, approved)
       \/ TakeOver(r) \/ CreatePending(r) \/ Wait(r) \/ Queue(r) \/ CreateJob(r)
       \/ Decide(r) \/ ReadTask(r) \/ Reject(r) \/ CancelTask(r)
       \/ Authorize(r) \/ Release(r) \/ Complete(r)
  \/ \E t \in Task, target \in TaskState : Elsewhere(t, target)
  \/ Tick
  \/ Restart

ASpec == AInit /\ [][ANext]_vars

-----------------------------------------------------------------------------
(***************************************************************************)
(* Properties.                                                             *)
(***************************************************************************)
\* A job of a workflow that needs an approval exists only if a person approved that very
\* task and workflow before the approval expired, and the approval was spent on it; no job
\* exists for what only a person may do, whatever else was dispatched, decided or
\* interrupted.
OnlyCleared ==
  \A j \in job :
    /\ Risk[j.workflow] = "LOW" <=> j.by = None
    /\ j.by # None =>
         LET row == approval[j.by]
         IN /\ row.status = "APPROVED" /\ row.task = j.task /\ row.workflow = j.workflow
            /\ row.decided <= row.expires /\ row.used # Null

\* What the dispatch table tells the operator is so: DISPATCHED means there is the job it
\* led to, REJECTED that a person said no and no job came of it.
PendingIsTrue ==
  \A a \in Approval :
    /\ pending[a] = "DISPATCHED" => \E j \in job : j.by = a
    /\ pending[a] = "REJECTED" => approval[a].status = "REJECTED" /\ \A j \in job : j.by # a

\* A task that waits for an approval can be helped: the approval it waits for is undecided
\* and its dispatch is there to be resumed, so that a person may decide it until it
\* expires, or a request is carrying the decision out.  Neither another dispatch nor
\* another decision of the same task takes that away; only a restart in the middle of the
\* decision does, and a decision made before the task began to wait (astray).
WaitingIsAsked ==
  \A t \in Task : taskState[t] = "WAITING_APPROVAL" =>
    \E a \in Approval :
      /\ approval[a].task = t /\ <<t, <<"waiting", a>>>> \in taskEvents
      /\ \/ approval[a].status = "PENDING" /\ pending[a] = "PENDING"
         \/ \E r \in Request : Deciding(r) /\ request[r].approval = a
         \/ a \in astray

\* The key under which a task is queued for a job.
QueueKey(j) == IF j.by = None THEN <<"queued", j.workflow>> ELSE <<"approved", j.by>>

\* A job exists only for a task that was put in the queue for that very job: one that had
\* ended when the decision was carried out, or had moved since the request read it, gets
\* none, however many dispatches and decisions of it are under way.  (It need not be
\* waiting: the code also queues one that was handed to a person meanwhile.)
DispatchedThroughTask == \A j \in job : <<j.task, QueueKey(j)>> \in taskEvents

verdict ==
  [a \in Approval |->
     CASE approval[a].status = "NONE" -> "none"
       [] approval[a].status = "PENDING" -> "asked"
       [] approval[a].status = "APPROVED" -> "granted"
       [] approval[a].status = "REJECTED" -> "denied"]

Clear == INSTANCE Clearance WITH
  Approval <- Approval, verdict <- verdict, done <- {j.by : j \in job} \ {None}

\* The dispatch service implements the clearance of actions: asked, granted or denied once,
\* carried out at most once and only when granted.
ClearanceSpec == Clear!Spec
=============================================================================
