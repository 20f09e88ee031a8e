----------------------------- MODULE WorkflowRuns -----------------------------
(***************************************************************************)
(* A workflow run on several phones: the rows workflow_runs and            *)
(* workflow_nodes (aishop/workflow_runs.py), the request that launches it  *)
(* and the requests that reconcile it with the jobs of its nodes           *)
(* (aishop/demo_flows.py).  The desktop asks for a reconciliation every    *)
(* two seconds, and every step of one is a transaction or a read of its    *)
(* own.  Each node has a child task and, once dispatched, one job; what    *)
(* the phones make of a job is in PhoneWorker.                             *)
(***************************************************************************)
EXTENDS Naturals, FiniteSets

CONSTANTS
  NNodes,     \* nodes, numbered in the order of their rows
  Deps,       \* [Node -> SUBSET Node]
  Request,    \* requests that may be under way at once
  Restarts,   \* the server may restart
  MaxVersion, \* bound: an operator retries the parent only under smaller versions
  OneOfThem,  \* bound: stop_all, a restart and a retry do not come together
  Parent      \* the task the run belongs to

Node == 1..NNodes

\* _assert_acyclic: nodes whose dependencies are resolved are taken until none is left.
Resolved[k \in 0..NNodes] ==
  IF k = 0 THEN {} ELSE {n \in Node : Deps[n] \subseteq Resolved[k - 1]}
Acyclic == Resolved[NNodes] = Node

\* create refuses anything else.
ASSUME WorkflowAssumption ==
  /\ NNodes \in Nat \ {0}
  /\ Deps \in [Node -> SUBSET Node]
  /\ \A n \in Node : n \notin Deps[n]
  /\ Acyclic
  /\ Restarts \in BOOLEAN
  /\ MaxVersion \in Nat
  /\ OneOfThem \in BOOLEAN
  /\ Parent \notin Node

VARIABLES
  taskState, taskVersion, taskEvents,   \* TaskStore, of the children and the parent
  run,       \* status of the workflow_runs row, "NONE" before create
  node,      \* [Node -> status of its row]
  job,       \* [Node -> status of its job, "NONE" before create_job]
  request,   \* [Request -> what its handler has read, and where it stands]
  lost       \* history: a restart took a request that was under way

INSTANCE TaskStore WITH Task <- Node \cup {Parent}

tables == <<taskState, taskVersion, taskEvents>>
vars == <<tables, run, node, job, request, lost>>

TERMINAL == {"SUCCEEDED", "FAILED", "HUMAN_TAKEOVER"}
NodeStatus == TERMINAL \cup {"PENDING", "RUNNING"}
RunStatus == TERMINAL \cup {"NONE", "RUNNING", "PARTIAL_SUCCESS"}
\* A cancelled job counts as a failed one.
JobEnd == {"SUCCEEDED", "FAILED"}

\* loop: what the request is doing when it has no node left, and after an aggregation.
Idle == [pc |-> "idle", loop |-> "none", todo |-> {}, seen |-> <<>>, version |-> 0, status |-> "NONE"]

WTypeOK ==
  /\ taskState \in [Node \cup {Parent} -> TaskState \cup {"NONE"}]
  /\ taskVersion \in [Node \cup {Parent} -> Nat]
  /\ run \in RunStatus
  /\ node \in [Node -> NodeStatus]
  /\ job \in [Node -> JobEnd \cup {"NONE", "OPEN", "HUMAN_TAKEOVER"}]
  /\ request \in [Request ->
       [pc : {"idle", "job", "complete", "read", "block", "reread", "write", "get", "ready", "child", "plan",
              "dispatch", "queue", "create", "start", "launched", "finish", "assign", "execute",
              "verify", "succeed", "takeover"},
        loop : {"none", "launch", "complete", "dispatch", "final"}, todo : SUBSET Node,
        seen : [Node -> NodeStatus] \cup {<<>>}, version : Nat, status : RunStatus]]
  /\ lost \in BOOLEAN

\* The parent task was created and planned (TaskExecution has these steps).
WInit ==
  /\ taskState = [t \in Node \cup {Parent} |-> IF t = Parent THEN "PLANNING" ELSE "NONE"]
  /\ taskVersion = [t \in Node \cup {Parent} |-> IF t = Parent THEN 2 ELSE 0]
  /\ taskEvents = {}
  /\ run = "NONE"
  /\ node = [n \in Node |-> "PENDING"]
  /\ job = [n \in Node |-> "NONE"]
  /\ request = [r \in Request |-> Idle]
  /\ lost = FALSE

-----------------------------------------------------------------------------
At(r, pc) == request[r].pc = pc
Goto(r, pc) == request' = [request EXCEPT ![r].pc = pc]
End(r) == request' = [request EXCEPT ![r] = Idle]

\* The node the request is at, the first of those it has left.
Current(r) == CHOOSE n \in request[r].todo : \A k \in request[r].todo : n <= k
Left(r) == request[r].todo \ {Current(r)}

\* The request goes on with the nodes it has left, or with what follows the loop.
Remaining(q, todo) ==
  LET p == [q EXCEPT !.todo = todo, !.seen = <<>>, !.version = 0, !.status = "NONE"]
  IN CASE todo # {} -> [p EXCEPT !.pc = IF q.loop = "complete" THEN "job" ELSE "child"]
       [] todo = {} /\ q.loop = "launch" -> [p EXCEPT !.pc = "launched", !.version = 2]
       [] todo = {} /\ q.loop = "complete" -> [p EXCEPT !.pc = "read", !.loop = "dispatch"]
       [] todo = {} /\ q.loop = "dispatch" -> [p EXCEPT !.pc = "read", !.loop = "final"]
Onward(r) == request' = [request EXCEPT ![r] = Remaining(@, Left(r))]

\* tasks.transition, which returns the row; an exception ends the request.
Move(r, t, target, key, next) ==
  /\ \/ /\ \/ Transition(t, request[r].version, target, key)
           \/ Replayed(t, key) /\ UNCHANGED tables
        /\ request' = [request EXCEPT ![r] =
             IF next = "idle" THEN Idle ELSE [@ EXCEPT !.pc = next, !.version = taskVersion'[t]]]
     \/ /\ Refused(t, request[r].version, target, key)
        /\ End(r)
        /\ UNCHANGED tables
  /\ UNCHANGED <<run, node, job, lost>>

-----------------------------------------------------------------------------
(***************************************************************************)
(* WorkflowRunService.                                                     *)
(***************************************************************************)
\* ready_nodes.
\* Mutant: a dependency that came to any end will do.
ReadyAfterAnyEnd == {n \in Node : node[n] = "PENDING" /\ \A d \in Deps[n] : node[d] \in TERMINAL}
Ready == {n \in Node : node[n] = "PENDING" /\ \A d \in Deps[n] : node[d] = "SUCCEEDED"}

\* The completed node is off the list, and the run is aggregated next.
Aggregated(r) ==
  request' = [request EXCEPT ![r].pc = "read", ![r].todo = Left(r), ![r].status = "NONE"]

\* complete_node: a terminal node keeps its status, and another status is refused.
\* Mutant: what the last request found is written.
CompleteNodeAgain(r, n, status) ==
  node' = [node EXCEPT ![n] = status] /\ Aggregated(r)
CompleteNode(r, n, status) ==
  IF node[n] \in TERMINAL
  THEN /\ IF node[n] = status
          THEN Onward(r) ELSE End(r)
       /\ UNCHANGED node
  ELSE /\ node' = [node EXCEPT ![n] = status]
       /\ Aggregated(r)

\* aggregate: nodes behind a failed one, as the statuses just read have it.
Blocked(seen) ==
  {n \in Node : seen[n] = "PENDING" /\ \E d \in Deps[n] : seen[d] \in {"FAILED", "HUMAN_TAKEOVER"}}

\* Mutant: some success is taken for success.
AggregateOfSome(seen) ==
  IF \E n \in Node : seen[n] = "SUCCEEDED" THEN "SUCCEEDED" ELSE "RUNNING"
Aggregate(seen) ==
  CASE \E n \in Node : seen[n] = "HUMAN_TAKEOVER" -> "HUMAN_TAKEOVER"
    [] \A n \in Node : seen[n] = "SUCCEEDED" -> "SUCCEEDED"
    [] \A n \in Node : seen[n] \in {"SUCCEEDED", "FAILED"} /\ \E k \in Node : seen[k] = "FAILED" ->
         IF \E n \in Node : seen[n] = "SUCCEEDED" THEN "PARTIAL_SUCCESS" ELSE "FAILED"
    [] OTHER -> "RUNNING"

AggregateRead(r) ==
  /\ At(r, "read")
  /\ request' = [request EXCEPT ![r].seen = node,
                                ![r].pc = IF Blocked(node) = {} THEN "write" ELSE "block"]
  /\ UNCHANGED <<tables, run, node, job, lost>>

\* UPDATE ... WHERE status = 'PENDING'; then the nodes are read again.
AggregateBlock(r) ==
  /\ At(r, "block")
  /\ node' = [n \in Node |-> IF n \in Blocked(request[r].seen) /\ node[n] = "PENDING"
                             THEN "FAILED" ELSE node[n]]
  /\ Goto(r, "reread")
  /\ UNCHANGED <<tables, run, job, lost>>

AggregateReread(r) ==
  /\ At(r, "reread")
  /\ request' = [request EXCEPT ![r].seen = node, ![r].pc = "write"]
  /\ UNCHANGED <<tables, run, node, job, lost>>

AggregateWrite(r) ==
  /\ At(r, "write")
  /\ run' = Aggregate(request[r].seen)
  /\ request' = [request EXCEPT ![r] =
       CASE @.loop = "complete" -> Remaining(@, @.todo)
         [] @.loop = "dispatch" -> [@ EXCEPT !.pc = "ready", !.seen = <<>>]
         [] @.loop = "final" -> [@ EXCEPT !.pc = "get", !.seen = <<>>]]
  /\ UNCHANGED <<tables, node, job, lost>>

-----------------------------------------------------------------------------
(***************************************************************************)
(* run, DEVICE mode: the run is created, its first nodes are dispatched,   *)
(* the parent is queued.                                                   *)
(***************************************************************************)
CreateRun(r) ==
  /\ At(r, "idle")
  /\ run = "NONE"
  /\ run' = "RUNNING"
  /\ request' = [request EXCEPT ![r] = [Idle EXCEPT !.pc = "ready", !.loop = "launch"]]
  /\ UNCHANGED <<tables, node, job, lost>>

\* Mutant: the parent is left as it was planned.
LaunchedUnqueued(r) == At(r, "launched") /\ End(r) /\ UNCHANGED <<tables, run, node, job, lost>>
Launched(r) ==
  At(r, "launched") /\ Move(r, Parent, "QUEUED", <<"QUEUED", request[r].version>>, "idle")

-----------------------------------------------------------------------------
(***************************************************************************)
(* _dispatch_workflow_node, for each ready node.                           *)
(***************************************************************************)
ReadReady(r) ==
  /\ At(r, "ready")
  /\ request' = [request EXCEPT ![r] = Remaining(@, Ready)]
  /\ UNCHANGED <<tables, run, node, job, lost>>

\* create_task, which returns the row if there is one.
Child(r) ==
  /\ At(r, "child")
  /\ IF taskState[Current(r)] = "NONE" THEN CreateTask(Current(r)) ELSE UNCHANGED tables
  /\ request' = [request EXCEPT ![r].pc = "plan", ![r].version = taskVersion'[Current(r)]]
  /\ UNCHANGED <<run, node, job, lost>>

Plan(r) == At(r, "plan") /\ Move(r, Current(r), "PLANNING", <<"planning">>, "dispatch")

\* dispatch: the task must be PLANNING.
DispatchRead(r) ==
  /\ At(r, "dispatch")
  /\ IF taskState[Current(r)] = "PLANNING"
     THEN request' = [request EXCEPT ![r].pc = "queue", ![r].version = taskVersion[Current(r)]]
     ELSE End(r)
  /\ UNCHANGED <<tables, run, node, job, lost>>

DispatchQueue(r) == At(r, "queue") /\ Move(r, Current(r), "QUEUED", <<"queued">>, "create")

\* create_job: the step ids make a second job of the child raise.
\* Mutant: they do not.
CreateJobAnew(r) ==
  /\ At(r, "create")
  /\ job' = [job EXCEPT ![Current(r)] = "OPEN"]
  /\ Goto(r, "start")
  /\ UNCHANGED <<tables, run, node, lost>>
CreateJob(r) ==
  /\ At(r, "create")
  /\ IF job[Current(r)] = "NONE"
     THEN job' = [job EXCEPT ![Current(r)] = "OPEN"] /\ Goto(r, "start")
     ELSE End(r) /\ UNCHANGED job
  /\ UNCHANGED <<tables, run, node, lost>>

StartNode(r) ==
  /\ At(r, "start")
  /\ IF node[Current(r)] = "PENDING"
     THEN /\ node' = [node EXCEPT ![Current(r)] = "RUNNING"]
          /\ Onward(r)
     ELSE End(r) /\ UNCHANGED node
  /\ UNCHANGED <<tables, run, job, lost>>

-----------------------------------------------------------------------------
(***************************************************************************)
(* reconcile_workflow.                                                     *)
(***************************************************************************)
\* The run's id is known once the launch has answered.
Reconcile(r) ==
  /\ At(r, "idle")
  /\ <<Parent, <<"QUEUED", 2>>>> \in taskEvents
  /\ request' = [request EXCEPT ![r] =
       Remaining([Idle EXCEPT !.loop = "complete"], {n \in Node : node[n] = "RUNNING"})]
  /\ UNCHANGED <<tables, run, node, job, lost>>

\* Mutant: the job's status is taken as it is.
StatusAsItIs(s) == s
\* What a job's status makes of its node; "NONE" leaves it as it is.
StatusFor(s) ==
  CASE s \in TERMINAL -> s
    [] OTHER -> "NONE"

ReadJob(r) ==
  /\ At(r, "job")
  /\ LET s == StatusFor(job[Current(r)])
     IN IF s = "NONE" THEN Onward(r)
        ELSE request' = [request EXCEPT ![r].pc = "complete", ![r].status = s]
  /\ UNCHANGED <<tables, run, node, job, lost>>

Complete(r) ==
  /\ At(r, "complete")
  /\ CompleteNode(r, Current(r), request[r].status)
  /\ UNCHANGED <<tables, run, job, lost>>

\* The run as aggregate returns it.
GetRun(r) ==
  /\ At(r, "get")
  /\ IF run = "RUNNING" THEN End(r)
     ELSE request' = [request EXCEPT ![r].pc = "finish", ![r].status = run]
  /\ UNCHANGED <<tables, run, node, job, lost>>

Finish(r) ==
  /\ At(r, "finish")
  /\ IF taskState[Parent] = "QUEUED"
     THEN request' = [request EXCEPT ![r].pc = "assign", ![r].version = taskVersion[Parent]]
     ELSE End(r)
  /\ UNCHANGED <<tables, run, node, job, lost>>

MoveParent(r, target, next) == Move(r, Parent, target, <<target, request[r].version>>, next)

Assign(r) == At(r, "assign") /\ MoveParent(r, "ASSIGNED", "execute")
Execute(r) ==
  At(r, "execute") /\ MoveParent(r, "EXECUTING",
                                 IF request[r].status = "SUCCEEDED" THEN "verify" ELSE "takeover")
Verify(r) == At(r, "verify") /\ MoveParent(r, "VERIFYING", "succeed")
Succeed(r) == At(r, "succeed") /\ MoveParent(r, "SUCCEEDED", "idle")
TakeOver(r) == At(r, "takeover") /\ MoveParent(r, "HUMAN_TAKEOVER", "idle")

-----------------------------------------------------------------------------
\* What becomes of a node's job (JobLease): an operator may retry one that waits for a person.
JobMoves(n, s) ==
  /\ \/ job[n] = "OPEN" /\ s \in JobEnd \cup {"HUMAN_TAKEOVER"}
     \/ job[n] = "HUMAN_TAKEOVER" /\ s \in {"OPEN", "FAILED"}
  /\ job' = [job EXCEPT ![n] = s]
  /\ UNCHANGED <<tables, run, node, request, lost>>

\* Bound, with OneOfThem: a behaviour sees stop_all, a restart or a retry, and no other.
Undisturbed ==
  OneOfThem => /\ ~lost /\ taskState[Parent] # "CANCELLED"
               /\ \A v \in 0..MaxVersion : <<Parent, <<"retry", v>>>> \notin taskEvents

\* stop_all reaches the parent.
StopParent ==
  /\ Undisturbed
  /\ Transition(Parent, taskVersion[Parent], "CANCELLED", <<"stop", taskVersion[Parent]>>)
  /\ UNCHANGED <<run, node, job, request, lost>>

\* retry: an operator queues the parent again that was handed to a person.
RetryParent ==
  /\ Undisturbed /\ taskVersion[Parent] < MaxVersion
  /\ taskState[Parent] \in {"RETRY_WAIT", "HUMAN_TAKEOVER"}
  /\ Transition(Parent, taskVersion[Parent], "QUEUED", <<"retry", taskVersion[Parent]>>)
  /\ UNCHANGED <<run, node, job, request, lost>>

Restart ==
  /\ Restarts /\ Undisturbed
  /\ \E r \in Request : ~At(r, "idle")
  /\ request' = [r \in Request |-> Idle]
  /\ lost' = TRUE
  /\ UNCHANGED <<tables, run, node, job>>

Step(r) ==
  \/ AggregateRead(r) \/ AggregateBlock(r) \/ AggregateReread(r) \/ AggregateWrite(r)
  \/ Launched(r) \/ ReadReady(r) \/ Child(r) \/ Plan(r)
  \/ DispatchRead(r) \/ DispatchQueue(r) \/ CreateJob(r) \/ StartNode(r)
  \/ ReadJob(r) \/ Complete(r) \/ GetRun(r) \/ Finish(r)
  \/ Assign(r) \/ Execute(r) \/ Verify(r) \/ Succeed(r) \/ TakeOver(r)

WNext ==
  \/ \E r \in Request : CreateRun(r) \/ Reconcile(r) \/ Step(r)
  \/ \E n \in Node, s \in JobEnd \cup {"OPEN", "HUMAN_TAKEOVER"} : JobMoves(n, s)
  \/ StopParent
  \/ RetryParent
  \/ Restart

\* The desktop asks again and again; the server goes on with what it has begun.
WFairness ==
  /\ \A r \in Request : WF_vars(Step(r) \/ CreateRun(r) \/ Reconcile(r))

WSpec == WInit /\ [][WNext]_vars
WFairSpec == WSpec /\ WFairness

-----------------------------------------------------------------------------
(***************************************************************************)
(* Properties.                                                             *)
(***************************************************************************)
\* A node's job exists only when every node it depends on has succeeded, and a node that
\* runs has one, whichever of two reconciliations got where first.
NodesInOrder ==
  \A n \in Node :
    /\ job[n] # "NONE" => \A d \in Deps[n] : node[d] = "SUCCEEDED"
    /\ node[n] = "RUNNING" => job[n] # "NONE"

\* A node says what became of its job: SUCCEEDED only if the job did, FAILED only if it
\* failed or was cancelled, or if there is no job because something before it went wrong.
NodesAreTrue ==
  \A n \in Node :
    /\ node[n] = "SUCCEEDED" => job[n] = "SUCCEEDED"
    /\ node[n] = "FAILED" =>
         \/ job[n] = "FAILED"
         \/ job[n] = "NONE" /\ \E d \in Deps[n] : node[d] \in {"FAILED", "HUMAN_TAKEOVER"}

\* The parent task succeeds only over jobs that all did, and is handed to a person only
\* when some node did not, although the status it goes by was read long before and two
\* requests may be moving it.
ParentIsTrue ==
  /\ taskState[Parent] \in {"VERIFYING", "SUCCEEDED"} => \A n \in Node : job[n] = "SUCCEEDED"
  /\ taskState[Parent] = "HUMAN_TAKEOVER" => \E n \in Node : node[n] \in {"FAILED", "HUMAN_TAKEOVER"}

\* What came to an end stays so: a node keeps its end, and what is behind a succeeded or
\* failed one is over, too: its job does not move any more, and none is created for a node
\* that failed without one, although two requests complete, block and dispatch nodes by
\* what they read before.
NodesStay ==
  [][\A n \in Node :
       /\ node[n] \in TERMINAL => node'[n] = node[n]
       /\ node[n] \in {"SUCCEEDED", "FAILED"} => job'[n] = job[n]]_vars

\* Unless a restart interrupts a request, or some job stays open, the parent task is
\* settled in the end, and the run's row, which a late aggregation may take back to
\* RUNNING, agrees with its nodes for good.
FlowSettles ==
  \/ <>lost
  \/ []<>(\E n \in Node : job[n] = "OPEN")
  \/ <>[](/\ taskState[Parent] \in {"SUCCEEDED", "HUMAN_TAKEOVER", "CANCELLED"}
          /\ run = Aggregate(node))
=============================================================================
