------------------------- MODULE WorkflowRuns_proofs -------------------------
(***************************************************************************)
(* Proofs about a workflow run: for any nodes, any acyclic dependencies    *)
(* and any number of requests that launch and reconcile it.                *)
(***************************************************************************)
EXTENDS WorkflowRuns, LeastElement

\* Where a request deals with a node, dispatches one, aggregates, settles the parent.
Dispatching == {"child", "plan", "dispatch", "queue", "create", "start"}
AtNode == Dispatching \cup {"job", "complete"}
Aggregating == {"read", "block", "reread", "write"}
Settling == {"finish", "assign", "execute", "verify", "succeed", "takeover"}

RequestRow ==
  [pc : {"idle", "job", "complete", "read", "block", "reread", "write", "get", "ready", "child", "plan",
         "dispatch", "queue", "create", "start", "launched", "finish", "assign", "execute",
         "verify", "succeed", "takeover"},
   loop : {"none", "launch", "complete", "dispatch", "final"}, todo : SUBSET Node,
   seen : [Node -> NodeStatus] \cup {<<>>}, version : Nat, status : RunStatus]

First(S) == CHOOSE n \in S : \A k \in S : n <= k

\* What a run's status says of the nodes; it goes on saying it, for an end stays.
SaysTrue(status) ==
  /\ status = "SUCCEEDED" => \A n \in Node : node[n] = "SUCCEEDED"
  /\ status \in {"FAILED", "PARTIAL_SUCCESS", "HUMAN_TAKEOVER"} =>
       \E n \in Node : node[n] \in {"FAILED", "HUMAN_TAKEOVER"}

\* Where a request may stand, and what it has read that still holds.
Placed(q) ==
  /\ q.pc \in AtNode => q.todo # {}
  /\ q.pc \in {"job", "complete"} => q.loop = "complete"
  /\ q.pc \in Dispatching \cup {"ready"} => q.loop \in {"launch", "dispatch"}
  /\ q.pc \in Aggregating => q.loop \in {"complete", "dispatch", "final"}
  /\ q.pc \in {"block", "write"} => q.seen \in [Node -> NodeStatus]
  /\ q.pc = "complete" => q.status \in TERMINAL
  /\ q.pc \in Settling => q.status \notin {"NONE", "RUNNING"}
  /\ q.pc \in {"verify", "succeed"} => q.status = "SUCCEEDED"
  /\ q.pc = "takeover" => q.status # "SUCCEEDED"

Holds(q) ==
  /\ q.loop \in {"launch", "dispatch"} =>
       \A n \in q.todo : \A d \in Deps[n] : node[d] = "SUCCEEDED"
  /\ q.pc = "start" => job[First(q.todo)] # "NONE"
  /\ q.pc = "complete" /\ q.status \in JobEnd => job[First(q.todo)] = q.status
  /\ q.pc \in {"block", "write"} =>
       \A n \in Node : q.seen[n] \in TERMINAL => node[n] = q.seen[n]
  /\ q.pc \in Settling => SaysTrue(q.status)

Requests == \A r \in Request : Placed(request[r]) /\ Holds(request[r])

\* Before the run is created nothing is under way, and the parent is not queued.
Begun ==
  run = "NONE" => /\ \A r \in Request : request[r].pc = "idle"
                  /\ <<Parent, <<"QUEUED", 2>>>> \notin taskEvents

WInv == WTypeOK /\ Requests /\ NodesInOrder /\ NodesAreTrue /\ ParentIsTrue /\ SaysTrue(run) /\ Begun

-----------------------------------------------------------------------------
LEMMA FirstIn ==
  ASSUME NEW S \in SUBSET Node, S # {}
  PROVE  First(S) \in S
<1>1. \E n \in S : \A k \in S : n <= k
  BY LeastElement DEF Node
<1> QED BY <1>1 DEF First

LEMMA StatusValues ==
  /\ TERMINAL \subseteq NodeStatus /\ NodeStatus \ {"PENDING"} \subseteq RunStatus
  /\ TaskState = {"RECEIVED", "PLANNING", "WAITING_APPROVAL", "QUEUED", "ASSIGNED", "EXECUTING",
                  "VERIFYING", "RETRY_WAIT", "HUMAN_TAKEOVER", "SUCCEEDED", "FAILED", "CANCELLED"}
BY DEF TERMINAL, NodeStatus, RunStatus, TaskState, Successors

\* The tables of tasks, and the rest of the state.
Tables == /\ taskState \in [Node \cup {Parent} -> TaskState \cup {"NONE"}]
          /\ taskVersion \in [Node \cup {Parent} -> Nat]
Rows == /\ run \in RunStatus
        /\ node \in [Node -> NodeStatus]
        /\ job \in [Node -> JobEnd \cup {"NONE", "OPEN", "HUMAN_TAKEOVER"}]
        /\ lost \in BOOLEAN

LEMMA TypeParts == WTypeOK <=> Tables /\ Rows /\ request \in [Request -> RequestRow]
BY DEF WTypeOK, Tables, Rows, RequestRow

\* The node a request deals with is one of those it has left.
LEMMA CurrentNode ==
  ASSUME WInv, NEW r \in Request, request[r].pc \in AtNode
  PROVE  /\ Current(r) = First(request[r].todo) /\ Current(r) \in request[r].todo
         /\ Current(r) \in Node /\ request[r] \in RequestRow
         /\ Left(r) \in SUBSET Node /\ Left(r) \subseteq request[r].todo
<1>1. request[r] \in RequestRow /\ request[r].todo \in SUBSET Node /\ request[r].todo # {}
  BY TypeParts DEF WInv, Requests, Placed, RequestRow
<1>2. First(request[r].todo) \in request[r].todo
  BY <1>1, FirstIn
<1> QED BY <1>1, <1>2 DEF Current, Left, First

-----------------------------------------------------------------------------
\* What a step may not take back.
NodesKept == \A n \in Node : node[n] \in TERMINAL => node'[n] = node[n]
JobsKept == \A n \in Node : /\ job[n] \in JobEnd => job'[n] = job[n]
                            /\ job[n] # "NONE" => job'[n] # "NONE"

LEMMA SaysTrueStill ==
  ASSUME NodesKept, NEW status, SaysTrue(status)
  PROVE  SaysTrue(status)'
BY DEF NodesKept, SaysTrue, TERMINAL

LEMMA HoldsStill ==
  ASSUME NodesKept, JobsKept, NEW q \in RequestRow, Placed(q), Holds(q),
         \A n \in Node : Deps[n] \subseteq Node
  PROVE  Holds(q)'
<1>1. q.pc \in AtNode => First(q.todo) \in Node
  BY FirstIn DEF Placed, RequestRow
<1>2. q.pc \in Settling => SaysTrue(q.status)'
  BY SaysTrueStill DEF Holds
<1>3. q.loop \in {"launch", "dispatch"} =>
        \A n \in q.todo : \A d \in Deps[n] : node'[d] = "SUCCEEDED"
  BY DEF Holds, NodesKept, RequestRow, TERMINAL
<1>4. /\ q.pc = "start" => job'[First(q.todo)] # "NONE"
      /\ q.pc = "complete" /\ q.status \in JobEnd => job'[First(q.todo)] = q.status
  BY <1>1 DEF Holds, JobsKept, AtNode, Dispatching
<1>5. q.pc \in {"block", "write"} =>
        \A n \in Node : q.seen[n] \in TERMINAL => node'[n] = q.seen[n]
  BY DEF Holds, NodesKept
<1> QED BY <1>2, <1>3, <1>4, <1>5 DEF Holds

\* One request goes on; the others stand where they stood.
LEMMA OneRequest ==
  ASSUME WInv, NodesKept, JobsKept, NEW r \in Request, NEW q \in RequestRow,
         request' = [request EXCEPT ![r] = q], Placed(q), Holds(q)'
  PROVE  request' \in [Request -> RequestRow] /\ Requests'
<1>1. request \in [Request -> RequestRow] /\ \A n \in Node : Deps[n] \subseteq Node
  BY TypeParts, WorkflowAssumption DEF WInv
<1>2. ASSUME NEW k \in Request, NEW p, p = request'[k] PROVE Placed(p) /\ Holds(p)'
  <2>1. CASE k = r
    BY <1>1, <1>2, <2>1
  <2>2. CASE k # r
    <3>1. p = request[k] /\ p \in RequestRow
      BY <1>1, <1>2, <2>2
    <3>2. Placed(p) /\ Holds(p)
      BY <3>1 DEF WInv, Requests
    <3> QED BY <1>1, <3>1, <3>2, HoldsStill
  <2> QED BY <2>1, <2>2
<1>3. request' \in [Request -> RequestRow]
  BY <1>1
<1>4. Requests'
  BY <1>2 DEF Requests, Placed, Holds, SaysTrue
<1> QED BY <1>3, <1>4

LEMMA OneRequestNow ==
  ASSUME WInv, NodesKept, JobsKept, NEW r \in Request, NEW q \in RequestRow,
         request' = [request EXCEPT ![r] = q], Placed(q), Holds(q)
  PROVE  request' \in [Request -> RequestRow] /\ Requests'
<1>1. Holds(q)'
  BY HoldsStill, WorkflowAssumption
<1> QED BY <1>1, OneRequest

LEMMA IdleFits == Idle \in RequestRow /\ Placed(Idle) /\ Holds(Idle)
BY DEF Idle, RequestRow, RunStatus, Placed, Holds, AtNode, Dispatching, Aggregating, Settling

LEMMA EndFits ==
  ASSUME WInv, NodesKept, JobsKept, NEW r \in Request, End(r)
  PROVE  request' \in [Request -> RequestRow] /\ Requests'
<1>1. PICK q : q = Idle
  OBVIOUS
<1>2. q \in RequestRow /\ Placed(q) /\ Holds(q)
  BY <1>1, IdleFits
<1> QED BY <1>1, <1>2, OneRequestNow DEF End

\* A request that has come to the end of a loop's body, or of the loop.
LEMMA RemainingFits ==
  ASSUME NEW p \in RequestRow, NEW todo \in SUBSET Node, p.loop \in {"launch", "complete", "dispatch"},
         p.loop \in {"launch", "dispatch"} =>
           \A n \in todo : \A d \in Deps[n] : node[d] = "SUCCEEDED",
         NEW q, q = Remaining(p, todo)
  PROVE  q \in RequestRow /\ Placed(q) /\ Holds(q)
<1> DEFINE base == [p EXCEPT !.todo = todo, !.seen = <<>>, !.version = 0, !.status = "NONE"]
<1>0. base \in RequestRow /\ base.todo = todo /\ base.loop = p.loop /\ base.status = "NONE"
  BY DEF RequestRow, RunStatus
<1>1. /\ todo # {} => q = [base EXCEPT !.pc = IF p.loop = "complete" THEN "job" ELSE "child"]
      /\ todo = {} /\ p.loop = "launch" => q = [base EXCEPT !.pc = "launched", !.version = 2]
      /\ todo = {} /\ p.loop = "complete" => q = [base EXCEPT !.pc = "read", !.loop = "dispatch"]
      /\ todo = {} /\ p.loop = "dispatch" => q = [base EXCEPT !.pc = "read", !.loop = "final"]
  BY DEF Remaining
<1> HIDE DEF base
<1>2. CASE todo # {}
  <2>1. q \in RequestRow /\ q.todo = todo /\ q.loop = p.loop
        /\ q.pc = IF p.loop = "complete" THEN "job" ELSE "child"
    BY <1>0, <1>1, <1>2 DEF RequestRow
  <2> QED BY <1>2, <2>1 DEF Placed, Holds, AtNode, Dispatching, Aggregating, Settling
<1>3. CASE todo = {} /\ p.loop = "launch"
  <2>0. base.todo = {} /\ q = [base EXCEPT !.pc = "launched", !.version = 2] /\ 2 \in Nat
    BY <1>0, <1>1, <1>3
  <2>1. q.todo = {} /\ q.pc = "launched"
    BY <1>0, <2>0 DEF RequestRow
  <2>2. q \in RequestRow
    BY <1>0, <2>0 DEF RequestRow
  <2> QED BY <2>1, <2>2 DEF Placed, Holds, AtNode, Dispatching, Aggregating, Settling
<1>4. CASE todo = {} /\ p.loop \in {"complete", "dispatch"}
  <2>1. q \in RequestRow /\ q.todo = {} /\ q.pc = "read" /\ q.loop \in {"dispatch", "final"}
    BY <1>0, <1>1, <1>4 DEF RequestRow
  <2> QED BY <2>1 DEF Placed, Holds, AtNode, Dispatching, Aggregating, Settling
<1> QED BY <1>2, <1>3, <1>4

LEMMA OnwardFits ==
  ASSUME WInv, NodesKept, JobsKept, NEW r \in Request, request[r].pc \in AtNode, Onward(r)
  PROVE  request' \in [Request -> RequestRow] /\ Requests'
<1>1. PICK q : q = Remaining(request[r], Left(r))
  OBVIOUS
<1>2. /\ request[r] \in RequestRow /\ Left(r) \in SUBSET Node /\ Left(r) \subseteq request[r].todo
      /\ request[r].loop \in {"launch", "complete", "dispatch"} /\ Holds(request[r])
  BY CurrentNode DEF WInv, Requests, Placed, AtNode
<1>3. q \in RequestRow /\ Placed(q) /\ Holds(q)
  <2>1. request[r].loop \in {"launch", "dispatch"} =>
          \A n \in Left(r) : \A d \in Deps[n] : node[d] = "SUCCEEDED"
    BY <1>2 DEF Holds
  <2> QED BY <1>1, <1>2, <2>1, RemainingFits
<1> QED BY <1>1, <1>3, OneRequestNow DEF Onward

\* A request that stays at its node, or goes on with its parent, under what it has read.
LEMMA SameWork ==
  ASSUME WInv, NodesKept, JobsKept, NEW r \in Request, NEW pc, NEW version \in Nat,
         request' = [request EXCEPT ![r] = [@ EXCEPT !.pc = pc, !.version = version]],
         \/ request[r].pc \in Dispatching /\ pc \in Dispatching \ {"start"}
         \/ /\ request[r].pc \in Settling /\ pc \in Settling
            /\ pc \in {"verify", "succeed"} => request[r].status = "SUCCEEDED"
            /\ pc = "takeover" => request[r].status # "SUCCEEDED"
  PROVE  request' \in [Request -> RequestRow] /\ Requests'
<1>1. PICK q : q = [request[r] EXCEPT !.pc = pc, !.version = version]
  OBVIOUS
<1>2. request[r] \in RequestRow /\ Placed(request[r]) /\ Holds(request[r])
  BY TypeParts DEF WInv, Requests
<1>3. /\ q \in RequestRow /\ q.pc = pc /\ q.todo = request[r].todo /\ q.loop = request[r].loop
      /\ q.status = request[r].status
  BY <1>1, <1>2 DEF RequestRow, Dispatching, Settling
<1>4. Placed(q) /\ Holds(q)
  BY <1>2, <1>3 DEF Placed, Holds, AtNode, Dispatching, Aggregating, Settling
<1> QED BY <1>1, <1>3, <1>4, OneRequestNow

\* tasks.transition.
LEMMA MoveFits ==
  ASSUME WInv, NodesKept, JobsKept, Tables', NEW r \in Request, NEW t \in Node \cup {Parent},
         NEW target, NEW key, NEW next, Move(r, t, target, key, next),
         \/ next = "idle"
         \/ request[r].pc \in Dispatching /\ next \in Dispatching \ {"start"}
         \/ /\ request[r].pc \in Settling /\ next \in Settling
            /\ next \in {"verify", "succeed"} => request[r].status = "SUCCEEDED"
            /\ next = "takeover" => request[r].status # "SUCCEEDED"
  PROVE  request' \in [Request -> RequestRow] /\ Requests'
<1>1. CASE End(r)
  BY <1>1, EndFits
<1>2. PICK version \in Nat : version = taskVersion'[t]
  BY DEF Tables
<1>3. CASE request' = [request EXCEPT ![r] =
             IF next = "idle" THEN Idle ELSE [@ EXCEPT !.pc = next, !.version = taskVersion'[t]]]
  BY <1>2, <1>3, SameWork, EndFits DEF End
<1> QED BY <1>1, <1>3 DEF Move

-----------------------------------------------------------------------------
LEMMA TransitionTables ==
  ASSUME Tables, NEW t \in Node \cup {Parent}, NEW version, NEW target \in TaskState, NEW key,
         Transition(t, version, target, key)
  PROVE  Tables' /\ taskState'[Parent] = IF t = Parent THEN target ELSE taskState[Parent]
BY DEF Transition, Tables

LEMMA MoveTables ==
  ASSUME Tables, NEW r, NEW t \in Node \cup {Parent}, NEW target \in TaskState, NEW key, NEW next,
         Move(r, t, target, key, next)
  PROVE  /\ Tables'
         /\ taskState'[Parent] = taskState[Parent] \/ (t = Parent /\ taskState'[Parent] = target)
<1>1. Transition(t, request[r].version, target, key) \/ UNCHANGED tables
  BY DEF Move
<1> QED BY <1>1, TransitionTables DEF tables, Tables

\* A step of the parent that says something of the nodes is taken by a request that knows.
ParentMoves ==
  \/ taskState'[Parent] = taskState[Parent]
  \/ taskState'[Parent] \notin {"VERIFYING", "SUCCEEDED", "HUMAN_TAKEOVER"}
  \/ /\ taskState'[Parent] \in {"VERIFYING", "SUCCEEDED"}
     /\ \E r \in Request : request[r].pc \in {"verify", "succeed"}
  \/ taskState'[Parent] = "HUMAN_TAKEOVER" /\ \E r \in Request : request[r].pc = "takeover"

LEMMA TablesStep ==
  ASSUME WInv, WNext
  PROVE  Tables' /\ ParentMoves
<1>0. Tables /\ Parent \in Node \cup {Parent} /\ Parent \notin Node
  BY TypeParts, WorkflowAssumption DEF WInv
<1>1. CASE UNCHANGED tables
  BY <1>0, <1>1 DEF tables, Tables, ParentMoves
<1>2. ASSUME NEW r \in Request, Plan(r) \/ DispatchQueue(r) PROVE Tables' /\ ParentMoves
  <2>1. Current(r) \in Node /\ "PLANNING" \in TaskState /\ "QUEUED" \in TaskState
    BY <1>2, CurrentNode, StatusValues DEF Plan, DispatchQueue, At, AtNode, Dispatching
  <2> QED BY <1>0, <1>2, <2>1, MoveTables DEF Plan, DispatchQueue, ParentMoves
<1>3. ASSUME NEW r \in Request, Child(r) PROVE Tables' /\ ParentMoves
  <2>1. Current(r) \in Node
    BY <1>3, CurrentNode DEF Child, At, AtNode, Dispatching
  <2>2. CASE CreateTask(Current(r))
    <3>1. Tables'
      BY <1>0, <2>1, <2>2, StatusValues DEF CreateTask, Tables
    <3>2. taskState'[Parent] = taskState[Parent]
      BY <1>0, <2>1, <2>2 DEF CreateTask, Tables
    <3> QED BY <3>1, <3>2 DEF ParentMoves
  <2> QED BY <1>1, <1>3, <2>2 DEF Child
<1>4. ASSUME NEW r \in Request, NEW target \in {"QUEUED", "ASSIGNED", "EXECUTING"}, NEW key, NEW next,
             Move(r, Parent, target, key, next)
      PROVE  Tables' /\ ParentMoves
  BY <1>0, <1>4, MoveTables, StatusValues DEF ParentMoves
<1>5. ASSUME NEW r \in Request, Launched(r) \/ Assign(r) \/ Execute(r) PROVE Tables' /\ ParentMoves
  BY <1>4, <1>5 DEF Launched, Assign, Execute, MoveParent
<1>6. ASSUME NEW r \in Request, Verify(r) \/ Succeed(r) PROVE Tables' /\ ParentMoves
  BY <1>0, <1>6, MoveTables, StatusValues DEF Verify, Succeed, MoveParent, ParentMoves, At
<1>7. ASSUME NEW r \in Request, TakeOver(r) PROVE Tables' /\ ParentMoves
  BY <1>0, <1>7, MoveTables, StatusValues DEF TakeOver, MoveParent, ParentMoves, At
<1>8. CASE StopParent \/ RetryParent
  BY <1>0, <1>8, TransitionTables, StatusValues DEF StopParent, RetryParent, ParentMoves
<1>9. ASSUME NEW r \in Request,
             \/ CreateRun(r) \/ Reconcile(r) \/ AggregateRead(r) \/ AggregateBlock(r)
             \/ AggregateReread(r) \/ AggregateWrite(r) \/ ReadReady(r) \/ DispatchRead(r) \/ CreateJob(r) \/ StartNode(r)
             \/ ReadJob(r) \/ Complete(r) \/ GetRun(r) \/ Finish(r)
      PROVE  UNCHANGED tables
  BY <1>9 DEF CreateRun, Reconcile, AggregateRead, AggregateBlock, AggregateReread, AggregateWrite, ReadReady,
              DispatchRead, CreateJob, StartNode, ReadJob, Complete, GetRun, Finish
<1>10. CASE Restart \/ \E n \in Node, s \in JobEnd \cup {"OPEN", "HUMAN_TAKEOVER"} : JobMoves(n, s)
  BY <1>1, <1>10 DEF Restart, JobMoves
<1> QED BY <1>1, <1>2, <1>3, <1>5, <1>6, <1>7, <1>8, <1>9, <1>10 DEF WNext, Step

\* Nodes and jobs that have ended stay as they are, and a job that exists goes on existing.
LEMMA RowsStep ==
  ASSUME WInv, WNext
  PROVE  Rows' /\ NodesKept /\ JobsKept
<1>0. Rows /\ \A r \in Request : request[r] \in RequestRow /\ Placed(request[r])
  BY TypeParts DEF WInv, Requests
<1> USE DEF NodesKept, JobsKept
<1>1. CASE UNCHANGED <<run, node, job, lost>>
  BY <1>0, <1>1 DEF Rows
<1>2. ASSUME NEW r \in Request,
             \/ Reconcile(r) \/ AggregateRead(r) \/ AggregateReread(r) \/ ReadReady(r) \/ Child(r)
             \/ DispatchRead(r) \/ ReadJob(r) \/ GetRun(r) \/ Finish(r)
      PROVE  UNCHANGED <<run, node, job, lost>>
  BY <1>2 DEF Reconcile, AggregateRead, AggregateReread, ReadReady, Child, DispatchRead, ReadJob, GetRun, Finish
<1>3. ASSUME NEW r \in Request,
             \/ Launched(r) \/ Plan(r) \/ DispatchQueue(r) \/ Assign(r) \/ Execute(r)
             \/ Verify(r) \/ Succeed(r) \/ TakeOver(r)
      PROVE  UNCHANGED <<run, node, job, lost>>
  BY <1>3 DEF Launched, Plan, DispatchQueue, Assign, Execute, Verify, Succeed, TakeOver, MoveParent, Move
<1>4. ASSUME NEW r \in Request, CreateRun(r) PROVE Rows' /\ NodesKept /\ JobsKept
  BY <1>0, <1>4 DEF CreateRun, Rows, RunStatus
<1>5. ASSUME NEW r \in Request, AggregateBlock(r) PROVE Rows' /\ NodesKept /\ JobsKept
  BY <1>0, <1>5 DEF AggregateBlock, Rows, NodeStatus, TERMINAL
<1>6. ASSUME NEW r \in Request, AggregateWrite(r) PROVE Rows' /\ NodesKept /\ JobsKept
  <2>1. Aggregate(request[r].seen) \in RunStatus
    BY DEF Aggregate, RunStatus, TERMINAL
  <2> QED BY <1>0, <1>6, <2>1 DEF AggregateWrite, Rows
<1>7. ASSUME NEW r \in Request, CreateJob(r) PROVE Rows' /\ NodesKept /\ JobsKept
  BY <1>0, <1>7 DEF CreateJob, Rows, JobEnd
<1>8. ASSUME NEW r \in Request, StartNode(r) PROVE Rows' /\ NodesKept /\ JobsKept
  BY <1>0, <1>8 DEF StartNode, Rows, NodeStatus, TERMINAL
<1>9. ASSUME NEW r \in Request, Complete(r) PROVE Rows' /\ NodesKept /\ JobsKept
  <2>1. request[r].status \in NodeStatus
    BY <1>0, <1>9 DEF Complete, At, Placed, NodeStatus
  <2> QED BY <1>0, <1>9, <2>1 DEF Complete, CompleteNode, Rows
<1>10. ASSUME NEW n \in Node, NEW s \in JobEnd \cup {"OPEN", "HUMAN_TAKEOVER"}, JobMoves(n, s)
       PROVE  Rows' /\ NodesKept /\ JobsKept
  BY <1>0, <1>10 DEF JobMoves, Rows, JobEnd
<1>11. CASE StopParent \/ RetryParent \/ Restart
  BY <1>0, <1>11 DEF StopParent, RetryParent, Restart, Rows
<1> QED BY <1>1, <1>2, <1>3, <1>4, <1>5, <1>6, <1>7, <1>8, <1>9, <1>10, <1>11 DEF WNext, Step

-----------------------------------------------------------------------------
\* What a request takes with it still holds when it is used.
RequestsFit == request' \in [Request -> RequestRow] /\ Requests'

LEMMA AllStay ==
  ASSUME WInv, NodesKept, JobsKept, UNCHANGED request
  PROVE  RequestsFit
<1>1. request \in [Request -> RequestRow] /\ \A n \in Node : Deps[n] \subseteq Node
  BY TypeParts, WorkflowAssumption DEF WInv
<1>2. ASSUME NEW k \in Request, NEW p, p = request[k] PROVE Placed(p) /\ Holds(p)'
  <2>1. p \in RequestRow /\ Placed(p) /\ Holds(p)
    BY <1>1, <1>2 DEF WInv, Requests
  <2> QED BY <1>1, <2>1, HoldsStill
<1> QED BY <1>1, <1>2 DEF RequestsFit, Requests, Placed, Holds, SaysTrue

LEMMA AggregateFits ==
  ASSUME WInv, NodesKept, JobsKept, Rows', NEW r \in Request,
         AggregateRead(r) \/ AggregateBlock(r) \/ AggregateReread(r) \/ AggregateWrite(r)
  PROVE  RequestsFit
<1> USE DEF RequestsFit
<1>0. /\ request[r] \in RequestRow /\ Placed(request[r]) /\ Holds(request[r])
      /\ request[r].pc \in Aggregating /\ node \in [Node -> NodeStatus] /\ node' \in [Node -> NodeStatus]
  BY TypeParts DEF WInv, Requests, Rows, AggregateRead, AggregateBlock, AggregateReread, AggregateWrite, At, Aggregating
<1>1. PICK p : p = request[r]
  OBVIOUS
<1>2. p \in RequestRow /\ Placed(p) /\ Holds(p) /\ Holds(p)'
  BY <1>0, <1>1, HoldsStill, WorkflowAssumption
<1>3. ASSUME NEW pc \in {"write", "block"},
             request' = [request EXCEPT ![r].seen = node, ![r].pc = pc]
      PROVE  RequestsFit
  <2>1. PICK q : q = [request[r] EXCEPT !.seen = node, !.pc = pc]
    OBVIOUS
  <2>2. /\ q \in RequestRow /\ q.pc \in {"write", "block"} /\ q.seen = node
        /\ q.todo = request[r].todo /\ q.loop = request[r].loop
    BY <1>0, <2>1 DEF RequestRow
  <2>3. Placed(q) /\ Holds(q)
    BY <1>0, <2>2 DEF Placed, Holds, AtNode, Dispatching, Aggregating, Settling
  <2>4. request' = [request EXCEPT ![r] = q]
    BY <1>3, <2>1
  <2> QED BY <2>2, <2>3, <2>4, OneRequestNow
<1>4. CASE AggregateBlock(r)
  <2>1. PICK q : q = [request[r] EXCEPT !.pc = "reread"]
    OBVIOUS
  <2>2. /\ q \in RequestRow /\ q.pc = "reread" /\ q.todo = p.todo /\ q.loop = p.loop
    BY <1>0, <1>1, <2>1 DEF RequestRow
  <2>3. Placed(q)
    BY <1>0, <1>1, <1>2, <2>2 DEF Placed, AtNode, Dispatching, Aggregating, Settling
  <2>4. Holds(q)'
    BY <1>2, <2>2 DEF Holds, AtNode, Dispatching, Aggregating, Settling
  <2>5. request' = [request EXCEPT ![r] = q]
    BY <1>4, <2>1 DEF AggregateBlock, Goto
  <2> QED BY <2>2, <2>3, <2>4, <2>5, OneRequest
<1>5. CASE AggregateWrite(r)
  <2>1. CASE p.loop = "complete"
    <3>1. PICK q : q = Remaining(p, p.todo)
      OBVIOUS
    <3>2. q \in RequestRow /\ Placed(q) /\ Holds(q)
      BY <1>2, <2>1, <3>1, RemainingFits DEF RequestRow
    <3>3. request' = [request EXCEPT ![r] = q]
      BY <1>1, <1>5, <2>1, <3>1 DEF AggregateWrite
    <3> QED BY <3>2, <3>3, OneRequestNow
  <2>2. CASE p.loop \in {"dispatch", "final"}
    <3>1. PICK q : q = [p EXCEPT !.pc = IF p.loop = "dispatch" THEN "ready" ELSE "get", !.seen = <<>>]
      OBVIOUS
    <3>2. /\ q \in RequestRow /\ q.pc \in {"ready", "get"} /\ q.todo = p.todo /\ q.loop = p.loop
          /\ q.pc = "ready" => q.loop = "dispatch"
      BY <1>2, <2>2, <3>1 DEF RequestRow
    <3>3. Placed(q) /\ Holds(q)
      BY <1>2, <3>2 DEF Placed, Holds, AtNode, Dispatching, Aggregating, Settling
    <3>4. request' = [request EXCEPT ![r] = q]
      BY <1>1, <1>5, <2>2, <3>1 DEF AggregateWrite
    <3> QED BY <3>2, <3>3, <3>4, OneRequestNow
  <2> QED BY <1>0, <1>1, <1>2, <2>1, <2>2 DEF Placed
<1>6. CASE AggregateRead(r) \/ AggregateReread(r)
  BY <1>3, <1>6 DEF AggregateRead, AggregateReread
<1> QED BY <1>4, <1>5, <1>6

LEMMA DispatchFits ==
  ASSUME WInv, NodesKept, JobsKept, Tables', NEW r \in Request,
         \/ Child(r) \/ Plan(r) \/ DispatchRead(r) \/ DispatchQueue(r) \/ CreateJob(r) \/ StartNode(r)
  PROVE  RequestsFit
<1> USE DEF RequestsFit
<1>0. /\ request[r] \in RequestRow /\ Placed(request[r]) /\ Holds(request[r])
      /\ request[r].pc \in Dispatching /\ request[r].pc \in AtNode
      /\ Current(r) \in Node /\ Current(r) = First(request[r].todo)
      /\ job \in [Node -> JobEnd \cup {"NONE", "OPEN", "HUMAN_TAKEOVER"}]
  BY CurrentNode, TypeParts
  DEF WInv, Requests, Rows, Child, Plan, DispatchRead, DispatchQueue, CreateJob, StartNode, At,
      Dispatching, AtNode
<1>1. CASE Child(r)
  <2>1. PICK version \in Nat : version = taskVersion'[Current(r)]
    BY <1>0 DEF Tables
  <2>2. request' = [request EXCEPT ![r] = [@ EXCEPT !.pc = "plan", !.version = version]]
    BY <1>1, <2>1 DEF Child
  <2> QED BY <1>0, <2>2, SameWork DEF Dispatching
<1>2. CASE Plan(r)
  BY <1>0, <1>2, MoveFits DEF Plan, Dispatching
<1>3. CASE DispatchRead(r)
  <2>1. CASE End(r)
    BY <2>1, EndFits
  <2>2. CASE request' = [request EXCEPT ![r].pc = "queue", ![r].version = taskVersion[Current(r)]]
    <3>1. PICK version \in Nat : version = taskVersion[Current(r)]
      BY <1>0, TypeParts DEF WInv, Tables
    <3>2. request' = [request EXCEPT ![r] = [@ EXCEPT !.pc = "queue", !.version = version]]
      BY <2>2, <3>1
    <3> QED BY <1>0, <3>2, SameWork DEF Dispatching
  <2> QED BY <1>3, <2>1, <2>2 DEF DispatchRead
<1>4. CASE DispatchQueue(r)
  BY <1>0, <1>4, MoveFits DEF DispatchQueue, Dispatching
<1>5. CASE CreateJob(r)
  <2>1. CASE End(r)
    BY <2>1, EndFits
  <2>2. CASE job' = [job EXCEPT ![Current(r)] = "OPEN"] /\ Goto(r, "start")
    <3>1. PICK q : q = [request[r] EXCEPT !.pc = "start"]
      OBVIOUS
    <3>2. /\ q \in RequestRow /\ q.pc = "start" /\ q.todo = request[r].todo /\ q.loop = request[r].loop
      BY <1>0, <3>1 DEF RequestRow
    <3>3. Placed(q)
      BY <1>0, <3>2 DEF Placed, AtNode, Dispatching, Aggregating, Settling
    <3>4. Holds(q)'
      <4>1. node' = node /\ job'[First(q.todo)] # "NONE"
        BY <1>0, <1>5, <2>2, <3>2 DEF CreateJob
      <4> QED BY <1>0, <3>2, <4>1 DEF Holds, Settling
    <3>5. request' = [request EXCEPT ![r] = q]
      BY <2>2, <3>1 DEF Goto
    <3> QED BY <3>2, <3>3, <3>4, <3>5, OneRequest
  <2> QED BY <1>5, <2>1, <2>2 DEF CreateJob
<1>6. CASE StartNode(r)
  BY <1>0, <1>6, EndFits, OnwardFits DEF StartNode
<1> QED BY <1>1, <1>2, <1>3, <1>4, <1>5, <1>6

LEMMA ReconcileFits ==
  ASSUME WInv, NodesKept, JobsKept, NEW r \in Request, ReadJob(r) \/ Complete(r)
  PROVE  RequestsFit
<1> USE DEF RequestsFit
<1>0. /\ request[r] \in RequestRow /\ Placed(request[r]) /\ Holds(request[r])
      /\ request[r].pc \in {"job", "complete"} /\ request[r].pc \in AtNode
      /\ request[r].loop = "complete"
      /\ Current(r) \in Node /\ Current(r) = First(request[r].todo) /\ Left(r) \in SUBSET Node
  BY CurrentNode DEF WInv, Requests, ReadJob, Complete, At, AtNode, Placed
<1>1. CASE Onward(r) \/ End(r)
  BY <1>0, <1>1, OnwardFits, EndFits
<1>2. CASE ReadJob(r) /\ ~Onward(r)
  <2>1. PICK s : s = StatusFor(job[Current(r)])
    OBVIOUS
  <2>2. s \in TERMINAL /\ s = job[Current(r)]
    BY <1>2, <2>1 DEF ReadJob, StatusFor
  <2>3. PICK q : q = [request[r] EXCEPT !.pc = "complete", !.status = s]
    OBVIOUS
  <2>4. /\ q \in RequestRow /\ q.pc = "complete" /\ q.status = s
        /\ q.todo = request[r].todo /\ q.loop = request[r].loop
    BY <1>0, <2>2, <2>3 DEF RequestRow, RunStatus
  <2>5. Placed(q) /\ Holds(q)
    BY <1>0, <2>2, <2>4 DEF Placed, Holds, AtNode, Dispatching, Aggregating, Settling
  <2>6. request' = [request EXCEPT ![r] = q]
    BY <1>2, <2>1, <2>2, <2>3 DEF ReadJob, TERMINAL
  <2> QED BY <2>4, <2>5, <2>6, OneRequestNow
<1>3. CASE Aggregated(r)
  <2>1. PICK q : q = [request[r] EXCEPT !.pc = "read", !.todo = Left(r), !.status = "NONE"]
    OBVIOUS
  <2>2. q \in RequestRow /\ q.pc = "read" /\ q.loop = "complete"
    BY <1>0, <2>1 DEF RequestRow, RunStatus
  <2>3. Placed(q) /\ Holds(q)
    BY <2>2 DEF Placed, Holds, AtNode, Dispatching, Aggregating, Settling
  <2>4. request' = [request EXCEPT ![r] = q]
    BY <1>3, <2>1 DEF Aggregated
  <2> QED BY <2>2, <2>3, <2>4, OneRequestNow
<1> QED BY <1>1, <1>2, <1>3 DEF Complete, CompleteNode

LEMMA SettleFits ==
  ASSUME WInv, NodesKept, JobsKept, Tables', NEW r \in Request,
         \/ GetRun(r) \/ Finish(r) \/ Assign(r) \/ Execute(r) \/ Verify(r) \/ Succeed(r) \/ TakeOver(r)
  PROVE  RequestsFit
<1> USE DEF RequestsFit
<1>0. /\ request[r] \in RequestRow /\ Placed(request[r]) /\ Holds(request[r]) /\ Parent \in Node \cup {Parent}
      /\ run \in RunStatus
  BY TypeParts DEF WInv, Requests, Rows
<1>1. CASE GetRun(r)
  <2>1. CASE End(r)
    BY <2>1, EndFits
  <2>2. CASE run # "RUNNING" /\ ~End(r)
    <3>1. PICK q : q = [request[r] EXCEPT !.pc = "finish", !.status = run]
      OBVIOUS
    <3>2. q \in RequestRow /\ q.pc = "finish" /\ q.status = run /\ q.todo = request[r].todo
          /\ q.loop = request[r].loop
      BY <1>0, <3>1 DEF RequestRow
    <3>3. run # "NONE" /\ SaysTrue(run)
      BY <1>1 DEF WInv, Begun, GetRun, At
    <3>4. Placed(q) /\ Holds(q)
      BY <1>0, <2>2, <3>2, <3>3 DEF Placed, Holds, AtNode, Dispatching, Aggregating, Settling
    <3>5. request' = [request EXCEPT ![r] = q]
      BY <1>1, <2>2, <3>1 DEF GetRun
    <3> QED BY <3>2, <3>4, <3>5, OneRequestNow
  <2> QED BY <1>1, <2>1, <2>2 DEF GetRun
<1>2. CASE Finish(r)
  <2>1. CASE End(r)
    BY <2>1, EndFits
  <2>2. CASE request' = [request EXCEPT ![r].pc = "assign", ![r].version = taskVersion[Parent]]
    <3>1. PICK version \in Nat : version = taskVersion[Parent]
      BY <1>0, TypeParts DEF WInv, Tables
    <3>2. request' = [request EXCEPT ![r] = [@ EXCEPT !.pc = "assign", !.version = version]]
      BY <2>2, <3>1
    <3> QED BY <1>2, <3>2, SameWork DEF Settling, Finish, At
  <2> QED BY <1>2, <2>1, <2>2 DEF Finish
<1>3. CASE Assign(r)
  BY <1>0, <1>3, MoveFits DEF Assign, MoveParent, At, Settling
<1>4. CASE Execute(r)
  BY <1>0, <1>4, MoveFits DEF Execute, MoveParent, At, Settling
<1>5. CASE Verify(r)
  BY <1>0, <1>5, MoveFits DEF Verify, MoveParent, At, Settling, Placed
<1>6. CASE Succeed(r) \/ TakeOver(r)
  BY <1>0, <1>6, MoveFits DEF Succeed, TakeOver, MoveParent
<1> QED BY <1>1, <1>2, <1>3, <1>4, <1>5, <1>6

LEMMA RequestsStep ==
  ASSUME WInv, WNext
  PROVE  RequestsFit
<1>0. NodesKept /\ JobsKept /\ Tables' /\ Rows' /\ Parent \in Node \cup {Parent}
  BY RowsStep, TablesStep
<1> USE DEF RequestsFit
<1>1. ASSUME NEW r \in Request, CreateRun(r) PROVE RequestsFit
  <2>1. PICK q : q = [Idle EXCEPT !.pc = "ready", !.loop = "launch"]
    OBVIOUS
  <2>2. q \in RequestRow /\ q.pc = "ready" /\ q.loop = "launch" /\ q.todo = {}
    BY <2>1, IdleFits DEF RequestRow, Idle
  <2>3. Placed(q) /\ Holds(q)
    BY <2>2 DEF Placed, Holds, AtNode, Dispatching, Aggregating, Settling
  <2>4. request' = [request EXCEPT ![r] = q]
    BY <1>1, <2>1 DEF CreateRun
  <2> QED BY <1>0, <2>2, <2>3, <2>4, OneRequestNow
<1>2. ASSUME NEW r \in Request, Reconcile(r) PROVE RequestsFit
  <2>1. PICK base : base = [Idle EXCEPT !.loop = "complete"]
    OBVIOUS
  <2>2. PICK q : q = Remaining(base, {n \in Node : node[n] = "RUNNING"})
    OBVIOUS
  <2>3. base \in RequestRow /\ base.loop = "complete"
    BY <2>1, IdleFits DEF RequestRow, Idle
  <2>4. q \in RequestRow /\ Placed(q) /\ Holds(q)
    BY <2>2, <2>3, RemainingFits
  <2>5. request' = [request EXCEPT ![r] = q]
    BY <1>2, <2>1, <2>2 DEF Reconcile
  <2> QED BY <1>0, <2>4, <2>5, OneRequestNow
<1>3. ASSUME NEW r \in Request, ReadReady(r) PROVE RequestsFit
  <2>1. PICK q : q = Remaining(request[r], Ready)
    OBVIOUS
  <2>2. request[r] \in RequestRow /\ request[r].loop \in {"launch", "dispatch"}
    BY <1>3, TypeParts DEF WInv, Requests, Placed, ReadReady, At
  <2>3. Ready \in SUBSET Node /\ \A n \in Ready : \A d \in Deps[n] : node[d] = "SUCCEEDED"
    BY DEF Ready
  <2>4. q \in RequestRow /\ Placed(q) /\ Holds(q)
    BY <2>1, <2>2, <2>3, RemainingFits
  <2>5. request' = [request EXCEPT ![r] = q]
    BY <1>3, <2>1 DEF ReadReady
  <2> QED BY <1>0, <2>4, <2>5, OneRequestNow
<1>4. ASSUME NEW r \in Request, Launched(r) PROVE RequestsFit
  BY <1>0, <1>4, MoveFits DEF Launched
<1>5. CASE Restart
  <2>1. PICK q : q = Idle
    OBVIOUS
  <2>2. q \in RequestRow /\ Placed(q) /\ Holds(q)
    BY <2>1, IdleFits
  <2>3. Holds(q)' /\ \A r \in Request : request'[r] = q
    BY <1>0, <1>5, <2>1, <2>2, HoldsStill, WorkflowAssumption DEF Restart
  <2> QED BY <1>5, <2>1, <2>2, <2>3 DEF Restart, Requests, Placed, Holds, SaysTrue
<1>6. CASE \/ StopParent \/ RetryParent
           \/ \E n \in Node, s \in JobEnd \cup {"OPEN", "HUMAN_TAKEOVER"} : JobMoves(n, s)
  BY <1>0, <1>6, AllStay DEF StopParent, RetryParent, JobMoves
<1> QED
  BY <1>0, <1>1, <1>2, <1>3, <1>4, <1>5, <1>6, AggregateFits, DispatchFits, ReconcileFits, SettleFits
  DEF WNext, Step

-----------------------------------------------------------------------------
\* Every way a node or a job changes.
NodeChanges(n) ==
  \/ node'[n] = node[n]
  \/ node'[n] = "RUNNING" /\ job[n] # "NONE"
  \/ node'[n] \in {"SUCCEEDED", "FAILED"} /\ job[n] = node'[n]
  \/ node'[n] = "HUMAN_TAKEOVER"
  \/ /\ node'[n] = "FAILED" /\ node[n] = "PENDING"
     /\ \E d \in Deps[n] : node[d] \in {"FAILED", "HUMAN_TAKEOVER"}

JobChanges(n) ==
  \/ job'[n] = "NONE" /\ job[n] = "NONE"
  \/ job[n] # "NONE"
  \/ \A d \in Deps[n] : node[d] = "SUCCEEDED"

LEMMA RowChanges ==
  ASSUME WInv, WNext, NEW n \in Node
  PROVE  NodeChanges(n) /\ JobChanges(n)
<1>0. Rows /\ Requests /\ Deps[n] \subseteq Node
  BY TypeParts, WorkflowAssumption DEF WInv
<1> USE DEF NodeChanges, JobChanges
<1>1. CASE UNCHANGED <<node, job>>
  BY <1>1
<1>2. ASSUME NEW r \in Request, CreateJob(r) PROVE NodeChanges(n) /\ JobChanges(n)
  <2>1. Current(r) \in request[r].todo /\ request[r].loop \in {"launch", "dispatch"}
    BY <1>0, <1>2, CurrentNode DEF CreateJob, At, AtNode, Dispatching, Requests, Placed
  <2>2. \A d \in Deps[Current(r)] : node[d] = "SUCCEEDED"
    BY <1>0, <2>1 DEF Requests, Holds
  <2> QED BY <1>0, <1>2, <2>2 DEF CreateJob, Rows
<1>3. ASSUME NEW r \in Request, StartNode(r) PROVE NodeChanges(n) /\ JobChanges(n)
  <2>1. job[Current(r)] # "NONE"
    BY <1>0, <1>3, CurrentNode DEF StartNode, At, AtNode, Dispatching, Requests, Holds
  <2> QED BY <1>0, <1>3, <2>1 DEF StartNode, Rows
<1>4. ASSUME NEW r \in Request, Complete(r) PROVE NodeChanges(n) /\ JobChanges(n)
  <2>1. /\ request[r].status \in TERMINAL
        /\ request[r].status \in JobEnd => job[Current(r)] = request[r].status
    BY <1>0, <1>4, CurrentNode DEF Complete, At, AtNode, Requests, Placed, Holds
  <2> QED BY <1>0, <1>4, <2>1 DEF Complete, CompleteNode, Rows, TERMINAL, JobEnd
<1>5. ASSUME NEW r \in Request, AggregateBlock(r) PROVE NodeChanges(n) /\ JobChanges(n)
  <2>1. \A k \in Node : request[r].seen[k] \in TERMINAL => node[k] = request[r].seen[k]
    BY <1>0, <1>5 DEF AggregateBlock, At, Requests, Holds
  <2>2. n \in Blocked(request[r].seen) => \E d \in Deps[n] : node[d] \in {"FAILED", "HUMAN_TAKEOVER"}
    BY <1>0, <2>1 DEF Blocked, TERMINAL
  <2> QED BY <1>0, <1>5, <2>2 DEF AggregateBlock, Rows
<1>6. ASSUME NEW k \in Node, NEW s \in JobEnd \cup {"OPEN", "HUMAN_TAKEOVER"}, JobMoves(k, s)
      PROVE  NodeChanges(n) /\ JobChanges(n)
  BY <1>0, <1>6 DEF JobMoves, Rows
<1>7. ASSUME NEW r \in Request,
             \/ CreateRun(r) \/ Reconcile(r) \/ AggregateRead(r) \/ AggregateReread(r)
             \/ AggregateWrite(r) \/ ReadReady(r) \/ Child(r) \/ DispatchRead(r) \/ ReadJob(r) \/ GetRun(r) \/ Finish(r)
      PROVE  UNCHANGED <<node, job>>
  BY <1>7 DEF CreateRun, Reconcile, AggregateRead, AggregateReread, AggregateWrite, ReadReady, Child, DispatchRead,
              ReadJob, GetRun, Finish
<1>8. ASSUME NEW r \in Request,
             \/ Launched(r) \/ Plan(r) \/ DispatchQueue(r) \/ Assign(r) \/ Execute(r)
             \/ Verify(r) \/ Succeed(r) \/ TakeOver(r)
      PROVE  UNCHANGED <<node, job>>
  BY <1>8 DEF Launched, Plan, DispatchQueue, Assign, Execute, Verify, Succeed, TakeOver, MoveParent, Move
<1>9. CASE StopParent \/ RetryParent \/ Restart
  BY <1>9 DEF StopParent, RetryParent, Restart
<1> QED BY <1>1, <1>2, <1>3, <1>4, <1>5, <1>6, <1>7, <1>8, <1>9 DEF WNext, Step

LEMMA OrderStep ==
  ASSUME WInv, WNext
  PROVE  NodesInOrder' /\ NodesAreTrue'
<1>0. Rows /\ NodesInOrder /\ NodesAreTrue /\ NodesKept /\ JobsKept /\ \A n \in Node : Deps[n] \subseteq Node
  BY TypeParts, RowsStep, WorkflowAssumption DEF WInv
<1>1. ASSUME NEW n \in Node
      PROVE  /\ job'[n] # "NONE" => \A d \in Deps[n] : node'[d] = "SUCCEEDED"
             /\ node'[n] = "RUNNING" => job'[n] # "NONE"
  <2>1. job'[n] # "NONE" => \A d \in Deps[n] : node[d] = "SUCCEEDED"
    BY <1>0, RowChanges DEF JobChanges, NodesInOrder
  <2>2. \A d \in Deps[n] : node[d] = "SUCCEEDED" => node'[d] = "SUCCEEDED"
    BY <1>0 DEF NodesKept, TERMINAL
  <2>3. node'[n] = "RUNNING" => job[n] # "NONE"
    BY <1>0, RowChanges DEF NodeChanges, NodesInOrder
  <2> QED BY <1>0, <2>1, <2>2, <2>3 DEF JobsKept
<1>2. ASSUME NEW n \in Node
      PROVE  /\ node'[n] = "SUCCEEDED" => job'[n] = "SUCCEEDED"
             /\ node'[n] = "FAILED" =>
                  \/ job'[n] = "FAILED"
                  \/ job'[n] = "NONE" /\ \E d \in Deps[n] : node'[d] \in {"FAILED", "HUMAN_TAKEOVER"}
  <2>1. node'[n] = "SUCCEEDED" => job[n] = "SUCCEEDED"
    BY <1>0, RowChanges DEF NodeChanges, NodesAreTrue
  <2>2. node'[n] = "FAILED" =>
          job[n] = "FAILED" \/ \E d \in Deps[n] : node[d] \in {"FAILED", "HUMAN_TAKEOVER"}
    BY <1>0, RowChanges DEF NodeChanges, NodesAreTrue
  <2>3. ASSUME NEW d \in Deps[n], node[d] \in {"FAILED", "HUMAN_TAKEOVER"}
        PROVE  job'[n] = "NONE" /\ node'[d] \in {"FAILED", "HUMAN_TAKEOVER"}
    BY <1>0, <1>1, <2>3 DEF NodesKept, TERMINAL
  <2> QED BY <1>0, <2>1, <2>2, <2>3 DEF JobsKept, JobEnd
<1> QED BY <1>1, <1>2 DEF NodesInOrder, NodesAreTrue

\* The row of the run, and the time before it is there.
LEMMA RunStep ==
  ASSUME WInv, WNext
  PROVE  SaysTrue(run)' /\ Begun'
<1>0. Rows /\ Requests /\ NodesKept /\ SaysTrue(run)
  BY TypeParts, RowsStep DEF WInv
<1>1. CASE UNCHANGED run
  <2>1. PICK status : status = run
    OBVIOUS
  <2>2. SaysTrue(status)'
    BY <1>0, <2>1, SaysTrueStill
  <2>3. SaysTrue(run)'
    BY <1>1, <2>1, <2>2 DEF SaysTrue
  <2>4. ASSUME run = "NONE" PROVE /\ \A r \in Request : request'[r].pc = "idle"
                                  /\ <<Parent, <<"QUEUED", 2>>>> \notin taskEvents'
    <3>1. /\ \A r \in Request : request[r].pc = "idle"
          /\ <<Parent, <<"QUEUED", 2>>>> \notin taskEvents
      BY <2>4 DEF WInv, Begun
    <3>2. ASSUME NEW r \in Request PROVE ~CreateRun(r) /\ ~Reconcile(r) /\ ~Step(r)
      <4>1. ~CreateRun(r)
        BY <1>1, <2>4 DEF CreateRun
      <4>2. ~Reconcile(r)
        BY <3>1 DEF Reconcile
      <4>3. ~Step(r)
        BY <3>1 DEF Step, At, AggregateRead, AggregateBlock, AggregateReread, AggregateWrite, Launched, ReadReady,
                    Child, Plan, DispatchRead, DispatchQueue, CreateJob, StartNode, ReadJob, Complete,
                    GetRun, Finish, Assign, Execute, Verify, Succeed, TakeOver
      <4> QED BY <4>1, <4>2, <4>3
    <3>3. CASE StopParent
      <4> DEFINE event == <<Parent, <<"QUEUED", 2>>>>
                 stop == <<Parent, <<"stop", taskVersion[Parent]>>>>
      <4>1. event # stop
        OBVIOUS
      <4>2. taskEvents' = taskEvents \cup {stop} /\ UNCHANGED request
        BY <3>3 DEF StopParent, Transition
      <4> QED BY <3>1, <4>1, <4>2
    <3>4. CASE RetryParent
      <4> DEFINE event == <<Parent, <<"QUEUED", 2>>>>
                 retry == <<Parent, <<"retry", taskVersion[Parent]>>>>
      <4>1. event # retry
        OBVIOUS
      <4>2. taskEvents' = taskEvents \cup {retry} /\ UNCHANGED request
        BY <3>4 DEF RetryParent, Transition
      <4> QED BY <3>1, <4>1, <4>2
    <3>5. CASE Restart
      BY <3>1, <3>5 DEF Restart, Idle, tables
    <3>6. CASE \E n \in Node, s \in JobEnd \cup {"OPEN", "HUMAN_TAKEOVER"} : JobMoves(n, s)
      BY <3>1, <3>6 DEF JobMoves, tables
    <3> QED BY <3>2, <3>3, <3>4, <3>5, <3>6 DEF WNext
  <2> QED BY <1>1, <2>3, <2>4 DEF Begun
<1>2. ASSUME NEW r \in Request, CreateRun(r) PROVE run' = "RUNNING"
  BY <1>2 DEF CreateRun
<1>3. ASSUME NEW r \in Request, AggregateWrite(r) PROVE run' # "NONE" /\ SaysTrue(run)'
  <2> DEFINE seen == request[r].seen
  <2>1. seen \in [Node -> NodeStatus] /\ \A n \in Node : seen[n] \in TERMINAL => node[n] = seen[n]
    BY <1>0, <1>3 DEF AggregateWrite, At, Requests, Placed, Holds
  <2>2. run' = Aggregate(seen) /\ node' = node
    BY <1>3 DEF AggregateWrite
  <2> HIDE DEF seen
  <2>3. /\ Aggregate(seen) \in {"FAILED", "PARTIAL_SUCCESS", "HUMAN_TAKEOVER", "SUCCEEDED", "RUNNING"}
        /\ Aggregate(seen) = "SUCCEEDED" => \A n \in Node : seen[n] = "SUCCEEDED"
        /\ Aggregate(seen) \in {"FAILED", "PARTIAL_SUCCESS", "HUMAN_TAKEOVER"} =>
             \E n \in Node : seen[n] \in {"FAILED", "HUMAN_TAKEOVER"}
    <3> DEFINE person == \E n \in Node : seen[n] = "HUMAN_TAKEOVER"
               success == \A n \in Node : seen[n] = "SUCCEEDED"
               mixed == \A n \in Node : seen[n] \in {"SUCCEEDED", "FAILED"} /\ \E k \in Node : seen[k] = "FAILED"
               partial == \E n \in Node : seen[n] = "SUCCEEDED"
    <3>1. Aggregate(seen) = CASE person -> "HUMAN_TAKEOVER" [] success -> "SUCCEEDED"
                              [] mixed -> IF partial THEN "PARTIAL_SUCCESS" ELSE "FAILED"
                              [] OTHER -> "RUNNING"
      BY DEF Aggregate
    <3>2. person => \E n \in Node : seen[n] \in {"FAILED", "HUMAN_TAKEOVER"}
      OBVIOUS
    <3>3. mixed => \E n \in Node : seen[n] \in {"FAILED", "HUMAN_TAKEOVER"}
      <4>1. 1 \in Node
        BY WorkflowAssumption DEF Node
      <4> QED BY <4>1
    <3>4. ~(person /\ success) /\ ~(person /\ mixed) /\ ~(success /\ mixed)
      <4>1. 1 \in Node
        BY WorkflowAssumption DEF Node
      <4> QED BY <4>1
    <3> HIDE DEF person, success, mixed, partial
    <3>5. \/ person /\ Aggregate(seen) = "HUMAN_TAKEOVER"
          \/ success /\ Aggregate(seen) = "SUCCEEDED"
          \/ mixed /\ Aggregate(seen) \in {"PARTIAL_SUCCESS", "FAILED"}
          \/ Aggregate(seen) = "RUNNING"
      BY <3>1, <3>4
    <3>6. success => \A n \in Node : seen[n] = "SUCCEEDED"
      BY DEF success
    <3> QED BY <3>2, <3>3, <3>5, <3>6
  <2> QED BY <2>1, <2>2, <2>3 DEF SaysTrue, TERMINAL
<1>4. ASSUME NEW r \in Request,
             \/ Reconcile(r) \/ AggregateRead(r) \/ AggregateBlock(r) \/ AggregateReread(r)
             \/ ReadReady(r) \/ Child(r) \/ DispatchRead(r) \/ CreateJob(r) \/ StartNode(r) \/ ReadJob(r) \/ Complete(r)
             \/ GetRun(r) \/ Finish(r)
      PROVE  UNCHANGED run
  BY <1>4 DEF Reconcile, AggregateRead, AggregateBlock, AggregateReread, ReadReady, Child, DispatchRead, CreateJob,
              StartNode, ReadJob, Complete, GetRun, Finish
<1>5. ASSUME NEW r \in Request,
             \/ Launched(r) \/ Plan(r) \/ DispatchQueue(r) \/ Assign(r) \/ Execute(r)
             \/ Verify(r) \/ Succeed(r) \/ TakeOver(r)
      PROVE  UNCHANGED run
  BY <1>5 DEF Launched, Plan, DispatchQueue, Assign, Execute, Verify, Succeed, TakeOver, MoveParent, Move
<1>6. ASSUME \/ StopParent \/ RetryParent \/ Restart
             \/ \E n \in Node, s \in JobEnd \cup {"OPEN", "HUMAN_TAKEOVER"} : JobMoves(n, s)
      PROVE  UNCHANGED run
  BY <1>6 DEF StopParent, RetryParent, Restart, JobMoves
<1>7. run' = "RUNNING" => SaysTrue(run)' /\ Begun'
  BY DEF SaysTrue, Begun
<1> QED BY <1>1, <1>2, <1>3, <1>4, <1>5, <1>6, <1>7 DEF WNext, Step, Begun

LEMMA ParentStep ==
  ASSUME WInv, WNext
  PROVE  ParentIsTrue'
<1>0. /\ NodesKept /\ JobsKept /\ Requests /\ ParentIsTrue /\ NodesAreTrue /\ ParentMoves
      /\ Tables /\ Parent \in Node \cup {Parent}
  BY RowsStep, TablesStep, TypeParts DEF WInv
<1>1. ASSUME taskState'[Parent] \in {"VERIFYING", "SUCCEEDED"}
      PROVE  \A n \in Node : job[n] = "SUCCEEDED"
  <2>1. CASE taskState'[Parent] = taskState[Parent]
    BY <1>0, <1>1, <2>1 DEF ParentIsTrue
  <2>2. ASSUME NEW r \in Request, request[r].pc \in {"verify", "succeed"}
        PROVE  \A n \in Node : node[n] = "SUCCEEDED"
    BY <1>0, <2>2 DEF Requests, Placed, Holds, Settling, SaysTrue
  <2> QED BY <1>0, <1>1, <2>1, <2>2 DEF ParentMoves, NodesAreTrue
<1>2. ASSUME taskState'[Parent] = "HUMAN_TAKEOVER"
      PROVE  \E n \in Node : node[n] \in {"FAILED", "HUMAN_TAKEOVER"}
  <2>1. CASE taskState'[Parent] = taskState[Parent]
    BY <1>0, <1>2, <2>1 DEF ParentIsTrue
  <2>2. ASSUME NEW r \in Request, request[r].pc = "takeover"
        PROVE  \E n \in Node : node[n] \in {"FAILED", "HUMAN_TAKEOVER"}
    <3>1. request[r].status \in RunStatus \ {"NONE", "RUNNING", "SUCCEEDED"} /\ SaysTrue(request[r].status)
      BY <1>0, <2>2, TypeParts DEF WInv, Requests, Placed, Holds, Settling, RequestRow
    <3> QED BY <3>1 DEF SaysTrue, RunStatus, TERMINAL
  <2> QED BY <1>0, <1>2, <2>1, <2>2 DEF ParentMoves
<1>3. taskState'[Parent] \in {"VERIFYING", "SUCCEEDED"} => \A n \in Node : job'[n] = "SUCCEEDED"
  BY <1>0, <1>1 DEF JobsKept, JobEnd
<1>4. taskState'[Parent] = "HUMAN_TAKEOVER" => \E n \in Node : node'[n] \in {"FAILED", "HUMAN_TAKEOVER"}
  BY <1>0, <1>2 DEF NodesKept, TERMINAL
<1> QED BY <1>3, <1>4 DEF ParentIsTrue

-----------------------------------------------------------------------------
LEMMA WInitInv == WInit => WInv
<1> SUFFICES ASSUME WInit PROVE WInv
  OBVIOUS
<1>1. Tables /\ Rows
  BY StatusValues DEF WInit, Tables, Rows, RunStatus, NodeStatus
<1>2. request \in [Request -> RequestRow] /\ \A r \in Request : request[r] = Idle
  BY IdleFits DEF WInit
<1>3. Requests /\ Begun
  BY <1>2, IdleFits DEF Requests, Begun, WInit, Idle
<1>4. NodesInOrder /\ NodesAreTrue /\ SaysTrue(run)
  BY DEF WInit, NodesInOrder, NodesAreTrue, SaysTrue
<1>5. ParentIsTrue
  <2>1. taskState[Parent] = "PLANNING"
    BY DEF WInit
  <2> QED BY <2>1 DEF ParentIsTrue
<1> QED BY <1>1, <1>2, <1>3, <1>4, <1>5, TypeParts DEF WInv

LEMMA WStepInv == WInv /\ [WNext]_vars => WInv'
<1>1. ASSUME WInv, WNext PROVE WInv'
  <2>1. Tables' /\ Rows' /\ RequestsFit
    BY <1>1, TablesStep, RowsStep, RequestsStep
  <2>2. WTypeOK'
    BY <2>1, TypeParts DEF RequestsFit, WTypeOK, Tables, Rows, RequestRow
  <2> QED BY <1>1, <2>1, <2>2, OrderStep, RunStep, ParentStep DEF WInv, RequestsFit
<1>2. ASSUME WInv, UNCHANGED vars PROVE WInv'
  BY <1>2 DEF vars, tables, WInv, WTypeOK, Requests, Placed, Holds, SaysTrue, NodesInOrder,
              NodesAreTrue, ParentIsTrue, Begun, First
<1> QED BY <1>1, <1>2

LEMMA WInvariant == WSpec => []WInv
BY WInitInv, WStepInv, PTL DEF WSpec

\* The rows of a workflow run and what its requests have read stay well typed.
THEOREM WTypeCorrect == WSpec => []WTypeOK
BY WInvariant, PTL DEF WInv

\* No node is dispatched before all it depends on succeeded, for any acyclic graph and
\* however many requests reconcile the run at once.
THEOREM OrderKept == WSpec => []NodesInOrder
BY WInvariant, PTL DEF WInv

\* A node tells the end of its job, or that it never had one.
THEOREM NodesTruthful == WSpec => []NodesAreTrue
BY WInvariant, PTL DEF WInv

\* The parent task succeeds only over succeeded jobs and is handed to a person only over a
\* node that did not, whatever status of the run its request had read.
THEOREM ParentTruthful == WSpec => []ParentIsTrue
BY WInvariant, PTL DEF WInv

\* Behind a succeeded or failed node nothing moves any more.
LEMMA EndedStays ==
  ASSUME WInv, WNext, NEW n \in Node, node[n] \in {"SUCCEEDED", "FAILED"}
  PROVE  job'[n] = job[n]
<1>0. NodesKept /\ JobsKept /\ NodesInOrder' /\ NodesAreTrue /\ Deps[n] \subseteq Node
  BY RowsStep, OrderStep, WorkflowAssumption DEF WInv
<1>1. CASE job[n] \in JobEnd
  BY <1>0, <1>1 DEF JobsKept
<1>2. CASE job[n] \notin JobEnd
  <2>1. /\ job[n] = "NONE"
        /\ \E d \in Deps[n] : node[d] \in {"FAILED", "HUMAN_TAKEOVER"}
    BY <1>0, <1>2 DEF NodesAreTrue, JobEnd
  <2>2. \E d \in Deps[n] : node'[d] \in {"FAILED", "HUMAN_TAKEOVER"}
    BY <1>0, <2>1 DEF NodesKept, TERMINAL
  <2> QED BY <1>0, <2>1, <2>2 DEF NodesInOrder
<1> QED BY <1>1, <1>2

\* A node that came to an end keeps it; the job of a succeeded or failed one does not move
\* any more, and one that failed without a job gets none.
THEOREM NodesKeepEnds == WSpec => NodesStay
<1>1. WInv /\ [WNext]_vars =>
        [\A n \in Node :
           /\ node[n] \in TERMINAL => node'[n] = node[n]
           /\ node[n] \in {"SUCCEEDED", "FAILED"} => job'[n] = job[n]]_vars
  BY RowsStep, EndedStays DEF NodesKept
<1> QED BY <1>1, WInvariant, PTL DEF WSpec, NodesStay
=============================================================================
