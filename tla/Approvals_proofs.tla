-------------------------- MODULE Approvals_proofs --------------------------
(***************************************************************************)
(* Proofs about dispatch and approvals, for any number of requests, tasks, *)
(* workflows and approvals, any expiry and any length of time.             *)
(***************************************************************************)
EXTENDS Approvals, TLAPS

RequestRow ==
  [pc : PC, task : Task \cup {None}, workflow : Workflow \cup {None}, version : Nat,
   approval : Approval \cup {None}, approved : BOOLEAN, at : Time]

\* The steps at which a request is about an approval.
Named == {"keep", "wait", "decide", "read", "reject", "cancel", "authorize", "release", "complete"}

\* An approval's row: it was granted in time and has been used.
Spent(row) == row.status = "APPROVED" /\ row.decided <= row.expires /\ row.used # Null

\* The request has used an approval and not yet created the job it is for.
Holds(q) == q.pc \in {"release", "create"} /\ q.approval # None

\* The task went into its queue for this approval, or for this workflow when it needs none.
Noted(q, keys) ==
  <<q.task, IF q.approval = None THEN <<"queued", q.workflow>>
            ELSE <<"approved", q.approval>>>> \in keys

\* What a handler has read and done fits where it stands, given the rows of approvals, the
\* jobs and the keys of task_events.
Fits(q, rows, jobs, keys) ==
  /\ q.pc # "idle" => q.task \in Task /\ q.workflow \in Workflow
  /\ q.pc \in Named => q.approval \in Approval
  /\ q.approval # None =>
       /\ rows[q.approval].status # "NONE"
       /\ rows[q.approval].task = q.task
       /\ rows[q.approval].workflow = q.workflow
  /\ q.pc \in {"takeover", "ask", "queue"} => q.approval = None
  /\ q.pc = "ask" => Risk[q.workflow] = "APPROVAL_REQUIRED"
  /\ q.pc = "queue" \/ (q.pc = "create" /\ q.approval = None) => Risk[q.workflow] = "LOW"
  /\ Holds(q) => Spent(rows[q.approval])
  /\ q.pc = "create" => Noted(q, keys)
  /\ q.pc \in {"reject", "cancel"} => rows[q.approval].status = "REJECTED"
  /\ q.pc = "read" => rows[q.approval].status = IF q.approved THEN "APPROVED" ELSE "REJECTED"
  /\ q.pc = "complete" => \E j \in jobs : j.by = q.approval

RequestsFit == \A r \in Request : Fits(request[r], approval, job, taskEvents)

\* The rows of approvals and pending_dispatches fit each other and the policy.
RowFits(row, status) ==
  /\ row.status # "NONE" =>
       row.task \in Task /\ row.workflow \in Workflow /\ Risk[row.workflow] = "APPROVAL_REQUIRED"
  /\ row.status = "APPROVED" => row.decided <= row.expires
  /\ row.used # Null => row.status = "APPROVED"
  /\ status # "NONE" => row.status # "NONE"

RowsFit == \A a \in Approval : RowFits(approval[a], pending[a])

\* At most one request holds a used approval, and no job has come of it yet.
SpentOnce ==
  \A r \in Request : Holds(request[r]) =>
    /\ \A q \in Request : Holds(request[q]) /\ request[q].approval = request[r].approval => q = r
    /\ \A j \in job : j.by # request[r].approval

AInv ==
  /\ ATypeOK /\ RequestsFit /\ RowsFit /\ SpentOnce
  /\ OnlyCleared /\ PendingIsTrue /\ DispatchedThroughTask

-----------------------------------------------------------------------------
LEMMA TaskStateValues ==
  TaskState = {"RECEIVED", "PLANNING", "WAITING_APPROVAL", "QUEUED", "ASSIGNED", "EXECUTING",
               "VERIFYING", "RETRY_WAIT", "HUMAN_TAKEOVER", "SUCCEEDED", "FAILED", "CANCELLED"}
BY DEF TaskState, Successors

Tables == /\ taskState \in [Task -> TaskState \cup {"NONE"}]
          /\ taskVersion \in [Task -> Nat]

LEMMA TransitionType ==
  ASSUME Tables, NEW t \in Task, NEW version, NEW key, NEW target \in TaskState,
         Transition(t, version, target, key)
  PROVE  Tables' /\ taskEvents \subseteq taskEvents' /\ <<t, key>> \in taskEvents'
BY DEF Tables, Transition

LEMMA InitInv == AInit => AInv
<1> SUFFICES ASSUME AInit PROVE AInv
  OBVIOUS
<1>1. ATypeOK
  BY TaskStateValues, ApprovalsAssumption
     DEF AInit, ATypeOK, Unasked, Idle, ApprovalRow, PC, Time, Null
<1>2. RequestsFit /\ SpentOnce
  BY DEF AInit, RequestsFit, SpentOnce, Fits, Holds, Idle, Named
<1>3. RowsFit /\ OnlyCleared /\ PendingIsTrue /\ DispatchedThroughTask
  BY DEF AInit, RowsFit, RowFits, OnlyCleared, PendingIsTrue, DispatchedThroughTask, Unasked
<1> QED BY <1>1, <1>2, <1>3 DEF AInv

-----------------------------------------------------------------------------
(***************************************************************************)
(* What a step of one request does to the others.                          *)
(***************************************************************************)
\* A row only goes on: a decision stands, a use stands.
RowGoesOn(row, next) ==
  row.status # "NONE" =>
    /\ next.status # "NONE" /\ next.task = row.task /\ next.workflow = row.workflow
    /\ next.expires = row.expires
    /\ row.status # "PENDING" => next.status = row.status /\ next.decided = row.decided
    /\ row.used # Null => next.used = row.used

Kept(rows, rows2, jobs, jobs2, keys, keys2) ==
  /\ \A a \in Approval : RowGoesOn(rows[a], rows2[a])
  /\ jobs \subseteq jobs2
  /\ keys \subseteq keys2

LEMMA FitsOn ==
  ASSUME NEW rows, NEW rows2, NEW jobs, NEW jobs2, NEW keys, NEW keys2,
         Kept(rows, rows2, jobs, jobs2, keys, keys2),
         NEW q \in RequestRow, Fits(q, rows, jobs, keys)
  PROVE  Fits(q, rows2, jobs2, keys2)
<1>1. q.approval # None => q.approval \in Approval /\ RowGoesOn(rows[q.approval], rows2[q.approval])
  BY DEF RequestRow, Kept
<1>2. Noted(q, keys) => Noted(q, keys2)
  BY DEF Kept, Noted
<1>3. Holds(q) => Spent(rows2[q.approval])
  BY <1>1 DEF RowGoesOn, Fits, Holds, Spent
<1>4. q.pc = "complete" => \E j \in jobs2 : j.by = q.approval
  BY DEF Kept, Fits
<1>5. q.pc \in Named => q.approval \in Approval /\ q.approval # None
  BY ApprovalsAssumption DEF Fits
<1>6. /\ q.pc \in {"reject", "cancel"} => rows2[q.approval].status = "REJECTED"
      /\ q.pc = "read" => rows2[q.approval].status = IF q.approved THEN "APPROVED" ELSE "REJECTED"
  BY <1>1, <1>5 DEF RowGoesOn, Fits, Named
<1> QED BY <1>1, <1>2, <1>3, <1>4, <1>6 DEF Fits, RowGoesOn

\* One request has moved to q; the others stand where they did.
LEMMA AllFit ==
  ASSUME ATypeOK, RequestsFit, Kept(approval, approval', job, job', taskEvents, taskEvents'),
         NEW r \in Request, NEW q, request' = [request EXCEPT ![r] = q],
         Fits(q, approval', job', taskEvents')
  PROVE  RequestsFit'
<1> SUFFICES ASSUME NEW k \in Request PROVE Fits(request'[k], approval', job', taskEvents')
  BY DEF RequestsFit
<1>1. request[k] \in RequestRow /\ Fits(request[k], approval, job, taskEvents)
  BY DEF ATypeOK, RequestsFit, RequestRow
<1>2. Fits(request[k], approval', job', taskEvents')
  BY <1>1, FitsOn
<1>3. request'[k] = IF k = r THEN q ELSE request[k]
  BY DEF ATypeOK
<1> QED BY <1>2, <1>3

\* A request goes on, or ends, without touching the approvals or the jobs.
LEMMA GoOn ==
  ASSUME AInv, NEW r \in Request, NEW q \in RequestRow, request' = [request EXCEPT ![r] = q],
         UNCHANGED <<approval, pending, job, now>>, astray' \subseteq Approval,
         Tables', taskEvents \subseteq taskEvents',
         Fits(q, approval, job, taskEvents'),
         Holds(q) => Holds(request[r]) /\ q.approval = request[r].approval
  PROVE  AInv'
<1>1. ATypeOK'
  BY DEF AInv, ATypeOK, Tables, RequestRow, PC, ApprovalRow, Time
<1>2. RequestsFit'
  <2>1. Kept(approval, approval', job, job', taskEvents, taskEvents')
    BY DEF Kept, RowGoesOn
  <2> QED BY <2>1, AllFit DEF AInv
<1>3. SpentOnce'
  <2>1. \A k \in Request : request'[k] = IF k = r THEN q ELSE request[k]
    BY DEF AInv, ATypeOK
  <2> QED BY <2>1 DEF AInv, SpentOnce
<1>4. RowsFit' /\ OnlyCleared' /\ PendingIsTrue'
  BY DEF AInv, RowsFit, OnlyCleared, PendingIsTrue
<1>5. DispatchedThroughTask'
  BY DEF AInv, DispatchedThroughTask
<1> QED BY <1>1, <1>2, <1>3, <1>4, <1>5 DEF AInv

LEMMA IdleRow == Idle \in RequestRow /\ ~Holds(Idle)
BY ApprovalsAssumption DEF Idle, RequestRow, PC, Time, Holds

LEMMA IdleFits == ASSUME NEW rows, NEW jobs, NEW keys PROVE Fits(Idle, rows, jobs, keys)
BY DEF Idle, Fits, Holds, Named

LEMMA FailInv == ASSUME AInv, NEW r \in Request, Fail(r) PROVE AInv'
<1>1. Tables' /\ taskEvents \subseteq taskEvents' /\ astray' \subseteq Approval
  BY DEF AInv, ATypeOK, Fail, taskVars, Tables
<1> QED BY <1>1, GoOn, IdleRow, IdleFits DEF Fail, End

\* A task's transition on the way from pc to next.
LEMMA MoveInv ==
  ASSUME AInv, NEW r \in Request, NEW target \in TaskState, NEW key, NEW next \in PC,
         request[r].pc \in {"takeover", "wait", "queue", "cancel", "release"},
         MoveTask(r, target, key, next),
         next # "idle" =>
           \/ request[r].pc = "queue" /\ next = "create" /\ key = <<"queued", request[r].workflow>>
           \/ request[r].pc = "release" /\ next = "create" /\ key = <<"approved", request[r].approval>>
  PROVE  AInv'
<1> DEFINE q == [request[r] EXCEPT !.pc = next]
<1>0. request[r] \in RequestRow /\ Fits(request[r], approval, job, taskEvents)
  BY DEF AInv, ATypeOK, RequestsFit, RequestRow
<1>1. CASE Refused(request[r].task, request[r].version, target, key) /\ Fail(r)
  BY <1>1, FailInv
<1>2. CASE ~(Refused(request[r].task, request[r].version, target, key) /\ Fail(r))
  <2>1. /\ Tables' /\ taskEvents \subseteq taskEvents' /\ <<request[r].task, key>> \in taskEvents'
        /\ UNCHANGED <<approval, pending, job, now>> /\ astray' \subseteq Approval
        /\ IF next = "idle" THEN End(r) ELSE Goto(r, next)
    <3>1. Tables /\ request[r].task \in Task /\ astray \subseteq Approval
      BY <1>0 DEF AInv, ATypeOK, Tables, Fits
    <3>2. CASE Transition(request[r].task, request[r].version, target, key)
      BY <1>2, <3>1, <3>2, TransitionType DEF MoveTask, Replayed, Transition, Accepted
    <3>3. CASE ~Transition(request[r].task, request[r].version, target, key)
      BY <1>2, <3>1, <3>3 DEF MoveTask, Replayed, taskVars, Tables
    <3> QED BY <3>2, <3>3
  <2>2. CASE next = "idle"
    BY <2>1, <2>2, GoOn, IdleRow, IdleFits DEF End
  <2>3. CASE next # "idle"
    <3>1. request' = [request EXCEPT ![r] = q] /\ q \in RequestRow
      BY <1>0, <2>1, <2>3 DEF Goto, RequestRow, AInv, ATypeOK
    <3>2. Noted(q, taskEvents')
      <4>1. q.task = request[r].task /\ q.workflow = request[r].workflow
            /\ q.approval = request[r].approval
        BY <1>0 DEF RequestRow
      <4>2. CASE request[r].pc = "queue"
        <5>1. q.approval = None /\ key = <<"queued", q.workflow>>
          BY <1>0, <2>3, <4>1, <4>2 DEF Fits
        <5> QED BY <2>1, <4>1, <5>1 DEF Noted
      <4>3. CASE request[r].pc # "queue"
        <5>1. q.approval # None /\ key = <<"approved", q.approval>>
          BY <1>0, <2>3, <4>1, <4>3, ApprovalsAssumption DEF Fits, Named
        <5> QED BY <2>1, <4>1, <5>1 DEF Noted
      <4> QED BY <4>2, <4>3
    <3>3. Fits(q, approval, job, taskEvents')
      <4>1. /\ q.pc = "create" /\ q.task = request[r].task
            /\ q.workflow = request[r].workflow /\ q.approval = request[r].approval
        BY <1>0, <2>3 DEF RequestRow
      <4>2. /\ q.task \in Task /\ q.workflow \in Workflow
            /\ request[r].pc \in {"queue", "release"}
        BY <1>0, <2>3, <4>1 DEF Fits
      <4>3. q.approval = None => Risk[q.workflow] = "LOW"
        BY <1>0, <2>3, <4>1, ApprovalsAssumption DEF Fits, Named
      <4>4. q.approval # None => /\ approval[q.approval].task = q.task
                                 /\ approval[q.approval].workflow = q.workflow
                                 /\ Spent(approval[q.approval])
        BY <1>0, <2>3, <4>1 DEF Fits, Holds
      <4> HIDE DEF q
      <4> QED BY <3>2, <4>1, <4>2, <4>3, <4>4 DEF Fits, Holds, Named, Spent
    <3>4. Holds(q) => Holds(request[r]) /\ q.approval = request[r].approval
      BY <1>0, <2>3 DEF Holds, Fits, RequestRow
    <3> QED BY <2>1, <3>1, <3>3, <3>4, GoOn
  <2> QED BY <2>2, <2>3
<1> QED BY <1>1, <1>2

\* One row of approvals is written.
LEMMA PutRow ==
  ASSUME AInv, NEW r \in Request, NEW q \in RequestRow, NEW a \in Approval, NEW row \in ApprovalRow,
         request' = [request EXCEPT ![r] = q], approval' = [approval EXCEPT ![a] = row],
         UNCHANGED <<taskVars, pending, job, now, astray>>,
         RowGoesOn(approval[a], row), RowFits(row, pending[a]),
         Fits(q, approval', job, taskEvents),
         Holds(q) => q.approval = a /\ approval[a].used = Null
  PROVE  AInv'
<1>0. \A b \in Approval : approval'[b] = IF b = a THEN row ELSE approval[b]
  BY DEF AInv, ATypeOK
<1>1. ATypeOK'
  BY DEF AInv, ATypeOK, RequestRow, taskVars
<1>2. Kept(approval, approval', job, job', taskEvents, taskEvents')
  BY <1>0 DEF Kept, RowGoesOn, taskVars
<1>3. RequestsFit'
  BY <1>2, AllFit DEF AInv, taskVars
<1>4. RowsFit'
  BY <1>0 DEF AInv, RowsFit
<1>5. OnlyCleared'
  <2> SUFFICES ASSUME NEW j \in job
               PROVE  /\ Risk[j.workflow] = "LOW" <=> j.by = None
                      /\ j.by # None =>
                           /\ Spent(approval'[j.by])
                           /\ approval'[j.by].task = j.task /\ approval'[j.by].workflow = j.workflow
    BY DEF OnlyCleared, Spent
  <2>1. /\ Risk[j.workflow] = "LOW" <=> j.by = None
        /\ j.by # None =>
             /\ Spent(approval[j.by])
             /\ approval[j.by].task = j.task /\ approval[j.by].workflow = j.workflow
    BY DEF AInv, OnlyCleared, Spent
  <2>2. j.by # None => j.by \in Approval /\ RowGoesOn(approval[j.by], approval'[j.by])
    BY <1>2 DEF AInv, ATypeOK, Kept
  <2> QED BY <2>1, <2>2 DEF RowGoesOn, Spent
<1>6. PendingIsTrue'
  BY <1>2 DEF AInv, PendingIsTrue, Kept, RowGoesOn
<1>7. SpentOnce'
  <2>1. \A k \in Request : request'[k] = IF k = r THEN q ELSE request[k]
    BY DEF AInv, ATypeOK
  <2>2. Holds(q) => \A k \in Request : Holds(request[k]) => request[k].approval # a
    BY DEF AInv, RequestsFit, Fits, Spent
  <2>3. Holds(q) => \A j \in job : j.by # a
    BY ApprovalsAssumption DEF AInv, OnlyCleared
  <2> QED BY <2>1, <2>2, <2>3 DEF AInv, SpentOnce
<1>8. DispatchedThroughTask'
  BY DEF AInv, DispatchedThroughTask, taskVars
<1> QED BY <1>1, <1>3, <1>4, <1>5, <1>6, <1>7, <1>8 DEF AInv

\* One row of pending_dispatches is written.
LEMMA PutPending ==
  ASSUME AInv, NEW r \in Request, NEW q \in RequestRow, NEW a \in Approval,
         NEW status \in {"PENDING", "DISPATCHED", "REJECTED"},
         request' = [request EXCEPT ![r] = q], pending' = [pending EXCEPT ![a] = status],
         UNCHANGED <<taskVars, approval, job, now, astray>>,
         approval[a].status # "NONE",
         status = "DISPATCHED" => \E j \in job : j.by = a,
         status = "REJECTED" => approval[a].status = "REJECTED",
         Fits(q, approval, job, taskEvents), ~Holds(q)
  PROVE  AInv'
<1>1. ATypeOK'
  BY DEF AInv, ATypeOK, RequestRow, taskVars
<1>2. RequestsFit'
  <2>1. Kept(approval, approval', job, job', taskEvents, taskEvents')
    BY DEF Kept, RowGoesOn, taskVars
  <2> QED BY <2>1, AllFit DEF AInv, taskVars
<1>3. \A b \in Approval : pending'[b] = IF b = a THEN status ELSE pending[b]
  BY DEF AInv, ATypeOK
<1>4. RowsFit'
  BY <1>3 DEF AInv, RowsFit, RowFits
<1>5. approval[a].status = "REJECTED" => \A j \in job : j.by # a
  BY ApprovalsAssumption DEF AInv, OnlyCleared
<1>6. PendingIsTrue'
  BY <1>3, <1>5 DEF AInv, PendingIsTrue
<1>7. SpentOnce'
  <2>1. \A k \in Request : request'[k] = IF k = r THEN q ELSE request[k]
    BY DEF AInv, ATypeOK
  <2> QED BY <2>1 DEF AInv, SpentOnce
<1>8. OnlyCleared' /\ DispatchedThroughTask'
  BY DEF AInv, OnlyCleared, DispatchedThroughTask, taskVars
<1> QED BY <1>1, <1>2, <1>4, <1>6, <1>7, <1>8 DEF AInv

-----------------------------------------------------------------------------
(***************************************************************************)
(* The actions.                                                            *)
(***************************************************************************)
LEMMA RequestHere ==
  ASSUME AInv, NEW r \in Request
  PROVE  request[r] \in RequestRow /\ Fits(request[r], approval, job, taskEvents)
BY DEF AInv, ATypeOK, RequestsFit, RequestRow

LEMMA TablesStand == ASSUME AInv, UNCHANGED taskVars PROVE Tables' /\ taskEvents \subseteq taskEvents'
BY DEF AInv, ATypeOK, Tables, taskVars

LEMMA DispatchReadInv ==
  ASSUME AInv, NEW r \in Request, NEW t \in Task, NEW w \in Workflow, DispatchRead(r, t, w)
  PROVE  AInv'
<1> DEFINE q == [Idle EXCEPT !.pc = Course(w), !.task = t, !.workflow = w,
                             !.version = taskVersion[t], !.at = now]
<1>1. Course(w) = IF Risk[w] = "HUMAN_ONLY" THEN "takeover"
                  ELSE IF Risk[w] = "APPROVAL_REQUIRED" THEN "ask" ELSE "queue"
  BY ApprovalsAssumption DEF Course
<1>2. q \in RequestRow /\ request' = [request EXCEPT ![r] = q]
  BY <1>1 DEF DispatchRead, RequestRow, Idle, PC, AInv, ATypeOK
<1>3. Fits(q, approval, job, taskEvents) /\ ~Holds(q)
  BY <1>1, ApprovalsAssumption DEF Fits, Holds, Idle, Named
<1>4. UNCHANGED <<taskVars, approval, pending, job, now, astray>>
  BY DEF DispatchRead
<1>5. taskEvents' = taskEvents /\ astray' \subseteq Approval
  BY <1>4 DEF taskVars, AInv, ATypeOK
<1> HIDE DEF q
<1> QED BY <1>2, <1>3, <1>4, <1>5, TablesStand, GoOn

LEMMA CreateApprovalInv ==
  ASSUME AInv, NEW r \in Request, NEW a \in Approval, CreateApproval(r, a)
  PROVE  AInv'
<1> DEFINE q == [request[r] EXCEPT !.pc = "keep", !.approval = a]
           row == [Unasked EXCEPT !.status = "PENDING", !.task = request[r].task,
                                  !.workflow = request[r].workflow,
                                  !.expires = request[r].at + ApprovalTTL]
<1>0. request[r] \in RequestRow /\ Fits(request[r], approval, job, taskEvents)
  BY RequestHere
<1>1. /\ request[r].pc = "ask" /\ approval[a] = Unasked
      /\ UNCHANGED <<taskVars, pending, job, now, astray>>
  BY DEF CreateApproval, At
<1>2. request' = [request EXCEPT ![r] = q] /\ approval' = [approval EXCEPT ![a] = row]
  BY <1>0 DEF CreateApproval, RequestRow, AInv, ATypeOK
<1>3. q \in RequestRow
  BY <1>0 DEF RequestRow, PC
<1>4. row \in ApprovalRow
  <2>1. /\ request[r].task \in Task \cup {None} /\ request[r].workflow \in Workflow \cup {None}
        /\ request[r].at + ApprovalTTL \in Int
    BY <1>0, ApprovalsAssumption DEF RequestRow, Time
  <2> QED BY <2>1 DEF ApprovalRow, Unasked
<1>5. RowGoesOn(approval[a], row)
  BY <1>1 DEF RowGoesOn, Unasked
<1>6. RowFits(row, pending[a])
  BY <1>0, <1>1 DEF RowFits, Unasked, Fits
<1>7. Fits(q, approval', job, taskEvents) /\ ~Holds(q)
  <2>1. approval'[a] = row
    BY <1>2 DEF AInv, ATypeOK
  <2>2. q.pc = "keep" /\ q.approval = a /\ q.task = request[r].task /\ q.workflow = request[r].workflow
    BY <1>0 DEF RequestRow
  <2>3. row.status = "PENDING" /\ row.task = request[r].task /\ row.workflow = request[r].workflow
    BY DEF Unasked
  <2>4. request[r].task \in Task /\ request[r].workflow \in Workflow /\ a # None
    BY <1>0, <1>1, ApprovalsAssumption DEF Fits
  <2> HIDE DEF q, row
  <2> QED BY <2>1, <2>2, <2>3, <2>4 DEF Fits, Holds, Named
<1> HIDE DEF q, row
<1> QED BY <1>1, <1>2, <1>3, <1>4, <1>5, <1>6, <1>7, PutRow

LEMMA CreatePendingInv ==
  ASSUME AInv, NEW r \in Request, CreatePending(r)
  PROVE  AInv'
<1> DEFINE q == [request[r] EXCEPT !.pc = "wait"]
<1>0. request[r] \in RequestRow /\ Fits(request[r], approval, job, taskEvents)
  BY RequestHere
<1>1. request[r].pc = "keep" /\ UNCHANGED <<taskVars, approval, job, now, astray>>
  BY DEF CreatePending, At
<1>2. request[r].approval \in Approval /\ request[r].approval # None
  BY <1>0, <1>1, ApprovalsAssumption DEF Fits, Named
<1>3. request' = [request EXCEPT ![r] = q] /\ q \in RequestRow
  BY <1>0 DEF CreatePending, Goto, RequestRow, PC, AInv, ATypeOK
<1>4. Fits(q, approval, job, taskEvents) /\ ~Holds(q)
  BY <1>0, <1>1, <1>2 DEF Fits, Holds, Named, RequestRow
<1>5. pending' = [pending EXCEPT ![request[r].approval] = "PENDING"]
  BY DEF CreatePending
<1>6. approval[request[r].approval].status # "NONE"
  BY <1>0, <1>2 DEF Fits
<1> HIDE DEF q
<1> QED BY <1>1, <1>2, <1>3, <1>4, <1>5, <1>6, PutPending

LEMMA CreateJobInv ==
  ASSUME AInv, NEW r \in Request, CreateJob(r)
  PROVE  AInv'
<1> DEFINE q == IF request[r].approval = None THEN Idle ELSE [request[r] EXCEPT !.pc = "complete"]
           new == [task |-> request[r].task, workflow |-> request[r].workflow,
                   by |-> request[r].approval]
<1>0. request[r] \in RequestRow /\ Fits(request[r], approval, job, taskEvents)
  BY RequestHere
<1>1. request[r].pc = "create" /\ request[r].task \in Task /\ request[r].workflow \in Workflow
  BY <1>0 DEF CreateJob, At, Fits
<1>2. CASE Fail(r)
  BY <1>2, FailInv
<1>3. CASE ~Fail(r)
  <2>1. /\ job' = job \cup {new}
        /\ UNCHANGED <<taskVars, approval, pending, now, astray>>
        /\ IF request[r].approval = None THEN End(r) ELSE Goto(r, "complete")
    BY <1>3 DEF CreateJob
  <2>2. request' = [request EXCEPT ![r] = q]
    BY <1>0, <2>1 DEF End, Goto, RequestRow
  <2>3. q \in RequestRow /\ ~Holds(q)
    BY <1>0, IdleRow DEF RequestRow, PC, Holds
  <2>4. Fits(q, approval, job', taskEvents)
    <3>1. CASE request[r].approval = None
      BY <3>1, IdleFits
    <3>2. CASE request[r].approval # None
      <4>1. q = [request[r] EXCEPT !.pc = "complete"] /\ q.pc = "complete"
            /\ q.task = request[r].task /\ q.workflow = request[r].workflow
            /\ q.approval = request[r].approval
        BY <1>0, <3>2 DEF RequestRow
      <4>2. new \in job' /\ new.by = q.approval
        BY <2>1, <4>1
      <4>3. q.approval \in Approval
        BY <1>0, <3>2, <4>1 DEF RequestRow
      <4> QED BY <1>0, <1>1, <3>2, <4>1, <4>2, <4>3 DEF Fits, Holds, Named
    <3> QED BY <3>1, <3>2
  <2>5. Kept(approval, approval', job, job', taskEvents, taskEvents')
    BY <2>1 DEF Kept, RowGoesOn, taskVars
  <2>6. RequestsFit'
    BY <2>1, <2>2, <2>3, <2>4, <2>5, AllFit DEF AInv, taskVars
  <2>7. ATypeOK'
    <3>1. new \in [task : Task, workflow : Workflow, by : Approval \cup {None}]
      BY <1>0, <1>1 DEF RequestRow
    <3> HIDE DEF new, q
    <3> QED BY <2>1, <2>2, <2>3, <3>1 DEF AInv, ATypeOK, RequestRow, taskVars
  <2>8. OnlyCleared'
    <3>1. Risk[new.workflow] = "LOW" <=> new.by = None
      <4>1. CASE request[r].approval = None
        BY <1>0, <1>1, <4>1 DEF Fits
      <4>2. CASE request[r].approval # None
        <5>1. request[r].approval \in Approval
          BY <1>0, <4>2 DEF RequestRow
        <5> QED BY <1>0, <4>2, <5>1 DEF Fits, AInv, RowsFit, RowFits
      <4> QED BY <4>1, <4>2
    <3>2. new.by # None =>
            /\ Spent(approval[new.by])
            /\ approval[new.by].task = new.task /\ approval[new.by].workflow = new.workflow
      BY <1>0, <1>1 DEF Fits, Holds
    <3> HIDE DEF new
    <3> QED BY <2>1, <3>1, <3>2 DEF AInv, OnlyCleared, Spent
  <2>9. RowsFit' /\ PendingIsTrue'
    <3>1. \A a \in Approval : pending[a] = "REJECTED" => new.by # a
      BY <1>0, <1>1, ApprovalsAssumption DEF AInv, PendingIsTrue, Fits, Holds, Spent
    <3> HIDE DEF new
    <3> QED BY <2>1, <3>1 DEF AInv, RowsFit, PendingIsTrue
  <2>10. SpentOnce'
    <3>1. \A k \in Request : request'[k] = IF k = r THEN q ELSE request[k]
      BY <2>2 DEF AInv, ATypeOK
    <3>2. \A k \in Request : k # r /\ Holds(request[k]) => new.by # request[k].approval
      BY <1>1 DEF AInv, SpentOnce, Holds
    <3> HIDE DEF new, q
    <3> QED BY <2>1, <2>3, <3>1, <3>2 DEF AInv, SpentOnce
  <2>11. DispatchedThroughTask'
    <3>1. <<new.task, QueueKey(new)>> \in taskEvents
      BY <1>0, <1>1 DEF Fits, Noted, QueueKey
    <3> HIDE DEF new
    <3> QED BY <2>1, <3>1 DEF AInv, DispatchedThroughTask, taskVars
  <2> QED BY <2>6, <2>7, <2>8, <2>9, <2>10, <2>11 DEF AInv
<1> QED BY <1>2, <1>3

LEMMA DecideReadInv ==
  ASSUME AInv, NEW r \in Request, NEW a \in Approval, NEW approved \in BOOLEAN,
         DecideRead(r, a, approved)
  PROVE  AInv'
<1> DEFINE q == [Idle EXCEPT !.pc = "decide", !.approval = a, !.approved = approved, !.at = now,
                             !.task = approval[a].task, !.workflow = approval[a].workflow]
<1>1. /\ approval[a].status # "NONE"
      /\ approval[a].task \in Task /\ approval[a].workflow \in Workflow
  BY DEF DecideRead, AInv, RowsFit, RowFits
<1>2. request' = [request EXCEPT ![r] = q] /\ q \in RequestRow
  BY <1>1 DEF DecideRead, Idle, RequestRow, PC, AInv, ATypeOK
<1>3. Fits(q, approval, job, taskEvents) /\ ~Holds(q)
  BY <1>1 DEF Fits, Holds, Named, Idle
<1>4. UNCHANGED <<taskVars, approval, pending, job, now, astray>>
  BY DEF DecideRead
<1>5. taskEvents' = taskEvents /\ astray' \subseteq Approval
  BY <1>4 DEF taskVars, AInv, ATypeOK
<1> HIDE DEF q
<1> QED BY <1>2, <1>3, <1>4, <1>5, TablesStand, GoOn

LEMMA DecideInv ==
  ASSUME AInv, NEW r \in Request, Decide(r)
  PROVE  AInv'
<1> DEFINE a == request[r].approval
           verdictOf == IF request[r].approved THEN "APPROVED" ELSE "REJECTED"
           row == [approval[a] EXCEPT !.status = verdictOf, !.decided = request[r].at]
           q == [request[r] EXCEPT !.pc = "read"]
<1>0. request[r] \in RequestRow /\ Fits(request[r], approval, job, taskEvents)
  BY RequestHere
<1>1. request[r].pc = "decide" /\ a \in Approval /\ a # None
  BY <1>0, ApprovalsAssumption DEF Decide, At, Fits, Named
<1>2. CASE Fail(r)
  BY <1>2, FailInv
<1>3. CASE ~Fail(r)
  <2>1. /\ approval[a].status = "PENDING" /\ request[r].at <= approval[a].expires
        /\ UNCHANGED <<taskVars, pending, job, now, astray>>
        /\ Goto(r, "read")
    BY <1>3 DEF Decide, Open
  <2>2. approval[a] \in ApprovalRow
    BY <1>1 DEF AInv, ATypeOK
  <2>3. approval' = [approval EXCEPT ![a] = row]
    BY <1>1, <1>3, <2>2 DEF Decide, AInv, ATypeOK, ApprovalRow
  <2>4. request' = [request EXCEPT ![r] = q] /\ q \in RequestRow
    BY <1>0, <2>1 DEF Goto, RequestRow, PC
  <2>5. row \in ApprovalRow
    BY <1>0, <2>2 DEF ApprovalRow, RequestRow
  <2>6. RowGoesOn(approval[a], row)
    BY <2>1, <2>2 DEF RowGoesOn, ApprovalRow, AInv, RowsFit, RowFits
  <2>7. RowFits(row, pending[a])
    BY <1>1, <2>1, <2>2 DEF RowFits, AInv, RowsFit, ApprovalRow
  <2>8. Fits(q, approval', job, taskEvents) /\ ~Holds(q)
    <3>1. approval'[a] = row /\ row.status = verdictOf
          /\ row.task = approval[a].task /\ row.workflow = approval[a].workflow
      BY <1>1, <2>2, <2>3 DEF AInv, ATypeOK, ApprovalRow
    <3>2. q.pc = "read" /\ q.approval = a /\ q.task = request[r].task
          /\ q.workflow = request[r].workflow /\ q.approved = request[r].approved
      BY <1>0 DEF RequestRow
    <3> HIDE DEF row, q
    <3> QED BY <1>0, <1>1, <3>1, <3>2 DEF Fits, Holds, Named
  <2> HIDE DEF q, row, a
  <2> QED BY <1>1, <2>1, <2>3, <2>4, <2>5, <2>6, <2>7, <2>8, PutRow
<1> QED BY <1>2, <1>3

LEMMA ReadTaskInv ==
  ASSUME AInv, NEW r \in Request, ReadTask(r)
  PROVE  AInv'
<1> DEFINE q == [request[r] EXCEPT !.version = taskVersion[request[r].task],
                                   !.pc = IF request[r].approved THEN "authorize" ELSE "reject"]
<1>0. request[r] \in RequestRow /\ Fits(request[r], approval, job, taskEvents)
  BY RequestHere
<1>1. request[r].pc = "read" /\ request[r].task \in Task
  BY <1>0 DEF ReadTask, At, Fits
<1>2. request' = [request EXCEPT ![r] = q] /\ q \in RequestRow
  BY <1>0, <1>1 DEF ReadTask, RequestRow, PC, AInv, ATypeOK
<1>3. Fits(q, approval, job, taskEvents) /\ ~Holds(q)
  BY <1>0, <1>1 DEF Fits, Holds, Named, RequestRow
<1>4. UNCHANGED <<taskVars, approval, pending, job, now>>
  BY DEF ReadTask
<1>5. taskEvents' = taskEvents /\ astray' \subseteq Approval
  <2>1. request[r].approval \in Approval
    BY <1>0, <1>1 DEF Fits, Named
  <2> QED BY <1>4, <2>1 DEF ReadTask, taskVars, AInv, ATypeOK
<1> HIDE DEF q
<1> QED BY <1>2, <1>3, <1>4, <1>5, TablesStand, GoOn

LEMMA ResolveInv ==
  ASSUME AInv, NEW r \in Request,
         \/ request[r].pc = "reject" /\ Resolve(r, "REJECTED", "cancel")
         \/ request[r].pc = "complete" /\ Resolve(r, "DISPATCHED", "idle")
  PROVE  AInv'
<1> DEFINE a == request[r].approval
           rejecting == request[r].pc = "reject"
           q == IF rejecting THEN [request[r] EXCEPT !.pc = "cancel"] ELSE Idle
           status == IF rejecting THEN "REJECTED" ELSE "DISPATCHED"
<1>0. request[r] \in RequestRow /\ Fits(request[r], approval, job, taskEvents)
  BY RequestHere
<1>1. a \in Approval /\ a # None
  BY <1>0, ApprovalsAssumption DEF Fits, Named
<1>2. CASE Fail(r)
  BY <1>2, FailInv
<1>3. CASE ~Fail(r)
  <2>1. /\ pending' = [pending EXCEPT ![a] = status]
        /\ UNCHANGED <<taskVars, approval, job, now, astray>>
        /\ request' = [request EXCEPT ![r] = q]
    BY <1>0, <1>3 DEF Resolve, End, Goto, RequestRow
  <2>2. q \in RequestRow /\ ~Holds(q)
    BY <1>0, IdleRow DEF RequestRow, PC, Holds
  <2>3. Fits(q, approval, job, taskEvents)
    <3>1. CASE rejecting
      BY <1>0, <1>1, <3>1 DEF Fits, Holds, Named, RequestRow
    <3>2. CASE ~rejecting
      BY <3>2, IdleFits
    <3> QED BY <3>1, <3>2
  <2>4. /\ approval[a].status # "NONE"
        /\ status = "DISPATCHED" => \E j \in job : j.by = a
        /\ status = "REJECTED" => approval[a].status = "REJECTED"
    BY <1>0, <1>1 DEF Fits
  <2>5. status \in {"PENDING", "DISPATCHED", "REJECTED"}
    OBVIOUS
  <2> HIDE DEF q, a, status
  <2> QED BY <1>1, <2>1, <2>2, <2>3, <2>4, <2>5, PutPending
<1> QED BY <1>2, <1>3

LEMMA AuthorizeInv ==
  ASSUME AInv, NEW r \in Request, Authorize(r)
  PROVE  AInv'
<1> DEFINE a == request[r].approval
           row == [approval[a] EXCEPT !.used = request[r].at]
           q == [request[r] EXCEPT !.pc = "release"]
<1>0. request[r] \in RequestRow /\ Fits(request[r], approval, job, taskEvents)
  BY RequestHere
<1>1. request[r].pc = "authorize" /\ a \in Approval /\ a # None
  BY <1>0, ApprovalsAssumption DEF Authorize, At, Fits, Named
<1>2. CASE Fail(r)
  BY <1>2, FailInv
<1>3. CASE ~Fail(r)
  <2>1. /\ approval[a].status = "APPROVED" /\ approval[a].used = Null
        /\ UNCHANGED <<taskVars, pending, job, now, astray>>
        /\ Goto(r, "release")
    BY <1>3 DEF Authorize
  <2>2. approval[a] \in ApprovalRow
    BY <1>1 DEF AInv, ATypeOK
  <2>3. approval' = [approval EXCEPT ![a] = row]
    BY <1>1, <1>3, <2>2 DEF Authorize, AInv, ATypeOK, ApprovalRow
  <2>4. request' = [request EXCEPT ![r] = q] /\ q \in RequestRow
    BY <1>0, <2>1 DEF Goto, RequestRow, PC
  <2>5. row \in ApprovalRow
    BY <1>0, <2>2 DEF ApprovalRow, RequestRow
  <2>6. RowGoesOn(approval[a], row)
    BY <2>1, <2>2 DEF RowGoesOn, ApprovalRow
  <2>7. RowFits(row, pending[a]) /\ row.decided <= row.expires
    BY <1>1, <2>1, <2>2 DEF RowFits, AInv, RowsFit, ApprovalRow
  <2>8. Fits(q, approval', job, taskEvents)
    <3>1. approval'[a] = row /\ row.status = "APPROVED" /\ row.used # Null
          /\ row.task = approval[a].task /\ row.workflow = approval[a].workflow
      BY <1>0, <1>1, <2>1, <2>2, <2>3, ApprovalsAssumption
         DEF AInv, ATypeOK, ApprovalRow, RequestRow, Time, Null
    <3>2. q.pc = "release" /\ q.approval = a /\ q.task = request[r].task
          /\ q.workflow = request[r].workflow
      BY <1>0 DEF RequestRow
    <3> HIDE DEF row, q
    <3> QED BY <1>0, <1>1, <2>7, <3>1, <3>2 DEF Fits, Holds, Named, Spent
  <2>9. q.approval = a
    BY <1>0 DEF RequestRow
  <2> HIDE DEF q, row, a
  <2> QED BY <1>1, <2>1, <2>3, <2>4, <2>5, <2>6, <2>7, <2>8, <2>9, PutRow
<1> QED BY <1>2, <1>3

LEMMA ElsewhereInv ==
  ASSUME AInv, \/ \E t \in Task, target \in TaskState : Elsewhere(t, target)
               \/ Tick
               \/ Restart
  PROVE  AInv'
<1>1. CASE \E t \in Task, target \in TaskState : Elsewhere(t, target)
  <2>1. /\ Tables' /\ taskEvents \subseteq taskEvents'
        /\ UNCHANGED ownVars
    BY <1>1, TransitionType DEF Elsewhere, AInv, ATypeOK, Tables
  <2>2. ATypeOK'
    BY <2>1 DEF AInv, ATypeOK, Tables, ownVars
  <2>3. RequestsFit'
    <3>1. Kept(approval, approval', job, job', taskEvents, taskEvents')
      BY <2>1 DEF Kept, RowGoesOn, ownVars
    <3>2. \A r \in Request : request[r] \in RequestRow
      BY RequestHere
    <3> QED BY <2>1, <3>1, <3>2, FitsOn DEF AInv, RequestsFit, ownVars
  <2>4. RowsFit' /\ SpentOnce' /\ OnlyCleared' /\ PendingIsTrue'
    BY <2>1 DEF AInv, RowsFit, SpentOnce, OnlyCleared, PendingIsTrue, ownVars
  <2>5. DispatchedThroughTask'
    BY <2>1 DEF AInv, DispatchedThroughTask, ownVars
  <2> QED BY <2>2, <2>3, <2>4, <2>5 DEF AInv
<1>2. CASE Tick
  <2>1. ATypeOK'
    BY <1>2, ApprovalsAssumption DEF Tick, AInv, ATypeOK, Time, taskVars
  <2>2. RequestsFit' /\ RowsFit' /\ SpentOnce'
    BY <1>2 DEF Tick, AInv, RequestsFit, RowsFit, SpentOnce, taskVars
  <2>3. OnlyCleared' /\ PendingIsTrue' /\ DispatchedThroughTask'
    BY <1>2 DEF Tick, AInv, OnlyCleared, PendingIsTrue, DispatchedThroughTask, taskVars
  <2> QED BY <2>1, <2>2, <2>3 DEF AInv
<1>3. CASE Restart
  <2>1. request' = [r \in Request |-> Idle] /\ UNCHANGED <<taskVars, approval, pending, job, now>>
    BY <1>3 DEF Restart
  <2>2. ATypeOK'
    <3>1. \A r \in Request : Deciding(r) => request[r].approval \in Approval
      BY RequestHere DEF Deciding, Fits, Named
    <3>2. astray' \subseteq Approval
      BY <1>3, <3>1 DEF Restart, AInv, ATypeOK
    <3> QED BY <2>1, <3>2, IdleRow DEF AInv, ATypeOK, RequestRow, taskVars
  <2>3. RequestsFit' /\ SpentOnce'
    BY <2>1, IdleRow, IdleFits DEF RequestsFit, SpentOnce
  <2>4. RowsFit' /\ OnlyCleared' /\ PendingIsTrue' /\ DispatchedThroughTask'
    BY <2>1 DEF AInv, RowsFit, OnlyCleared, PendingIsTrue, DispatchedThroughTask, taskVars
  <2> QED BY <2>2, <2>3, <2>4 DEF AInv
<1> QED BY <1>1, <1>2, <1>3

LEMMA StepInv == AInv /\ [ANext]_vars => AInv'
<1> SUFFICES ASSUME AInv, [ANext]_vars PROVE AInv'
  OBVIOUS
<1> USE TaskStateValues
<1>1. ASSUME NEW r \in Request, TakeOver(r) \/ Wait(r) \/ Queue(r) \/ CancelTask(r) \/ Release(r)
      PROVE  AInv'
  <2>0. "idle" \in PC /\ "create" \in PC
    BY DEF PC
  <2>1. CASE TakeOver(r)
    BY <2>0, <2>1, MoveInv DEF TakeOver, At
  <2>2. CASE Wait(r)
    BY <2>0, <2>2, MoveInv DEF Wait, At
  <2>3. CASE Queue(r)
    BY <2>0, <2>3, MoveInv DEF Queue, At
  <2>4. CASE CancelTask(r)
    BY <2>0, <2>4, MoveInv DEF CancelTask, At
  <2>5. CASE Release(r)
    BY <2>0, <2>5, MoveInv DEF Release, At
  <2> QED BY <1>1, <2>1, <2>2, <2>3, <2>4, <2>5
<1>2. ASSUME NEW r \in Request, Reject(r) \/ Complete(r) PROVE AInv'
  BY <1>2, ResolveInv DEF Reject, Complete, At
<1>3. CASE UNCHANGED vars
  BY <1>3 DEF vars, ownVars, taskVars, AInv, ATypeOK, RequestsFit, RowsFit, SpentOnce, OnlyCleared,
              PendingIsTrue, DispatchedThroughTask
<1>4. CASE ANext
  BY <1>1, <1>2, <1>4, DispatchReadInv, CreateApprovalInv, DecideReadInv, CreatePendingInv,
     CreateJobInv, DecideInv, ReadTaskInv, AuthorizeInv, ElsewhereInv DEF ANext
<1> QED BY <1>3, <1>4

LEMMA Invariant == ASpec => []AInv
BY InitInv, StepInv, PTL DEF ASpec

-----------------------------------------------------------------------------
\* The tables and the handlers' threads keep their types.
THEOREM ApprovalsTypeCorrect == ASpec => []ATypeOK
BY Invariant, PTL DEF AInv

\* No risky job without a timely approval of exactly it, whatever decide_and_resume, dispatch,
\* expiry and a restart do in between.
THEOREM ClearedCorrect == ASpec => []OnlyCleared
BY Invariant, PTL DEF AInv

\* The pending dispatches tell the operator what became of them.
THEOREM PendingCorrect == ASpec => []PendingIsTrue
BY Invariant, PTL DEF AInv

\* A job is created only after its task was moved into the queue for that very approval, or
\* for that very workflow when it needs none.
THEOREM DispatchOrderly == ASpec => []DispatchedThroughTask
BY Invariant, PTL DEF AInv

-----------------------------------------------------------------------------
(***************************************************************************)
(* A task that waits for an approval can be helped.                        *)
(***************************************************************************)
Early == {"NONE", "RECEIVED", "PLANNING", "WAITING_APPROVAL"}
Before == {"PLANNING", "WAITING_APPROVAL"}

\* The keys under which a task goes into its queue.
QueuesUnder(key) == \/ \E w \in Workflow : key = <<"queued", w>>
                    \/ \E a \in Approval : key = <<"approved", a>>

\* The tasks have been planned.
Planned == \A t \in Task : taskState[t] \notin {"NONE", "RECEIVED"}

\* A task whose events show that it was queued does not come back to planning or waiting.
QueuedHaveLeft ==
  \A t \in Task : taskState[t] \in Early =>
    /\ \A w \in Workflow : <<t, <<"queued", w>>>> \notin taskEvents
    /\ \A a \in Approval : <<t, <<"approved", a>>>> \notin taskEvents

\* A task whose events show that its approval was rejected is over.
RejectedEnded ==
  \A t \in Task, a \in Approval :
    <<t, <<"rejected", a>>>> \in taskEvents => taskState[t] = "CANCELLED"

\* A request that stores the dispatch of its new approval; one that carries a decision out.
Keeper(q) == q.pc = "keep"
Carrier(q) ==
  /\ q.pc \in {"read", "reject", "cancel", "authorize", "release", "create", "complete"}
  /\ q.approval # None

\* No two requests do that for one approval.
OneAtWork ==
  \A r \in Request, k \in Request : r # k /\ request[r].approval = request[k].approval =>
    /\ ~(Keeper(request[r]) /\ Keeper(request[k]))
    /\ ~(Carrier(request[r]) /\ Carrier(request[k]))

\* Nothing will stop the request on its way: the dispatch it will resolve is pending, the
\* approval it will use can be used, and the task is under the version it has read, unless
\* the task was not waiting when it was read.
Ready(q, rows, status, states, versions, strays) ==
  LET a == q.approval
  IN /\ q.pc \in {"wait", "decide"} => status[a] # "NONE"
     /\ q.pc = "keep" => status[a] = "NONE"
     /\ q.pc \in {"read", "reject", "authorize", "release"} => status[a] = "PENDING"
     /\ (q.pc = "read" /\ q.approved) \/ q.pc = "authorize" =>
          rows[a].used = Null /\ q.at <= rows[a].expires
     /\ q.pc = "authorize" => rows[a].status = "APPROVED"
     /\ q.pc \in {"reject", "cancel", "authorize", "release"} /\ a \notin strays =>
          /\ states[q.task] # "PLANNING"
          /\ states[q.task] = "WAITING_APPROVAL" => versions[q.task] = q.version

RequestsReady ==
  \A r \in Request : Ready(request[r], approval, pending, taskState, taskVersion, astray)

\* An approval without a dispatch is undecided.
OpenUntilKept ==
  \A a \in Approval : pending[a] = "NONE" => approval[a].status \in {"NONE", "PENDING"}

\* The approval can be decided, is being carried out, or went astray.
Helped(a) ==
  \/ approval[a].status = "PENDING" /\ pending[a] = "PENDING"
  \/ \E r \in Request : Deciding(r) /\ request[r].approval = a
  \/ a \in astray

AllHelped ==
  \A a \in Approval :
    pending[a] # "NONE" /\ taskState[approval[a].task] \in Before => Helped(a)

\* The event of a waiting task names an approval of it that has a dispatch.
WaitersNamed ==
  \A t \in Task : taskState[t] = "WAITING_APPROVAL" =>
    \E a \in Approval : /\ approval[a].task = t /\ pending[a] # "NONE"
                        /\ <<t, <<"waiting", a>>>> \in taskEvents

TaskInv == Planned /\ QueuedHaveLeft /\ RejectedEnded

QInv ==
  /\ TaskInv /\ OneAtWork /\ RequestsReady /\ OpenUntilKept /\ AllHelped /\ WaitersNamed

LEMMA QInit == AInit => QInv
BY DEF AInit, QInv, TaskInv, Planned, QueuedHaveLeft, RejectedEnded, OneAtWork, Keeper, Carrier,
       RequestsReady, Ready, OpenUntilKept, AllHelped, Helped, WaitersNamed, Idle, Unasked, Before,
       Early

LEMMA HelpedWait == QInv => WaitingIsAsked
BY DEF QInv, AllHelped, WaitersNamed, Helped, Before, WaitingIsAsked

-----------------------------------------------------------------------------
\* Where a transition leads, and from where one comes to an early state.
LEMMA TransitionMoves ==
  ASSUME AInv, NEW t \in Task, NEW version, NEW key, NEW target, Transition(t, version, target, key)
  PROVE  /\ \A k \in Task : taskState'[k] = IF k = t THEN target ELSE taskState[k]
         /\ \A k \in Task : k # t => taskVersion'[k] = taskVersion[k]
         /\ target \notin {"NONE", "RECEIVED"} /\ taskState[t] # "CANCELLED"
         /\ target \in Early => taskState[t] \in Early
         /\ target = "PLANNING" => taskState[t] = "RECEIVED"
         /\ target = "WAITING_APPROVAL" => taskState[t] = "PLANNING"
<1>1. /\ \A k \in Task : taskState'[k] = IF k = t THEN target ELSE taskState[k]
      /\ \A k \in Task : k # t => taskVersion'[k] = taskVersion[k]
  BY DEF AInv, ATypeOK, Transition
<1>2. taskState[t] \in TaskState /\ target \in Successors[taskState[t]]
  BY DEF AInv, ATypeOK, Transition, Accepted
<1>3. /\ target \notin {"NONE", "RECEIVED"} /\ taskState[t] # "CANCELLED"
      /\ target \in Early => taskState[t] \in Early
      /\ target = "PLANNING" => taskState[t] = "RECEIVED"
      /\ target = "WAITING_APPROVAL" => taskState[t] = "PLANNING"
  BY <1>2, TaskStateValues DEF Successors, Early
<1> QED BY <1>1, <1>3

\* What a step does to the tasks, seen from the requests.
TasksGoOn ==
  /\ taskEvents \subseteq taskEvents'
  /\ \A t \in Task :
       /\ taskState'[t] \in Before => taskState[t] \in Before
       /\ taskState'[t] = "PLANNING" => taskState[t] = "PLANNING"
       /\ taskState'[t] = "WAITING_APPROVAL" =>
            \/ taskState[t] = "WAITING_APPROVAL" /\ taskVersion'[t] = taskVersion[t]
            \/ /\ taskState[t] = "PLANNING"
               /\ \E a \in Approval : /\ approval[a].task = t /\ pending[a] # "NONE"
                                      /\ <<t, <<"waiting", a>>>> \in taskEvents'

LEMMA TransitionGoesOn ==
  ASSUME AInv, TaskInv, NEW t \in Task, NEW version, NEW key, NEW target,
         Transition(t, version, target, key),
         QueuesUnder(key) => target = "QUEUED",
         (\E a \in Approval : key = <<"rejected", a>>) => target = "CANCELLED",
         target = "WAITING_APPROVAL" =>
           \E a \in Approval : /\ approval[a].task = t /\ pending[a] # "NONE"
                               /\ key = <<"waiting", a>>
  PROVE  TasksGoOn /\ TaskInv'
<1>1. /\ \A k \in Task : taskState'[k] = IF k = t THEN target ELSE taskState[k]
      /\ \A k \in Task : k # t => taskVersion'[k] = taskVersion[k]
      /\ target \notin {"NONE", "RECEIVED"} /\ taskState[t] # "CANCELLED"
      /\ target \in Early => taskState[t] \in Early
      /\ target = "PLANNING" => taskState[t] = "RECEIVED"
      /\ target = "WAITING_APPROVAL" => taskState[t] = "PLANNING"
  BY TransitionMoves
<1>2. taskEvents' = taskEvents \cup {<<t, key>>}
  BY DEF Transition
<1>3. Planned'
  BY <1>1 DEF TaskInv, Planned
<1>4. RejectedEnded'
  <2> SUFFICES ASSUME NEW k \in Task, NEW a \in Approval, <<k, <<"rejected", a>>>> \in taskEvents'
               PROVE  taskState'[k] = "CANCELLED"
    BY DEF RejectedEnded
  <2>1. CASE <<k, <<"rejected", a>>>> \in taskEvents
    BY <1>1, <2>1 DEF TaskInv, RejectedEnded
  <2>2. CASE <<k, <<"rejected", a>>>> \notin taskEvents
    BY <1>1, <1>2, <2>2
  <2> QED BY <2>1, <2>2
<1>5. QueuedHaveLeft'
  <2>1. ASSUME NEW k \in Task, taskState'[k] \in Early, NEW other, QueuesUnder(other)
        PROVE  <<k, other>> \notin taskEvents'
    <3>1. taskState[k] \in Early /\ (k = t => target \in Early)
      BY <1>1, <2>1
    <3>2. <<k, other>> \notin taskEvents
      BY <2>1, <3>1 DEF TaskInv, QueuedHaveLeft, QueuesUnder
    <3>3. target = "QUEUED" => k # t
      BY <3>1 DEF Early
    <3> QED BY <1>2, <2>1, <3>2, <3>3
  <2>2. /\ \A w \in Workflow : QueuesUnder(<<"queued", w>>)
        /\ \A a \in Approval : QueuesUnder(<<"approved", a>>)
    BY DEF QueuesUnder
  <2> QED BY <2>1, <2>2 DEF QueuedHaveLeft
<1>6. TasksGoOn
  <2> SUFFICES ASSUME NEW k \in Task
               PROVE  /\ taskState'[k] \in Before => taskState[k] \in Before
                      /\ taskState'[k] = "PLANNING" => taskState[k] = "PLANNING"
                      /\ taskState'[k] = "WAITING_APPROVAL" =>
                           \/ taskState[k] = "WAITING_APPROVAL" /\ taskVersion'[k] = taskVersion[k]
                           \/ /\ taskState[k] = "PLANNING"
                              /\ \E a \in Approval : /\ approval[a].task = k /\ pending[a] # "NONE"
                                                     /\ <<k, <<"waiting", a>>>> \in taskEvents'
    BY <1>2 DEF TasksGoOn
  <2>1. CASE k # t
    BY <1>1, <2>1
  <2>2. CASE k = t
    <3>1. target # "PLANNING"
      BY <1>1 DEF TaskInv, Planned
    <3> QED BY <1>1, <1>2, <2>2, <3>1 DEF Before
  <2> QED BY <2>1, <2>2
<1> QED BY <1>3, <1>4, <1>5, <1>6 DEF TaskInv

LEMMA TasksStand == ASSUME TaskInv, UNCHANGED taskVars PROVE TasksGoOn /\ TaskInv'
BY DEF TaskInv, TasksGoOn, Planned, QueuedHaveLeft, RejectedEnded, taskVars

-----------------------------------------------------------------------------
(***************************************************************************)
(* What a step does to the rows and to the other requests.                 *)
(***************************************************************************)
Moved(r) == request'[r] # request[r]

\* A row of approvals is asked for, decided over its dispatch, or changed by the request
\* that carries its decision out.
RowGoes(b) ==
  \/ approval'[b] = approval[b]
  \/ approval[b].status = "NONE" /\ approval'[b].status = "PENDING"
  \/ /\ approval[b].status = "PENDING" /\ pending[b] # "NONE"
     /\ approval'[b].status # "NONE" /\ approval'[b].task = approval[b].task
     /\ \E r \in Request : request'[r].pc = "read" /\ request'[r].approval = b
  \/ /\ approval'[b].status = approval[b].status /\ approval'[b].task = approval[b].task
     /\ \E r \in Request : Moved(r) /\ Carrier(request[r]) /\ request[r].approval = b

\* A row of pending_dispatches is stored by its keeper, or resolved by its carrier.
DispatchGoes(b) ==
  \/ pending'[b] = pending[b]
  \/ \E r \in Request :
       /\ Moved(r) /\ request[r].approval = b
       /\ \/ Keeper(request[r]) /\ pending'[b] = "PENDING"
          \/ Carrier(request[r]) /\ pending[b] = "PENDING" /\ pending'[b] # "NONE"

\* A request stands still, or is ready where it goes; it takes up only what no other request
\* has, and lets go of a decision only when the task needs no more help.
RequestGoes(k) ==
  \/ ~Moved(k)
  \/ /\ Ready(request'[k], approval', pending', taskState', taskVersion', astray')
     /\ Keeper(request'[k]) =>
          request'[k].approval \in Approval /\ approval[request'[k].approval].status = "NONE"
     /\ Carrier(request'[k]) =>
          \/ Carrier(request[k]) /\ request'[k].approval = request[k].approval
          \/ /\ request'[k].approval \in Approval
             /\ approval[request'[k].approval].status = "PENDING"
     /\ Deciding(k) =>
          \/ request'[k].pc \in {"read", "reject", "cancel", "authorize", "release"}
             /\ request'[k].approval = request[k].approval
          \/ request[k].approval \in astray'
          \/ taskState'[request[k].task] \notin Before

\* Only one request takes something up.
OneTakesUp ==
  \A k \in Request, l \in Request : k # l /\ Moved(k) /\ Moved(l) =>
    ~Keeper(request'[k]) /\ ~Carrier(request'[k])

Turn ==
  /\ TasksGoOn /\ TaskInv'
  /\ \A b \in Approval : RowGoes(b) /\ DispatchGoes(b)
  /\ astray \subseteq astray'
  /\ \A k \in Request : RequestGoes(k)
  /\ OneTakesUp

\* A decision that is being carried out has been made.
LEMMA CarrierDecided ==
  ASSUME AInv, RequestsReady, NEW r \in Request, Carrier(request[r])
  PROVE  /\ request[r].approval \in Approval
         /\ approval[request[r].approval].status \in {"APPROVED", "REJECTED"}
<1>1. request[r] \in RequestRow /\ Fits(request[r], approval, job, taskEvents)
  BY RequestHere
<1>2. request[r].approval \in Approval
  BY <1>1 DEF RequestRow, Carrier
<1>3. CASE request[r].pc = "complete"
  <2>1. PICK j \in job : j.by = request[r].approval
    BY <1>1, <1>3 DEF Fits
  <2> QED BY <1>2, <2>1 DEF AInv, OnlyCleared, Carrier
<1>4. CASE request[r].pc \in {"read", "reject", "cancel"}
  BY <1>1, <1>2, <1>4 DEF Fits
<1>5. CASE request[r].pc = "authorize"
  BY <1>2, <1>5 DEF RequestsReady, Ready
<1>6. CASE request[r].pc \in {"release", "create"}
  BY <1>1, <1>2, <1>6 DEF Fits, Holds, Spent, Carrier
<1> QED BY <1>2, <1>3, <1>4, <1>5, <1>6 DEF Carrier

\* A request that stands still stays ready.
LEMMA StaysReady ==
  ASSUME AInv, QInv, Turn, NEW k \in Request, ~Moved(k)
  PROVE  Ready(request[k], approval', pending', taskState', taskVersion', astray')
<1> DEFINE q == request[k]
           a == q.approval
<1>0. /\ q \in RequestRow /\ Fits(q, approval, job, taskEvents)
      /\ Ready(q, approval, pending, taskState, taskVersion, astray)
  BY RequestHere DEF QInv, RequestsReady
<1>1. q.pc \in {"wait", "decide"} => pending'[a] # "NONE"
  <2>1. q.pc \in {"wait", "decide"} => a \in Approval /\ pending[a] # "NONE"
    BY <1>0 DEF Fits, Named, Ready
  <2> QED BY <2>1 DEF Turn, DispatchGoes
<1>2. q.pc = "keep" => pending'[a] = "NONE"
  <2> SUFFICES ASSUME q.pc = "keep", pending'[a] # "NONE" PROVE FALSE
    OBVIOUS
  <2>1. a \in Approval /\ pending[a] = "NONE"
    BY <1>0 DEF Fits, Named, Ready
  <2>2. PICK r \in Request : Moved(r) /\ request[r].approval = a /\ Keeper(request[r])
    BY <2>1 DEF Turn, DispatchGoes
  <2> QED BY <2>2 DEF QInv, OneAtWork, Keeper
<1>3. q.pc \in {"read", "reject", "authorize", "release"} => pending'[a] = "PENDING"
  <2> SUFFICES ASSUME q.pc \in {"read", "reject", "authorize", "release"}, pending'[a] # "PENDING"
               PROVE  FALSE
    OBVIOUS
  <2>1. a \in Approval /\ pending[a] = "PENDING" /\ Carrier(q)
    BY <1>0, ApprovalsAssumption DEF Fits, Named, Ready, Carrier
  <2>2. PICK r \in Request : Moved(r) /\ request[r].approval = a /\ Carrier(request[r])
    BY <2>1 DEF Turn, DispatchGoes
  <2> QED BY <2>1, <2>2 DEF QInv, OneAtWork
<1>4. q.pc \in {"read", "authorize"} => approval'[a] = approval[a]
  <2> SUFFICES ASSUME q.pc \in {"read", "authorize"}, approval'[a] # approval[a]
               PROVE  FALSE
    OBVIOUS
  <2>1. a \in Approval /\ Carrier(q)
    BY <1>0, ApprovalsAssumption DEF Fits, Named, Carrier
  <2>2. approval[a].status \in {"APPROVED", "REJECTED"}
    BY <2>1, CarrierDecided DEF QInv
  <2>3. PICK r \in Request : Moved(r) /\ request[r].approval = a /\ Carrier(request[r])
    BY <2>1, <2>2 DEF Turn, RowGoes
  <2> QED BY <2>1, <2>3 DEF QInv, OneAtWork
<1>5. q.pc \in {"reject", "cancel", "authorize", "release"} /\ a \notin astray' =>
        /\ taskState'[q.task] # "PLANNING"
        /\ taskState'[q.task] = "WAITING_APPROVAL" => taskVersion'[q.task] = q.version
  <2> SUFFICES ASSUME q.pc \in {"reject", "cancel", "authorize", "release"}, a \notin astray'
               PROVE  /\ taskState'[q.task] # "PLANNING"
                      /\ taskState'[q.task] = "WAITING_APPROVAL" => taskVersion'[q.task] = q.version
    OBVIOUS
  <2>1. q.task \in Task /\ a \notin astray
    BY <1>0 DEF Fits, Turn
  <2>2. /\ taskState[q.task] # "PLANNING"
        /\ taskState[q.task] = "WAITING_APPROVAL" => taskVersion[q.task] = q.version
    BY <1>0, <2>1 DEF Ready
  <2> QED BY <2>1, <2>2 DEF Turn, TasksGoOn
<1> QED BY <1>0, <1>1, <1>2, <1>3, <1>4, <1>5 DEF Ready

LEMMA TurnOne == ASSUME AInv, QInv, Turn PROVE OneAtWork'
<1> SUFFICES ASSUME NEW r \in Request, NEW k \in Request, r # k,
                    request'[r].approval = request'[k].approval
             PROVE  /\ ~(Keeper(request'[r]) /\ Keeper(request'[k]))
                    /\ ~(Carrier(request'[r]) /\ Carrier(request'[k]))
  BY DEF OneAtWork, Keeper, Carrier
<1>1. CASE ~Moved(r) /\ ~Moved(k)
  BY <1>1 DEF Moved, QInv, OneAtWork
<1>2. CASE Moved(r) /\ Moved(k)
  BY <1>2 DEF Turn, OneTakesUp
<1>3. ASSUME NEW m \in Request, NEW s \in Request, m # s, Moved(m), ~Moved(s),
             request'[m].approval = request'[s].approval
      PROVE  /\ ~(Keeper(request'[m]) /\ Keeper(request'[s]))
             /\ ~(Carrier(request'[m]) /\ Carrier(request'[s]))
  <2>1. request'[s] = request[s] /\ request[s] \in RequestRow
        /\ Fits(request[s], approval, job, taskEvents)
    BY <1>3, RequestHere DEF Moved
  <2>2. ASSUME Keeper(request'[m]), Keeper(request'[s]) PROVE FALSE
    <3>1. approval[request'[m].approval].status = "NONE"
      BY <1>3, <2>2 DEF Turn, RequestGoes
    <3>2. request[s].approval \in Approval /\ approval[request[s].approval].status # "NONE"
      BY <2>1, <2>2, ApprovalsAssumption DEF Fits, Named, Keeper
    <3> QED BY <1>3, <2>1, <3>1, <3>2
  <2>3. ASSUME Carrier(request'[m]), Carrier(request'[s]) PROVE FALSE
    <3>1. approval[request[s].approval].status # "PENDING"
      BY <2>1, <2>3, CarrierDecided DEF QInv
    <3>2. Carrier(request[m]) /\ request'[m].approval = request[m].approval
      BY <1>3, <2>1, <2>3, <3>1 DEF Turn, RequestGoes
    <3> QED BY <1>3, <2>1, <2>3, <3>2 DEF QInv, OneAtWork
  <2> QED BY <2>2, <2>3
<1> QED BY <1>1, <1>2, <1>3

LEMMA TurnHelped == ASSUME AInv, QInv, Turn PROVE AllHelped'
<1> SUFFICES ASSUME NEW a \in Approval, pending'[a] # "NONE",
                    taskState'[approval'[a].task] \in Before
             PROVE  Helped(a)'
  BY DEF AllHelped
<1>1. CASE pending[a] = "NONE"
  <2>1. PICK r \in Request : /\ request[r].approval = a /\ request[r].pc = "keep"
                             /\ pending'[a] = "PENDING"
    BY <1>1 DEF Turn, DispatchGoes, Keeper
  <2>2. approval[a].status = "PENDING"
    BY <1>1, <2>1, RequestHere, ApprovalsAssumption DEF QInv, OpenUntilKept, Fits
  <2>3. approval'[a].status = "PENDING"
    <3>1. ~\E k \in Request : Carrier(request[k]) /\ request[k].approval = a
      BY <2>2, CarrierDecided DEF QInv
    <3> QED BY <1>1, <2>2, <3>1 DEF Turn, RowGoes
  <2> QED BY <2>1, <2>3 DEF Helped
<1>2. CASE pending[a] # "NONE"
  <2>1. approval[a].status # "NONE" /\ approval[a].task \in Task
    BY <1>2 DEF AInv, RowsFit, RowFits
  <2>2. approval'[a].task = approval[a].task
    BY <2>1 DEF Turn, RowGoes
  <2>3. Helped(a)
    BY <1>2, <2>1, <2>2 DEF Turn, TasksGoOn, QInv, AllHelped
  <2>4. CASE approval[a].status = "PENDING" /\ pending[a] = "PENDING"
    <3>1. ~\E k \in Request : Carrier(request[k]) /\ request[k].approval = a
      BY <2>4, CarrierDecided DEF QInv
    <3>2. pending'[a] = "PENDING"
      BY <2>4, <3>1 DEF Turn, DispatchGoes
    <3>3. CASE approval'[a] = approval[a]
      BY <2>4, <3>2, <3>3 DEF Helped
    <3>4. CASE approval'[a] # approval[a]
      <4>1. PICK r \in Request : request'[r].pc = "read" /\ request'[r].approval = a
        BY <2>4, <3>1, <3>4 DEF Turn, RowGoes
      <4> QED BY <4>1 DEF Helped, Deciding
    <3> QED BY <3>3, <3>4
  <2>5. ASSUME NEW k \in Request, Deciding(k), request[k].approval = a PROVE Helped(a)'
    <3>1. CASE ~Moved(k)
      BY <2>5, <3>1 DEF Helped, Deciding, Moved
    <3>2. CASE Moved(k)
      <4>1. request[k].task = approval[a].task
        BY <2>5, RequestHere, ApprovalsAssumption DEF Deciding, Fits
      <4>2. taskState'[request[k].task] \in Before
        BY <2>2, <4>1
      <4> QED BY <2>5, <3>2, <4>2 DEF Turn, RequestGoes, Helped, Deciding
    <3> QED BY <3>1, <3>2
  <2>6. CASE a \in astray
    BY <2>6 DEF Helped, Turn
  <2> QED BY <2>3, <2>4, <2>5, <2>6 DEF Helped
<1> QED BY <1>1, <1>2

LEMMA TurnInv == ASSUME AInv, QInv, Turn PROVE QInv'
<1>1. TaskInv'
  BY DEF Turn
<1>2. RequestsReady'
  BY StaysReady DEF RequestsReady, Turn, RequestGoes, Moved
<1>3. OpenUntilKept'
  <2> SUFFICES ASSUME NEW a \in Approval, pending'[a] = "NONE"
               PROVE  approval'[a].status \in {"NONE", "PENDING"}
    BY DEF OpenUntilKept
  <2>1. pending[a] = "NONE"
    BY DEF Turn, DispatchGoes
  <2>2. approval[a].status \in {"NONE", "PENDING"}
    BY <2>1 DEF QInv, OpenUntilKept
  <2> QED BY <2>1, <2>2 DEF Turn, RowGoes
<1>4. WaitersNamed'
  <2> SUFFICES ASSUME NEW t \in Task, taskState'[t] = "WAITING_APPROVAL"
               PROVE  \E a \in Approval : /\ approval'[a].task = t /\ pending'[a] # "NONE"
                                          /\ <<t, <<"waiting", a>>>> \in taskEvents'
    BY DEF WaitersNamed
  <2>1. PICK a \in Approval : /\ approval[a].task = t /\ pending[a] # "NONE"
                              /\ <<t, <<"waiting", a>>>> \in taskEvents'
    BY DEF Turn, TasksGoOn, QInv, WaitersNamed
  <2>2. approval[a].status # "NONE"
    BY <2>1 DEF AInv, RowsFit, RowFits
  <2>3. approval'[a].task = t
    BY <2>1, <2>2 DEF Turn, RowGoes
  <2>4. pending'[a] # "NONE"
    BY <2>1 DEF Turn, DispatchGoes
  <2> QED BY <2>1, <2>3, <2>4
<1> QED BY <1>1, <1>2, <1>3, <1>4, TurnOne, TurnHelped DEF QInv

-----------------------------------------------------------------------------
\* One request moves to q.
LEMMA TurnOf ==
  ASSUME AInv, QInv, NEW r \in Request, NEW q, request' = [request EXCEPT ![r] = q],
         TasksGoOn, TaskInv', \A b \in Approval : RowGoes(b) /\ DispatchGoes(b),
         astray \subseteq astray', RequestGoes(r)
  PROVE  QInv'
<1>1. \A k \in Request : k # r => ~Moved(k)
  BY DEF AInv, ATypeOK, Moved
<1>2. \A k \in Request : RequestGoes(k)
  BY <1>1 DEF RequestGoes
<1>3. OneTakesUp
  BY <1>1 DEF OneTakesUp
<1> QED BY <1>2, <1>3, TurnInv DEF Turn

\* A request that touches no row: it ends, or goes on in the same matter.
LEMMA TurnAside ==
  ASSUME AInv, QInv, NEW r \in Request, NEW q, request' = [request EXCEPT ![r] = q],
         TasksGoOn, TaskInv', UNCHANGED <<approval, pending>>,
         astray \subseteq astray', RequestGoes(r)
  PROVE  QInv'
<1>1. \A b \in Approval : RowGoes(b) /\ DispatchGoes(b)
  BY DEF RowGoes, DispatchGoes
<1> QED BY <1>1, TurnOf

LEMMA GoesIdle ==
  ASSUME NEW r \in Request, request'[r] = Idle,
         Deciding(r) => \/ request[r].approval \in astray'
                        \/ taskState'[request[r].task] \notin Before
  PROVE  RequestGoes(r)
<1>1. /\ ~Keeper(Idle) /\ ~Carrier(Idle)
      /\ Ready(Idle, approval', pending', taskState', taskVersion', astray')
  BY DEF Keeper, Carrier, Idle, Ready
<1> QED BY <1>1 DEF RequestGoes

LEMMA FailTurn ==
  ASSUME AInv, QInv, NEW r \in Request, Fail(r),
         Deciding(r) => \/ request[r].approval \in astray
                        \/ taskState[request[r].task] \notin Before
  PROVE  QInv'
<1>1. TasksGoOn /\ TaskInv'
  BY TasksStand DEF Fail, QInv
<1>2. request' = [request EXCEPT ![r] = Idle] /\ UNCHANGED <<taskState, approval, pending, astray>>
  BY DEF Fail, End, taskVars
<1>3. request'[r] = Idle
  BY <1>2 DEF AInv, ATypeOK
<1>4. RequestGoes(r)
  BY <1>2, <1>3, GoesIdle
<1> QED BY <1>1, <1>2, <1>4, TurnAside

\* A request that carries a decision out moves the task, if it still is where it was.
LEMMA MoveTurn ==
  ASSUME AInv, QInv, NEW r \in Request, NEW target, NEW key, NEW next \in {"idle", "create"},
         MoveTask(r, target, key, next), request[r].task \in Task,
         request[r].pc \in {"takeover", "wait", "queue", "cancel", "release"},
         request[r].pc = "cancel" => key = <<"rejected", request[r].approval>> /\ target = "CANCELLED",
         request[r].pc = "release" => key = <<"approved", request[r].approval>> /\ target = "QUEUED",
         next = "create" => request[r].pc \in {"queue", "release"},
         QueuesUnder(key) => target = "QUEUED",
         (\E a \in Approval : key = <<"rejected", a>>) => target = "CANCELLED",
         target = "WAITING_APPROVAL" =>
           request[r].pc = "wait" /\ key = <<"waiting", request[r].approval>>
  PROVE  QInv'
<1> DEFINE t == request[r].task
<1>0. /\ request[r] \in RequestRow /\ Fits(request[r], approval, job, taskEvents)
      /\ Ready(request[r], approval, pending, taskState, taskVersion, astray)
  BY RequestHere DEF QInv, RequestsReady
<1>1. TasksGoOn /\ TaskInv'
  <2>1. CASE UNCHANGED taskVars
    BY <2>1, TasksStand DEF QInv
  <2>2. CASE ~UNCHANGED taskVars
    <3>1. Transition(t, request[r].version, target, key)
      BY <2>2 DEF MoveTask, Fail
    <3>2. target = "WAITING_APPROVAL" =>
            \E a \in Approval : approval[a].task = t /\ pending[a] # "NONE" /\ key = <<"waiting", a>>
      BY <1>0, ApprovalsAssumption DEF Fits, Named, Ready
    <3> HIDE DEF t
    <3> QED BY <3>1, <3>2, TransitionGoesOn DEF QInv, t
  <2> QED BY <2>1, <2>2
<1>2. Deciding(r) => request[r].approval \in astray \/ taskState'[t] \notin Before
  <2> SUFFICES ASSUME Deciding(r), request[r].approval \notin astray, taskState[t] \in Before
               PROVE  taskState'[t] \notin Before
    BY <1>1 DEF TasksGoOn
  <2>1. request[r].pc \in {"cancel", "release"} /\ request[r].approval \in Approval
    BY <1>0 DEF Deciding, Fits, Named
  <2>2. taskState[t] = "WAITING_APPROVAL" /\ taskVersion[t] = request[r].version
    BY <1>0, <2>1 DEF Ready, Before
  <2>3. ~Replayed(t, key)
    BY <2>1, <2>2 DEF Replayed, QInv, TaskInv, QueuedHaveLeft, RejectedEnded, Early
  <2>4. target \in Successors[taskState[t]] /\ target \in {"QUEUED", "CANCELLED"}
    BY <2>1, <2>2 DEF Successors
  <2>5. Accepted(t, request[r].version, target, key)
    BY <2>2, <2>3, <2>4 DEF Accepted
  <2>6. Transition(t, request[r].version, target, key)
    BY <2>3, <2>5 DEF MoveTask, Refused
  <2>7. taskState'[t] = target
    BY <2>6 DEF Transition, AInv, ATypeOK
  <2> QED BY <2>4, <2>7 DEF Before
<1>3. /\ UNCHANGED <<approval, pending, astray>>
      /\ \/ request' = [request EXCEPT ![r] = Idle]
         \/ next = "create" /\ request' = [request EXCEPT ![r] = [request[r] EXCEPT !.pc = "create"]]
  BY DEF MoveTask, Fail, End, Goto
<1>4. CASE request' = [request EXCEPT ![r] = Idle]
  <2>1. request'[r] = Idle
    BY <1>4 DEF AInv, ATypeOK
  <2>2. RequestGoes(r)
    BY <1>2, <1>3, <2>1, GoesIdle
  <2> QED BY <1>1, <1>3, <1>4, <2>2, TurnAside
<1>5. ASSUME next = "create", request' = [request EXCEPT ![r] = [request[r] EXCEPT !.pc = "create"]]
      PROVE  QInv'
  <2> DEFINE q == [request[r] EXCEPT !.pc = "create"]
  <2>1. q.pc = "create" /\ q.approval = request[r].approval
    BY <1>0 DEF RequestRow
  <2>2. request'[r] = q
    BY <1>5 DEF AInv, ATypeOK
  <2>3. ~Keeper(q) /\ Ready(q, approval', pending', taskState', taskVersion', astray')
    BY <2>1 DEF Keeper, Ready
  <2>4. Carrier(q) => Carrier(request[r]) /\ q.approval = request[r].approval
    BY <1>0, <1>5, <2>1 DEF Carrier, Fits
  <2> HIDE DEF q
  <2>5. RequestGoes(r)
    BY <1>2, <1>3, <2>2, <2>3, <2>4 DEF RequestGoes
  <2> QED BY <1>1, <1>3, <1>5, <2>5, TurnAside DEF q
<1> QED BY <1>3, <1>4, <1>5

-----------------------------------------------------------------------------
(***************************************************************************)
(* The actions.                                                            *)
(***************************************************************************)
LEMMA DispatchReadTurn ==
  ASSUME AInv, QInv, NEW r \in Request, NEW t \in Task, NEW w \in Workflow, DispatchRead(r, t, w)
  PROVE  QInv'
<1> DEFINE q == [Idle EXCEPT !.pc = Course(w), !.task = t, !.workflow = w,
                             !.version = taskVersion[t], !.at = now]
<1>1. /\ q.pc \in {"takeover", "ask", "queue"} /\ q.approval = None
  BY ApprovalsAssumption DEF Course, Idle
<1>2. request' = [request EXCEPT ![r] = q] /\ request'[r] = q
  BY DEF DispatchRead, AInv, ATypeOK
<1>3. request[r].pc = "idle" /\ UNCHANGED <<taskVars, approval, pending, astray>>
  BY DEF DispatchRead, At
<1> HIDE DEF q
<1>4. RequestGoes(r)
  BY <1>1, <1>2, <1>3 DEF RequestGoes, Ready, Keeper, Carrier, Deciding
<1> QED BY <1>2, <1>3, <1>4, TasksStand, TurnAside DEF QInv

LEMMA CreateApprovalTurn ==
  ASSUME AInv, QInv, NEW r \in Request, NEW a \in Approval, CreateApproval(r, a)
  PROVE  QInv'
<1> DEFINE q == [request[r] EXCEPT !.pc = "keep", !.approval = a]
<1>0. request[r] \in RequestRow
  BY RequestHere
<1>1. /\ request[r].pc = "ask" /\ approval[a].status = "NONE"
      /\ UNCHANGED <<taskVars, pending, astray>>
  BY DEF CreateApproval, At, Unasked
<1>2. request' = [request EXCEPT ![r] = q] /\ request'[r] = q
  BY <1>0 DEF CreateApproval, RequestRow, AInv, ATypeOK
<1>3. q.pc = "keep" /\ q.approval = a
  BY <1>0 DEF RequestRow
<1>4. pending[a] = "NONE"
  BY <1>1 DEF AInv, RowsFit, RowFits
<1>5. \A b \in Approval : b = a \/ approval'[b] = approval[b]
  BY DEF CreateApproval, AInv, ATypeOK
<1>6. approval'[a].status = "PENDING"
  BY DEF CreateApproval, AInv, ATypeOK, Unasked
<1>7. \A b \in Approval : RowGoes(b) /\ DispatchGoes(b)
  BY <1>1, <1>5, <1>6 DEF RowGoes, DispatchGoes
<1> HIDE DEF q
<1>8. RequestGoes(r)
  BY <1>1, <1>2, <1>3, <1>4 DEF RequestGoes, Ready, Keeper, Carrier, Deciding
<1> QED BY <1>1, <1>2, <1>7, <1>8, TasksStand, TurnOf DEF QInv

LEMMA CreatePendingTurn ==
  ASSUME AInv, QInv, NEW r \in Request, CreatePending(r)
  PROVE  QInv'
<1> DEFINE q == [request[r] EXCEPT !.pc = "wait"]
           a == request[r].approval
<1>0. request[r] \in RequestRow /\ a \in Approval
  BY RequestHere DEF CreatePending, At, Fits, Named
<1>1. request[r].pc = "keep" /\ UNCHANGED <<taskVars, approval, astray>>
  BY DEF CreatePending, At
<1>2. request' = [request EXCEPT ![r] = q] /\ request'[r] = q
  BY DEF CreatePending, Goto, AInv, ATypeOK
<1>3. q.pc = "wait" /\ q.approval = a
  BY <1>0 DEF RequestRow
<1>4. \A b \in Approval : pending'[b] = IF b = a THEN "PENDING" ELSE pending[b]
  BY DEF CreatePending, AInv, ATypeOK
<1> HIDE DEF q
<1>5. \A b \in Approval : RowGoes(b) /\ DispatchGoes(b)
  BY <1>1, <1>2, <1>3, <1>4 DEF RowGoes, DispatchGoes, Moved, Keeper
<1>6. RequestGoes(r)
  BY <1>0, <1>1, <1>2, <1>3, <1>4 DEF RequestGoes, Ready, Keeper, Carrier, Deciding
<1> QED BY <1>1, <1>2, <1>5, <1>6, TasksStand, TurnOf DEF QInv

LEMMA CreateJobTurn ==
  ASSUME AInv, QInv, NEW r \in Request, CreateJob(r)
  PROVE  QInv'
<1> DEFINE q == IF request[r].approval = None THEN Idle ELSE [request[r] EXCEPT !.pc = "complete"]
<1>0. request[r] \in RequestRow /\ request[r].pc = "create"
  BY RequestHere DEF CreateJob, At
<1>1. CASE Fail(r)
  BY <1>0, <1>1, FailTurn DEF Deciding
<1>2. CASE ~Fail(r)
  <2>1. request' = [request EXCEPT ![r] = q] /\ request'[r] = q
    BY <1>2 DEF CreateJob, End, Goto, AInv, ATypeOK
  <2>2. UNCHANGED <<taskVars, approval, pending, astray>>
    BY <1>2 DEF CreateJob
  <2>3. /\ q.pc \in {"idle", "complete"}
        /\ q.pc = "complete" => q.approval = request[r].approval /\ request[r].approval # None
    BY <1>0 DEF Idle, RequestRow
  <2> HIDE DEF q
  <2>4. RequestGoes(r)
    BY <1>0, <2>1, <2>3 DEF RequestGoes, Ready, Keeper, Carrier, Deciding
  <2> QED BY <2>1, <2>2, <2>4, TasksStand, TurnAside DEF QInv
<1> QED BY <1>1, <1>2

LEMMA DecideReadTurn ==
  ASSUME AInv, QInv, NEW r \in Request, NEW a \in Approval, NEW approved \in BOOLEAN,
         DecideRead(r, a, approved)
  PROVE  QInv'
<1> DEFINE q == [Idle EXCEPT !.pc = "decide", !.approval = a, !.approved = approved, !.at = now,
                             !.task = approval[a].task, !.workflow = approval[a].workflow]
<1>1. q.pc = "decide" /\ q.approval = a /\ pending[a] = "PENDING"
  BY DEF DecideRead, Idle
<1>2. request' = [request EXCEPT ![r] = q] /\ request'[r] = q
  BY DEF DecideRead, AInv, ATypeOK
<1>3. request[r].pc = "idle" /\ UNCHANGED <<taskVars, approval, pending, astray>>
  BY DEF DecideRead, At
<1> HIDE DEF q
<1>4. RequestGoes(r)
  BY <1>1, <1>2, <1>3 DEF RequestGoes, Ready, Keeper, Carrier, Deciding
<1> QED BY <1>2, <1>3, <1>4, TasksStand, TurnAside DEF QInv

LEMMA DecideTurn ==
  ASSUME AInv, QInv, NEW r \in Request, Decide(r)
  PROVE  QInv'
<1> DEFINE a == request[r].approval
           q == [request[r] EXCEPT !.pc = "read"]
<1>0. /\ request[r] \in RequestRow /\ Fits(request[r], approval, job, taskEvents)
      /\ Ready(request[r], approval, pending, taskState, taskVersion, astray)
      /\ request[r].pc = "decide"
  BY RequestHere DEF QInv, RequestsReady, Decide, At
<1>1. a \in Approval /\ a # None /\ approval[a] \in ApprovalRow
  BY <1>0, ApprovalsAssumption DEF Fits, Named, AInv, ATypeOK
<1>2. CASE Fail(r)
  BY <1>0, <1>2, FailTurn DEF Deciding
<1>3. CASE ~Fail(r)
  <2>1. /\ approval[a].status = "PENDING" /\ request[r].at <= approval[a].expires
        /\ UNCHANGED <<taskVars, pending, astray>>
    BY <1>3 DEF Decide, Open
  <2>2. request' = [request EXCEPT ![r] = q] /\ request'[r] = q
    BY <1>3 DEF Decide, Goto, AInv, ATypeOK
  <2>3. q.pc = "read" /\ q.approval = a /\ q.at = request[r].at
    BY <1>0 DEF RequestRow
  <2>4. /\ \A b \in Approval : b = a \/ approval'[b] = approval[b]
        /\ approval'[a].status \in {"APPROVED", "REJECTED"}
        /\ approval'[a].task = approval[a].task
        /\ approval'[a].used = approval[a].used /\ approval'[a].expires = approval[a].expires
    BY <1>1, <1>3 DEF Decide, AInv, ATypeOK, ApprovalRow
  <2>5. pending[a] = "PENDING"
    <3>1. pending[a] # "NONE"
      BY <1>0 DEF Ready
    <3>2. pending[a] # "DISPATCHED"
      BY <1>1, <2>1 DEF AInv, PendingIsTrue, OnlyCleared
    <3>3. pending[a] # "REJECTED"
      BY <1>1, <2>1 DEF AInv, PendingIsTrue
    <3> QED BY <1>1, <3>1, <3>2, <3>3 DEF AInv, ATypeOK
  <2>6. approval[a].used = Null
    BY <1>1, <2>1 DEF AInv, RowsFit, RowFits
  <2> HIDE DEF q
  <2>7. \A b \in Approval : RowGoes(b) /\ DispatchGoes(b)
    BY <2>1, <2>2, <2>3, <2>4, <2>5 DEF RowGoes, DispatchGoes
  <2>8. RequestGoes(r)
    <3>1. Ready(q, approval', pending', taskState', taskVersion', astray')
      BY <2>1, <2>3, <2>4, <2>5, <2>6 DEF Ready
    <3> QED BY <1>0, <1>1, <2>1, <2>2, <2>3, <3>1 DEF RequestGoes, Keeper, Carrier, Deciding
  <2> QED BY <2>1, <2>2, <2>7, <2>8, TasksStand, TurnOf DEF QInv
<1> QED BY <1>2, <1>3

LEMMA ReadTaskTurn ==
  ASSUME AInv, QInv, NEW r \in Request, ReadTask(r)
  PROVE  QInv'
<1> DEFINE a == request[r].approval
           q == [request[r] EXCEPT !.version = taskVersion[request[r].task],
                                   !.pc = IF request[r].approved THEN "authorize" ELSE "reject"]
<1>0. /\ request[r] \in RequestRow /\ Fits(request[r], approval, job, taskEvents)
      /\ Ready(request[r], approval, pending, taskState, taskVersion, astray)
      /\ request[r].pc = "read"
  BY RequestHere DEF QInv, RequestsReady, ReadTask, At
<1>1. a \in Approval /\ a # None
  BY <1>0, ApprovalsAssumption DEF Fits, Named
<1>2. UNCHANGED <<taskVars, approval, pending>> /\ taskState' = taskState /\ taskVersion' = taskVersion
  BY DEF ReadTask, taskVars
<1>3. request' = [request EXCEPT ![r] = q] /\ request'[r] = q
  BY <1>0 DEF ReadTask, RequestRow, AInv, ATypeOK
<1>4. /\ q.pc = IF request[r].approved THEN "authorize" ELSE "reject"
      /\ q.approval = a /\ q.task = request[r].task /\ q.at = request[r].at
      /\ q.version = taskVersion[request[r].task]
  BY <1>0 DEF RequestRow
<1>5. astray \subseteq astray' /\ (a \notin astray' => taskState[request[r].task] # "PLANNING")
  BY DEF ReadTask
<1>6. Ready(q, approval', pending', taskState', taskVersion', astray')
  <2>1. pending[a] = "PENDING"
    BY <1>0 DEF Ready
  <2>2. request[r].approved => /\ approval[a].used = Null /\ request[r].at <= approval[a].expires
                               /\ approval[a].status = "APPROVED"
    BY <1>0 DEF Ready, Fits
  <2> HIDE DEF q, a
  <2> QED BY <1>2, <1>4, <1>5, <2>1, <2>2 DEF Ready
<1>7. RequestGoes(r)
  <2> HIDE DEF q
  <2> QED BY <1>0, <1>1, <1>3, <1>4, <1>6 DEF RequestGoes, Keeper, Carrier
<1> HIDE DEF q
<1> QED BY <1>2, <1>3, <1>5, <1>7, TasksStand, TurnAside DEF QInv

LEMMA RejectTurn ==
  ASSUME AInv, QInv, NEW r \in Request, Reject(r)
  PROVE  QInv'
<1> DEFINE a == request[r].approval
           q == [request[r] EXCEPT !.pc = "cancel"]
<1>0. /\ request[r] \in RequestRow /\ Fits(request[r], approval, job, taskEvents)
      /\ Ready(request[r], approval, pending, taskState, taskVersion, astray)
      /\ request[r].pc = "reject"
  BY RequestHere DEF QInv, RequestsReady, Reject, At
<1>1. a \in Approval /\ a # None /\ pending[a] = "PENDING"
  BY <1>0, ApprovalsAssumption DEF Fits, Named, Ready
<1>2. /\ UNCHANGED <<taskVars, approval, astray>>
      /\ pending' = [pending EXCEPT ![a] = "REJECTED"]
      /\ request' = [request EXCEPT ![r] = q] /\ request'[r] = q
  BY <1>1 DEF Reject, Resolve, Goto, AInv, ATypeOK
<1>3. /\ q.pc = "cancel" /\ q.approval = a /\ q.task = request[r].task
      /\ q.version = request[r].version
  BY <1>0 DEF RequestRow
<1>4. Carrier(request[r])
  BY <1>0, <1>1 DEF Carrier
<1>5. \A b \in Approval : pending'[b] = IF b = a THEN "REJECTED" ELSE pending[b]
  BY <1>2 DEF AInv, ATypeOK
<1>6. taskState' = taskState /\ taskVersion' = taskVersion
  BY <1>2 DEF taskVars
<1> HIDE DEF q
<1>7. \A b \in Approval : RowGoes(b) /\ DispatchGoes(b)
  BY <1>0, <1>1, <1>2, <1>3, <1>4, <1>5 DEF RowGoes, DispatchGoes, Moved
<1>8. RequestGoes(r)
  <2>1. Ready(q, approval', pending', taskState', taskVersion', astray')
    BY <1>0, <1>2, <1>3, <1>6 DEF Ready
  <2> QED BY <1>2, <1>3, <1>4, <2>1 DEF RequestGoes, Keeper
<1> QED BY <1>2, <1>7, <1>8, TasksStand, TurnOf DEF QInv

LEMMA CompleteTurn ==
  ASSUME AInv, QInv, NEW r \in Request, Complete(r)
  PROVE  QInv'
<1> DEFINE a == request[r].approval
<1>0. /\ request[r] \in RequestRow /\ Fits(request[r], approval, job, taskEvents)
      /\ request[r].pc = "complete"
  BY RequestHere DEF Complete, At
<1>1. a \in Approval /\ a # None
  BY <1>0, ApprovalsAssumption DEF Fits, Named
<1>2. CASE Fail(r)
  BY <1>0, <1>2, FailTurn DEF Deciding
<1>3. CASE ~Fail(r)
  <2>1. /\ UNCHANGED <<taskVars, approval, astray>> /\ pending[a] = "PENDING"
        /\ pending' = [pending EXCEPT ![a] = "DISPATCHED"]
        /\ request' = [request EXCEPT ![r] = Idle] /\ request'[r] = Idle
    BY <1>3 DEF Complete, Resolve, End, AInv, ATypeOK
  <2>2. Carrier(request[r]) /\ Moved(r)
    BY <1>0, <1>1, <2>1 DEF Carrier, Moved, Idle
  <2>3. \A b \in Approval : pending'[b] = IF b = a THEN "DISPATCHED" ELSE pending[b]
    BY <2>1 DEF AInv, ATypeOK
  <2>4. \A b \in Approval : RowGoes(b) /\ DispatchGoes(b)
    BY <2>1, <2>2, <2>3 DEF RowGoes, DispatchGoes
  <2>5. RequestGoes(r)
    BY <1>0, <2>1, GoesIdle DEF Deciding
  <2> QED BY <2>1, <2>4, <2>5, TasksStand, TurnOf DEF QInv
<1> QED BY <1>2, <1>3

LEMMA AuthorizeTurn ==
  ASSUME AInv, QInv, NEW r \in Request, Authorize(r)
  PROVE  QInv'
<1> DEFINE a == request[r].approval
           q == [request[r] EXCEPT !.pc = "release"]
<1>0. /\ request[r] \in RequestRow /\ Fits(request[r], approval, job, taskEvents)
      /\ Ready(request[r], approval, pending, taskState, taskVersion, astray)
      /\ request[r].pc = "authorize"
  BY RequestHere DEF QInv, RequestsReady, Authorize, At
<1>1. a \in Approval /\ a # None /\ approval[a] \in ApprovalRow
  BY <1>0, ApprovalsAssumption DEF Fits, Named, AInv, ATypeOK
<1>2. /\ pending[a] = "PENDING" /\ approval[a].status = "APPROVED" /\ approval[a].used = Null
      /\ request[r].at <= approval[a].expires
  BY <1>0 DEF Ready
<1>3. /\ UNCHANGED <<taskVars, pending, astray>>
      /\ approval' = [approval EXCEPT ![a].used = request[r].at]
      /\ request' = [request EXCEPT ![r] = q] /\ request'[r] = q
  BY <1>2 DEF Authorize, Goto, AInv, ATypeOK
<1>4. /\ q.pc = "release" /\ q.approval = a /\ q.task = request[r].task
      /\ q.version = request[r].version
  BY <1>0 DEF RequestRow
<1>5. /\ \A b \in Approval : b = a \/ approval'[b] = approval[b]
      /\ approval'[a].status = approval[a].status /\ approval'[a].task = approval[a].task
  BY <1>1, <1>3 DEF AInv, ATypeOK, ApprovalRow
<1>6. Carrier(request[r]) /\ taskState' = taskState /\ taskVersion' = taskVersion
  BY <1>0, <1>1, <1>3 DEF Carrier, taskVars
<1> HIDE DEF q
<1>7. \A b \in Approval : RowGoes(b) /\ DispatchGoes(b)
  BY <1>0, <1>3, <1>4, <1>5, <1>6 DEF RowGoes, DispatchGoes, Moved
<1>8. RequestGoes(r)
  <2>1. Ready(q, approval', pending', taskState', taskVersion', astray')
    BY <1>0, <1>2, <1>3, <1>4, <1>6 DEF Ready
  <2> QED BY <1>3, <1>4, <1>6, <2>1 DEF RequestGoes, Keeper, Carrier
<1> QED BY <1>3, <1>7, <1>8, TasksStand, TurnOf DEF QInv

\* A task with a job does not come to wait.
LEMMA ElsewhereTurn ==
  ASSUME AInv, QInv, NEW t \in Task, NEW target \in TaskState, Elsewhere(t, target)
  PROVE  QInv'
<1> DEFINE key == <<"elsewhere", taskVersion[t]>>
<1>1. Transition(t, taskVersion[t], target, key) /\ UNCHANGED ownVars
  BY DEF Elsewhere
<1>2. ~QueuesUnder(key) /\ ~\E a \in Approval : key = <<"rejected", a>>
  BY DEF QueuesUnder
<1>3. target # "WAITING_APPROVAL"
  <2> SUFFICES ASSUME target = "WAITING_APPROVAL" PROVE FALSE
    OBVIOUS
  <2>1. PICK j \in job : j.task = t
    BY DEF Elsewhere
  <2>2. j.workflow \in Workflow /\ j.by \in Approval \cup {None}
    BY DEF AInv, ATypeOK
  <2>3. <<t, QueueKey(j)>> \in taskEvents
    BY <2>1 DEF AInv, DispatchedThroughTask
  <2>4. taskState[t] \notin Early
    BY <2>2, <2>3 DEF QInv, TaskInv, QueuedHaveLeft, QueueKey
  <2> QED BY <1>1, <2>4, TransitionMoves DEF Early
<1> HIDE DEF key
<1>4. TasksGoOn /\ TaskInv'
  BY <1>1, <1>2, <1>3, TransitionGoesOn DEF QInv
<1>5. Turn
  BY <1>1, <1>4 DEF Turn, RowGoes, DispatchGoes, RequestGoes, OneTakesUp, Moved, ownVars
<1> QED BY <1>5, TurnInv

LEMMA RestartTurn == ASSUME AInv, QInv, Restart PROVE QInv'
<1>1. /\ request' = [r \in Request |-> Idle] /\ UNCHANGED <<taskVars, approval, pending>>
      /\ astray \subseteq astray'
      /\ \A r \in Request : Deciding(r) => request[r].approval \in astray'
  BY DEF Restart
<1>2. \A k \in Request : RequestGoes(k)
  BY <1>1, GoesIdle
<1>3. OneTakesUp
  BY <1>1 DEF OneTakesUp, Keeper, Carrier, Idle
<1>4. \A b \in Approval : RowGoes(b) /\ DispatchGoes(b)
  BY <1>1 DEF RowGoes, DispatchGoes
<1>5. TasksGoOn /\ TaskInv'
  BY <1>1, TasksStand DEF QInv
<1> QED BY <1>1, <1>2, <1>3, <1>4, <1>5, TurnInv DEF Turn

LEMMA QStep == AInv /\ QInv /\ [ANext]_vars => QInv'
<1> SUFFICES ASSUME AInv, QInv, [ANext]_vars PROVE QInv'
  OBVIOUS
<1>1. ASSUME NEW r \in Request, TakeOver(r) \/ Wait(r) \/ Queue(r) \/ CancelTask(r) \/ Release(r)
      PROVE  QInv'
  <2>0. /\ request[r].task \in Task
        /\ request[r].pc \in {"wait", "cancel", "release"} => request[r].approval \in Approval
        /\ request[r].workflow \in Workflow
    BY <1>1, RequestHere DEF TakeOver, Wait, Queue, CancelTask, Release, At, Fits, Named
  <2>1. CASE TakeOver(r)
    <3>1. LET key == <<"takeover", request[r].workflow>>
          IN ~QueuesUnder(key) /\ ~\E a \in Approval : key = <<"rejected", a>>
      BY DEF QueuesUnder
    <3> QED BY <2>0, <2>1, <3>1, MoveTurn DEF TakeOver, At
  <2>2. CASE Wait(r)
    <3>1. LET key == <<"waiting", request[r].approval>>
          IN ~QueuesUnder(key) /\ ~\E a \in Approval : key = <<"rejected", a>>
      BY DEF QueuesUnder
    <3> QED BY <2>0, <2>2, <3>1, MoveTurn DEF Wait, At
  <2>3. CASE Queue(r)
    <3>1. ~\E a \in Approval : <<"queued", request[r].workflow>> = <<"rejected", a>>
      OBVIOUS
    <3> QED BY <2>0, <2>3, <3>1, MoveTurn DEF Queue, At
  <2>4. CASE CancelTask(r)
    <3>1. ~QueuesUnder(<<"rejected", request[r].approval>>)
      BY DEF QueuesUnder
    <3> QED BY <2>0, <2>4, <3>1, MoveTurn DEF CancelTask, At
  <2>5. CASE Release(r)
    <3>1. ~\E a \in Approval : <<"approved", request[r].approval>> = <<"rejected", a>>
      OBVIOUS
    <3> QED BY <2>0, <2>5, <3>1, MoveTurn DEF Release, At
  <2> QED BY <1>1, <2>1, <2>2, <2>3, <2>4, <2>5
<1>2. CASE UNCHANGED vars \/ Tick
  <2>1. UNCHANGED <<taskVars, approval, pending, request, astray>>
    BY <1>2 DEF vars, ownVars, Tick
  <2>2. TasksGoOn /\ TaskInv'
    BY <2>1, TasksStand DEF QInv
  <2>3. Turn
    BY <2>1, <2>2 DEF Turn, RowGoes, DispatchGoes, RequestGoes, OneTakesUp, Moved
  <2> QED BY <2>3, TurnInv
<1>3. CASE ANext
  BY <1>1, <1>2, <1>3, DispatchReadTurn, CreateApprovalTurn, CreatePendingTurn, CreateJobTurn,
     DecideReadTurn, DecideTurn, ReadTaskTurn, RejectTurn, CompleteTurn, AuthorizeTurn,
     ElsewhereTurn, RestartTurn DEF ANext
<1> QED BY <1>2, <1>3

\* A task that waits for an approval can be helped, however dispatches, decisions, expiry and
\* restarts fall: the approval its event names is undecided with its dispatch pending, or a
\* request is carrying its decision out, or the decision went astray.
THEOREM WaitingCorrect == ASpec => []WaitingIsAsked
<1>1. ASpec => []QInv
  BY Invariant, QInit, QStep, PTL DEF ASpec
<1> QED BY <1>1, HelpedWait, PTL

-----------------------------------------------------------------------------
(***************************************************************************)
(* The refinement of Clearance.                                            *)
(***************************************************************************)
Carried(jobs) == {j.by : j \in jobs} \ {None}

VerdictOf(status) ==
  CASE status = "NONE" -> "none" [] status = "PENDING" -> "asked"
    [] status = "APPROVED" -> "granted" [] status = "REJECTED" -> "denied"

Stutter == verdict' = verdict /\ Carried(job') = Carried(job)

LEMMA VerdictValues ==
  /\ VerdictOf("NONE") = "none" /\ VerdictOf("PENDING") = "asked"
  /\ VerdictOf("APPROVED") = "granted" /\ VerdictOf("REJECTED") = "denied"
BY DEF VerdictOf

LEMMA VerdictIs == /\ verdict = [a \in Approval |-> VerdictOf(approval[a].status)]
                   /\ verdict' = [a \in Approval |-> VerdictOf(approval'[a].status)]
BY DEF verdict, VerdictOf

\* Everything that writes neither an approval nor a job.
LEMMA Aside == UNCHANGED <<approval, job>> => Stutter
BY VerdictIs DEF Stutter

LEMMA ClearInit == AInit => Clear!Init
<1> SUFFICES ASSUME AInit PROVE Clear!Init
  OBVIOUS
<1>1. \A a \in Approval : approval[a].status = "NONE"
  BY DEF AInit, Unasked
<1> QED BY <1>1, VerdictIs, VerdictValues DEF AInit, Clear!Init

\* One approval's row is written.
LEMMA Said ==
  ASSUME ATypeOK, NEW a \in Approval, NEW row, approval' = [approval EXCEPT ![a] = row], job' = job
  PROVE  Clear!Say(a, VerdictOf(approval[a].status), VerdictOf(row.status))
<1>1. \A b \in Approval : approval'[b] = IF b = a THEN row ELSE approval[b]
  BY DEF ATypeOK
<1>2. \A b \in Approval : VerdictOf(approval'[b].status) =
        IF b = a THEN VerdictOf(row.status) ELSE VerdictOf(approval[b].status)
  BY <1>1
<1>3. /\ verdict' = [verdict EXCEPT ![a] = VerdictOf(row.status)]
      /\ verdict[a] = VerdictOf(approval[a].status)
  BY <1>2, VerdictIs
<1> QED BY <1>3 DEF Clear!Say

LEMMA ClearStep == AInv /\ [ANext]_vars => [Clear!Next]_(Clear!vars)
<1> SUFFICES ASSUME AInv, [ANext]_vars PROVE Stutter \/ Clear!Next
  BY DEF Stutter, Carried, Clear!vars
<1>1. ASSUME NEW r \in Request, NEW a \in Approval, CreateApproval(r, a)
      PROVE  Clear!Say(a, "none", "asked")
  <2> DEFINE row == [Unasked EXCEPT !.status = "PENDING", !.task = request[r].task,
                                    !.workflow = request[r].workflow,
                                    !.expires = request[r].at + ApprovalTTL]
  <2>1. approval[a].status = "NONE" /\ row.status = "PENDING"
    BY <1>1 DEF CreateApproval, Unasked
  <2>2. approval' = [approval EXCEPT ![a] = row] /\ job' = job
    BY <1>1 DEF CreateApproval
  <2> HIDE DEF row
  <2> QED BY <2>1, <2>2, Said, VerdictValues DEF AInv
<1>2. ASSUME NEW r \in Request, Decide(r)
      PROVE  \/ Stutter
             \/ \E a \in Approval : \/ Clear!Say(a, "asked", "granted")
                                    \/ Clear!Say(a, "asked", "denied")
  <2> DEFINE a == request[r].approval
             said == IF request[r].approved THEN "APPROVED" ELSE "REJECTED"
             row == [approval[a] EXCEPT !.status = said, !.decided = request[r].at]
  <2>1. CASE Fail(r)
    BY <2>1, Aside DEF Fail
  <2>2. CASE ~Fail(r)
    <3>1. a \in Approval /\ approval[a] \in ApprovalRow
      BY <1>2, RequestHere DEF Decide, At, Fits, Named, AInv, ATypeOK
    <3>2. approval[a].status = "PENDING" /\ job' = job
      BY <1>2, <2>2 DEF Decide, Open
    <3>3. approval' = [approval EXCEPT ![a] = row]
      BY <1>2, <2>2, <3>1 DEF Decide, AInv, ATypeOK, ApprovalRow
    <3>4. row.status = "APPROVED" \/ row.status = "REJECTED"
      BY <3>1 DEF ApprovalRow
    <3> HIDE DEF row, a
    <3>5. Clear!Say(a, VerdictOf(approval[a].status), VerdictOf(row.status))
      BY <3>1, <3>2, <3>3, Said DEF AInv
    <3> QED BY <3>1, <3>2, <3>4, <3>5, VerdictValues
  <2> QED BY <2>1, <2>2
<1>3. ASSUME NEW r \in Request, Authorize(r) PROVE Stutter
  <2> DEFINE a == request[r].approval
             row == [approval[a] EXCEPT !.used = request[r].at]
  <2>1. CASE Fail(r)
    BY <2>1, Aside DEF Fail
  <2>2. CASE ~Fail(r)
    <3>1. a \in Approval /\ approval[a] \in ApprovalRow
      BY <1>3, RequestHere DEF Authorize, At, Fits, Named, AInv, ATypeOK
    <3>2. job' = job
      BY <1>3, <2>2 DEF Authorize
    <3>3. approval' = [approval EXCEPT ![a] = row]
      BY <1>3, <2>2, <3>1 DEF Authorize, AInv, ATypeOK, ApprovalRow
    <3>4. row.status = approval[a].status
      BY <3>1 DEF ApprovalRow
    <3> HIDE DEF row, a
    <3>5. \A b \in Approval : approval'[b].status = approval[b].status
      BY <3>1, <3>3, <3>4 DEF AInv, ATypeOK
    <3> QED BY <3>2, <3>5, VerdictIs DEF Stutter
  <2> QED BY <2>1, <2>2
<1>4. ASSUME NEW r \in Request, CreateJob(r)
      PROVE  Stutter \/ \E a \in Approval : Clear!CarryOut(a)
  <2> DEFINE a == request[r].approval
             new == [task |-> request[r].task, workflow |-> request[r].workflow, by |-> a]
  <2>1. CASE Fail(r)
    BY <2>1, Aside DEF Fail
  <2>2. CASE ~Fail(r)
    <3>1. job' = job \cup {new} /\ approval' = approval
      BY <1>4, <2>2 DEF CreateJob
    <3>2. verdict' = verdict
      BY <3>1, VerdictIs
    <3>3. Carried(job') = IF a = None THEN Carried(job) ELSE Carried(job) \cup {a}
      <4>1. new.by = a
        OBVIOUS
      <4> HIDE DEF new, a
      <4> QED BY <3>1, <4>1 DEF Carried
    <3>4. CASE a = None
      BY <3>2, <3>3, <3>4 DEF Stutter
    <3>5. CASE a # None
      <4>1. a \in Approval /\ Holds(request[r])
        BY <1>4, <3>5, RequestHere DEF CreateJob, At, Holds, RequestRow
      <4>2. approval[a].status = "APPROVED"
        BY <4>1, RequestHere DEF Fits, Spent
      <4>3. verdict[a] = "granted"
        BY <4>1, <4>2, VerdictIs, VerdictValues
      <4>4. a \notin Carried(job)
        BY <4>1 DEF AInv, SpentOnce, Carried
      <4> HIDE DEF a
      <4> QED BY <3>2, <3>3, <3>5, <4>1, <4>3, <4>4 DEF Clear!CarryOut, Carried
    <3> QED BY <3>4, <3>5
  <2> QED BY <2>1, <2>2
<1>5. ASSUME NEW r \in Request, NEW target, NEW key, NEW next, MoveTask(r, target, key, next)
      PROVE  Stutter
  BY <1>5, Aside DEF MoveTask, Fail
<1>6. ASSUME NEW r \in Request, \/ TakeOver(r) \/ Wait(r) \/ Queue(r) \/ CancelTask(r) \/ Release(r)
      PROVE  Stutter
  BY <1>5, <1>6 DEF TakeOver, Wait, Queue, CancelTask, Release
<1>7. ASSUME NEW r \in Request,
             \/ \E t \in Task, w \in Workflow : DispatchRead(r, t, w)
             \/ \E a \in Approval, approved \in BOOLEAN : DecideRead(r, a, approved)
             \/ CreatePending(r) \/ ReadTask(r) \/ Reject(r) \/ Complete(r)
      PROVE  Stutter
  BY <1>7, Aside DEF DispatchRead, DecideRead, CreatePending, ReadTask, Reject, Complete, Resolve,
                     Fail
<1>8. CASE UNCHANGED vars \/ Tick \/ Restart \/ \E t \in Task, target \in TaskState : Elsewhere(t, target)
  BY <1>8, Aside DEF vars, ownVars, Tick, Restart, Elsewhere
<1>9. CASE ANext
  <2> HIDE DEF Stutter
  <2> QED BY <1>1, <1>2, <1>3, <1>4, <1>6, <1>7, <1>8, <1>9, TaskStateValues DEF ANext, Clear!Next
<1> QED BY <1>8, <1>9

\* The dispatch service implements the clearance of actions: an approval is asked for, granted
\* or denied once, and its action carried out at most once and only when granted.
THEOREM ApprovalsImplementClearance == ASpec => ClearanceSpec
<1>1. AInv /\ [ANext]_vars => [Clear!Next]_(Clear!vars)
  BY ClearStep
<1> QED BY ClearInit, <1>1, Invariant, PTL DEF ASpec, ClearanceSpec, Clear!Spec
=============================================================================
