------------------------------ MODULE TaskStore ------------------------------
(***************************************************************************)
(* The task store (aishop/repository.py) and its state graph               *)
(* (aishop/state_machine.py).  A transition names the version its caller   *)
(* read and an idempotency key; the store applies it once, in one SQLite   *)
(* transaction, or answers with the row as it is, or refuses.              *)
(***************************************************************************)
EXTENDS Naturals, FiniteSets

CONSTANT Task

VARIABLES
  taskState,    \* [Task -> state, "NONE" before create_task]
  taskVersion,  \* [Task -> Nat]
  taskEvents    \* idempotency keys of task_events: <<task, key>>

taskVars == <<taskState, taskVersion, taskEvents>>

TerminalState == {"SUCCEEDED", "FAILED", "CANCELLED"}

\* TRANSITIONS: where a task may go from each state.
Successors ==
  [RECEIVED         |-> {"PLANNING", "CANCELLED"},
   PLANNING         |-> {"WAITING_APPROVAL", "QUEUED", "HUMAN_TAKEOVER", "FAILED", "CANCELLED"},
   WAITING_APPROVAL |-> {"QUEUED", "CANCELLED"},
   QUEUED           |-> {"ASSIGNED", "CANCELLED"},
   ASSIGNED         |-> {"EXECUTING", "QUEUED", "CANCELLED"},
   EXECUTING        |-> {"VERIFYING", "RETRY_WAIT", "HUMAN_TAKEOVER", "FAILED", "CANCELLED"},
   VERIFYING        |-> {"SUCCEEDED", "RETRY_WAIT", "HUMAN_TAKEOVER", "FAILED", "CANCELLED"},
   RETRY_WAIT       |-> {"QUEUED", "FAILED", "CANCELLED"},
   HUMAN_TAKEOVER   |-> {"QUEUED", "FAILED", "CANCELLED"},
   SUCCEEDED        |-> {},
   FAILED           |-> {},
   CANCELLED        |-> {}]

TaskState == DOMAIN Successors

TaskInit ==
  /\ taskState = [t \in Task |-> "NONE"]
  /\ taskVersion = [t \in Task |-> 0]
  /\ taskEvents = {}

\* create_task; a second call with the same key returns the task and changes nothing.
CreateTask(t) ==
  /\ taskState[t] = "NONE"
  /\ taskState' = [taskState EXCEPT ![t] = "RECEIVED"]
  /\ taskVersion' = [taskVersion EXCEPT ![t] = 1]
  /\ taskEvents' = taskEvents \cup {<<t, <<"received">>>>}

\* The key was used before: transition answers with the current row.
Replayed(t, key) == <<t, key>> \in taskEvents

\* Mutant: a key that was used before is not recognised.
AcceptedAgain(t, version, target, key) ==
  /\ taskState[t] # "NONE"
  /\ taskVersion[t] = version
  /\ target \in Successors[taskState[t]]

Accepted(t, version, target, key) ==
  /\ ~Replayed(t, key)
  /\ taskState[t] # "NONE"
  /\ taskVersion[t] = version
  /\ target \in Successors[taskState[t]]

\* VersionConflict or InvalidTransition: the caller gets an exception.
Refused(t, version, target, key) ==
  ~Replayed(t, key) /\ ~Accepted(t, version, target, key)

Transition(t, version, target, key) ==
  /\ Accepted(t, version, target, key)
  /\ taskState' = [taskState EXCEPT ![t] = target]
  /\ taskVersion' = [taskVersion EXCEPT ![t] = @ + 1]
  /\ taskEvents' = taskEvents \cup {<<t, key>>}
=============================================================================
