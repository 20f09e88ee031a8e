---------------------------- MODULE CommandLink ----------------------------
(***************************************************************************)
(* Control commands on their way from the operator to one phone: the table *)
(* device_commands (aishop/device_repository), the part of the heartbeat   *)
(* that acknowledges and delivers them (device_service.heartbeat), and on  *)
(* the phone HeartbeatCoordinator with the loop and the buttons of         *)
(* WorkerForegroundService.                                                *)
(*                                                                         *)
(* The loop and the buttons run on different threads and both read, copy   *)
(* and write the field coordinatorState without a lock.  The field is      *)
(* written to disk at the end of a round and when a button is pressed; a   *)
(* crash falls back to the disk.  What a job does to the phone is left to  *)
(* PhoneWorker: here a heartbeat is offered a job or not, fails or not.    *)
(***************************************************************************)
EXTENDS Naturals, FiniteSets

CONSTANTS
  NCommands,  \* command ids (uuid4), numbered in the order they are issued
  Handler,    \* server threads: how many heartbeats may be under way at once
  Orders,     \* the types of command the operator queues in this instance
  Emergency,  \* TRUE: the operator may stop everything
  Button,     \* the worker states a press of a button on the phone asks for
  Upsets,     \* "crash": the app dies; "refuse": heartbeat_job raises; "throw": a round
              \* ends in an exception after its job's step (the evidence upload fails)
  Impatient,  \* TRUE: the phone may time out while its heartbeat is being served
  None

Command == 1..NCommands

ASSUME CommandLinkAssumption ==
  /\ NCommands \in Nat \ {0}
  /\ Emergency \in BOOLEAN
  /\ Button \subseteq {"PAUSED", "IDLE", "TAKEOVER"}
  /\ Upsets \subseteq {"crash", "refuse", "throw"}
  /\ Impatient \in BOOLEAN
  /\ None \notin Handler

VARIABLES
  command,     \* [Command -> row: status ("NONE" before it is issued) and type]
  worker,      \* the field coordinatorState
  saved,       \* CoordinatorState on disk
  loop,        \* the heartbeat loop
  button,      \* the thread that serves the buttons
  link,        \* [Handler -> the heartbeat it serves]
  carriedOut   \* history: what the phone has carried out, <<command, type>>

serverVars == <<command, link>>
phoneVars == <<worker, saved, loop, button, carriedOut>>
lvars == <<serverVars, phoneVars>>

Type == {"PAUSE", "RESUME", "TAKEOVER", "STOP"}
Suspended == {"PAUSED", "TAKEOVER", "OFFLINE"}
WorkerState == Suspended \cup {"IDLE", "BUSY"}

\* The worker state each type of command asks for.
StateFor == [PAUSE |-> "PAUSED", RESUME |-> "IDLE", TAKEOVER |-> "TAKEOVER", STOP |-> "OFFLINE"]

\* CoordinatorState: workerState, lastAppliedCommandId, pendingAcknowledgementId.
Coordinator(state, last, ack) == [state |-> state, last |-> last, ack |-> ack]
Initial == Coordinator("IDLE", 0, 0)

\* The loop: where it is, the handler it waits for, the field's next value, whether a
\* job is offered and whether the round ends the service.
Loop(pc, by, next, offer, stop) ==
  [pc |-> pc, by |-> by, next |-> next, offer |-> offer, stop |-> stop]
At(pc) == Loop(pc, None, Initial, FALSE, FALSE)

\* A heartbeat: the state and acknowledgement it brings, the job and command it gets.
Beat(pc, state, ack, offer, c, type) ==
  [pc |-> pc, state |-> state, ack |-> ack, offer |-> offer, command |-> c, type |-> type]
Free == Beat("free", "IDLE", 0, FALSE, 0, "NONE")

Pending == {c \in Command : command[c].status = "PENDING"}
Unissued == {c \in Command : command[c].status = "NONE"}

LInit ==
  /\ command = [c \in Command |-> [status |-> "NONE", type |-> "NONE"]]
  /\ worker = Initial /\ saved = Initial
  /\ loop = At("idle")
  /\ button = [pc |-> "idle", copy |-> Initial]
  /\ link = [h \in Handler |-> Free]
  /\ carriedOut = {}

-----------------------------------------------------------------------------
(***************************************************************************)
(* The operator.                                                           *)
(***************************************************************************)
Issue(c, type) == command' = [command EXCEPT ![c] = [status |-> "PENDING", type |-> type]]

\* queue_command refuses while a command is pending.
QueueCommand(type) ==
  /\ type \in Orders
  /\ Pending = {}
  /\ \E c \in Unissued : (\A other \in Unissued : c <= other) /\ Issue(c, type)
  /\ UNCHANGED <<link, phoneVars>>

\* queue_emergency_stop turns a pending command into STOP, under the id it has.
EmergencyStop ==
  /\ Emergency
  /\ \/ \E c \in Pending : Issue(c, "STOP")
     \/ /\ Pending = {}
        /\ \E c \in Unissued : (\A other \in Unissued : c <= other) /\ Issue(c, "STOP")
  /\ UNCHANGED <<link, phoneVars>>

-----------------------------------------------------------------------------
(***************************************************************************)
(* The server's handler of a heartbeat, one transaction at a time.         *)
(***************************************************************************)
Handle(h, beat) == link' = [link EXCEPT ![h] = beat]

\* Mutant: the acknowledgement is taken for whatever command is pending.
ServeAckOfAny(h) ==
  LET b == link[h] IN
  /\ b.pc = "ack"
  /\ command' = [c \in Command |-> IF b.ack # 0 /\ c \in Pending
                                   THEN [command[c] EXCEPT !.status = "ACKNOWLEDGED"]
                                   ELSE command[c]]
  /\ Handle(h, Beat("job", b.state, b.ack, FALSE, 0, "NONE"))
  /\ UNCHANGED phoneVars

\* Mutant: the acknowledgement of a suspended phone is not looked at.
ServeAckFromReady(h) ==
  LET b == link[h] IN
  /\ b.pc = "ack"
  /\ command' = [c \in Command |-> IF c = b.ack /\ c \in Pending /\ b.state \notin Suspended
                                   THEN [command[c] EXCEPT !.status = "ACKNOWLEDGED"]
                                   ELSE command[c]]
  /\ Handle(h, Beat("job", b.state, b.ack, FALSE, 0, "NONE"))
  /\ UNCHANGED phoneVars

\* acknowledge_command: nothing happens unless the command is pending.
ServeAck(h) ==
  LET b == link[h] IN
  /\ b.pc = "ack"
  /\ command' = [c \in Command |-> IF c = b.ack /\ c \in Pending
                                   THEN [command[c] EXCEPT !.status = "ACKNOWLEDGED"]
                                   ELSE command[c]]
  /\ Handle(h, Beat("job", b.state, b.ack, FALSE, 0, "NONE"))
  /\ UNCHANGED phoneVars

\* heartbeat_job: it may raise, and gives a suspended phone no job.
ServeJob(h) ==
  LET b == link[h] IN
  /\ b.pc = "job"
  /\ \/ \E offer \in BOOLEAN :
          /\ offer => b.state \notin Suspended
          /\ Handle(h, Beat("fetch", b.state, b.ack, offer, 0, "NONE"))
     \/ "refuse" \in Upsets /\ Handle(h, Beat("refused", b.state, b.ack, FALSE, 0, "NONE"))
  /\ UNCHANGED <<command, phoneVars>>

\* Mutant: acknowledged commands are delivered too.
DeliverableEver(c) == command[c].status # "NONE"

\* The commands get_pending_command delivers.
Deliverable(c) == c \in Pending

ServeFetch(h) ==
  LET b == link[h] IN
  /\ b.pc = "fetch"
  /\ \/ \E c \in Command :
          /\ Deliverable(c)
          /\ Handle(h, Beat("answer", b.state, b.ack, b.offer, c, command[c].type))
     \/ /\ ~\E c \in Command : Deliverable(c)
        /\ Handle(h, Beat("answer", b.state, b.ack, b.offer, 0, "NONE"))
  /\ UNCHANGED <<command, phoneVars>>

\* The request or its answer does not arrive, or nobody waits for the answer.
Lose(h) ==
  /\ link[h].pc \in {"ack", "answer", "refused"}
  /\ Handle(h, Free)
  /\ UNCHANGED <<command, phoneVars>>

-----------------------------------------------------------------------------
(***************************************************************************)
(* The heartbeat loop.                                                     *)
(***************************************************************************)
Advance(next) == loop' = next /\ UNCHANGED <<saved, button>>

\* sendHeartbeat; after STOP one last one, of which only the acknowledgement matters.
SendHeartbeat(h) ==
  /\ loop.pc \in {"idle", "bye"}
  /\ link[h].pc = "free"
  /\ Handle(h, Beat("ack", worker.state, worker.ack, FALSE, 0, "NONE"))
  /\ Advance(Loop(IF loop.pc = "idle" THEN "waiting" ELSE "parting", h, Initial, FALSE, FALSE))
  /\ UNCHANGED <<command, worker, carriedOut>>

TimeOut ==
  /\ loop.pc = "waiting"
  /\ Impatient \/ link[loop.by].pc = "free"
  /\ Advance(At("idle"))
  /\ UNCHANGED <<serverVars, worker, carriedOut>>

ReceiveRefusal ==
  /\ loop.pc = "waiting" /\ link[loop.by].pc = "refused"
  /\ Handle(loop.by, Free)
  /\ Advance(At("idle"))
  /\ UNCHANGED <<command, worker, carriedOut>>

\* The service ends whether the last heartbeat got through or not.
Leave ==
  /\ loop.pc = "parting"
  /\ Advance(At("off"))
  /\ UNCHANGED <<serverVars, worker, carriedOut>>

\* Mutant: the type of the command becomes the state.
ReduceRaw(state, c, type) ==
  IF c = 0 THEN [state EXCEPT !.ack = 0]
  ELSE IF c = state.last THEN [state EXCEPT !.ack = c]
  ELSE Coordinator(type, c, c)

\* HeartbeatCoordinator.reduce: the field's next value.
Reduce(state, c, type) ==
  IF c = 0 THEN [state EXCEPT !.ack = 0]
  ELSE IF c = state.last THEN [state EXCEPT !.ack = c]
  ELSE Coordinator(StateFor[type], c, c)

Receive ==
  LET h == loop.by
      b == link[h]
  IN /\ loop.pc = "waiting" /\ b.pc = "answer"
     /\ Handle(h, Free)
     /\ Advance(Loop("reduced", None, Reduce(worker, b.command, b.type), b.offer,
                     b.type = "STOP" /\ b.command # worker.last))
     /\ carriedOut' = IF b.command \in {0, worker.last} THEN carriedOut
                      ELSE carriedOut \cup {<<b.command, b.type>>}
     /\ UNCHANGED <<command, worker>>

Assign ==
  /\ loop.pc = "reduced"
  /\ worker' = loop.next
  /\ Advance([loop EXCEPT !.pc = "check"])
  /\ UNCHANGED <<serverVars, carriedOut>>

\* Mutant: a job is taken up whatever the worker's state.
CheckOffer ==
  /\ loop.pc = "check"
  /\ Advance([loop EXCEPT !.pc = IF loop.offer THEN "busy" ELSE "save"])
  /\ UNCHANGED <<serverVars, worker, carriedOut>>

\* A job is taken up only by a worker that is not suspended.
Check ==
  LET takesUp == loop.offer /\ worker.state \notin Suspended
      done == ~loop.offer /\ worker.state = "BUSY"
  IN /\ loop.pc = "check"
     /\ \/ takesUp /\ Advance([loop EXCEPT !.pc = "busy"])
        \/ done /\ Advance([loop EXCEPT !.pc = "rest"])
        \/ ~takesUp /\ Advance([loop EXCEPT !.pc = "save"])
     /\ UNCHANGED <<serverVars, worker, carriedOut>>

\* The field is copied with BUSY, or with IDLE once there is no job and no result left.
Mark ==
  /\ loop.pc \in {"busy", "rest"}
  /\ worker' = [worker EXCEPT !.state = IF loop.pc = "busy" THEN "BUSY" ELSE "IDLE"]
  /\ Advance([loop EXCEPT !.pc = IF loop.pc = "busy" THEN "run" ELSE "save"])
  /\ UNCHANGED <<serverVars, carriedOut>>

\* A step of the job, and its evidence; an upload that fails ends the round.
Run ==
  /\ loop.pc = "run"
  /\ \/ Advance([loop EXCEPT !.pc = "save"])
     \/ "throw" \in Upsets /\ Advance(At("idle"))
  /\ UNCHANGED <<serverVars, worker, carriedOut>>

Save ==
  /\ loop.pc = "save"
  /\ saved' = worker
  /\ loop' = At(IF loop.stop THEN "bye" ELSE "idle")
  /\ UNCHANGED <<serverVars, worker, button, carriedOut>>

-----------------------------------------------------------------------------
(***************************************************************************)
(* The buttons (updateLocalState), the app's death and its return.         *)
(***************************************************************************)
Press(state) ==
  /\ state \in Button /\ button.pc = "idle"
  /\ button' = [pc |-> "write", copy |-> [worker EXCEPT !.state = state]]
  /\ UNCHANGED <<serverVars, worker, saved, loop, carriedOut>>

PressWrite ==
  /\ button.pc = "write"
  /\ worker' = button.copy
  /\ button' = [button EXCEPT !.pc = "save"]
  /\ UNCHANGED <<serverVars, saved, loop, carriedOut>>

\* A press that asks for IDLE starts the loop again where it had ended.
PressSave ==
  /\ button.pc = "save"
  /\ saved' = worker
  /\ loop' = IF loop.pc = "off" /\ button.copy.state = "IDLE" THEN At("idle") ELSE loop
  /\ button' = [pc |-> "idle", copy |-> Initial]
  /\ UNCHANGED <<serverVars, worker, carriedOut>>

\* Android restarts a service that died (START_STICKY).
Crash ==
  /\ "crash" \in Upsets /\ loop.pc # "off"
  /\ worker' = saved
  /\ loop' = At("idle")
  /\ button' = [pc |-> "idle", copy |-> Initial]
  /\ UNCHANGED <<serverVars, saved, carriedOut>>

\* A stopped service starts over from the disk when somebody opens it.
Start ==
  /\ loop.pc = "off" /\ button.pc = "idle"
  /\ worker' = saved
  /\ loop' = At("idle")
  /\ UNCHANGED <<serverVars, saved, button, carriedOut>>

-----------------------------------------------------------------------------
Served(h) == ServeAck(h) \/ ServeJob(h) \/ ServeFetch(h)

LoopOn == Receive \/ ReceiveRefusal \/ Assign \/ Check \/ Mark \/ Run \/ Save \/ Leave

LNext ==
  \/ \E type \in Type : QueueCommand(type)
  \/ EmergencyStop
  \/ \E h \in Handler : Served(h) \/ Lose(h) \/ SendHeartbeat(h)
  \/ TimeOut \/ LoopOn
  \/ \E state \in Button : Press(state)
  \/ PressWrite \/ PressSave
  \/ Crash \/ Start

LSpec == LInit /\ [][LNext]_lvars

\* The loop keeps going round, heartbeats are served, and some answers get through.
\* Nobody has to press a button, start the app, or lose a message.
LFairness ==
  /\ WF_lvars(\E h \in Handler : SendHeartbeat(h))
  /\ WF_lvars(TimeOut) /\ WF_lvars(LoopOn) /\ SF_lvars(Receive)
  /\ WF_lvars(PressWrite \/ PressSave)
  /\ \A h \in Handler : WF_lvars(Served(h)) /\ SF_lvars(Served(h))
  /\ \A h \in Handler : WF_lvars(loop.by # h /\ Lose(h))

\* What upsets a round comes to an end: the app's deaths, heartbeat_job's refusals,
\* answers later than the phone's timeout, a finger on the buttons.  (A crash that loses
\* nothing is the same step as the end of a round and does not count.)
Upset ==
  \/ Crash /\ ~LoopOn /\ ~TimeOut
  \/ \E h \in Handler : ServeJob(h) /\ link'[h].pc = "refused"
  \/ TimeOut /\ link[loop.by].pc # "free"
  \/ \E state \in Button : Press(state)

Calm == <>[][~Upset]_lvars

LFairSpec == LSpec /\ LFairness /\ Calm

-----------------------------------------------------------------------------
(***************************************************************************)
(* Properties                                                              *)
(***************************************************************************)
CoordinatorState == [state : WorkerState, last : Command \cup {0}, ack : Command \cup {0}]

LTypeOK ==
  /\ command \in [Command -> [status : {"NONE", "PENDING", "ACKNOWLEDGED"},
                              type : Type \cup {"NONE"}]]
  /\ worker \in CoordinatorState /\ saved \in CoordinatorState
  /\ loop \in [pc : {"idle", "waiting", "reduced", "check", "busy", "rest", "run", "save",
                     "bye", "parting", "off"},
               by : Handler \cup {None}, next : CoordinatorState,
               offer : BOOLEAN, stop : BOOLEAN]
  /\ button \in [pc : {"idle", "write", "save"}, copy : CoordinatorState]
  /\ link \in [Handler -> [pc : {"free", "ack", "job", "fetch", "answer", "refused"},
                           state : WorkerState, ack : Command \cup {0}, offer : BOOLEAN,
                           command : Command \cup {0}, type : Type \cup {"NONE"}]]
  /\ carriedOut \subseteq Command \X Type

\* What the operator is told was carried out: a command is acknowledged only once the
\* phone has carried out that command as the operator gave it, however many heartbeats
\* were lost, late or repeated and wherever the app died.
AcknowledgedWasCarriedOut ==
  \A c \in Command :
    command[c].status = "ACKNOWLEDGED" => <<c, command[c].type>> \in carriedOut

\* Commands are carried out in the order they were given: a late or repeated answer, a
\* lost field or a return to the disk never brings an older command back over a newer one.
CarriedOutInOrder ==
  [][loop.pc = "waiting" /\ loop'.pc = "reduced" /\ loop'.next.last # worker.last
       => \A old \in carriedOut : old[1] <= loop'.next.last]_lvars

\* The last command the operator gave.
Last(c) == c \in Command \ Unissued /\ \A other \in Command \ Unissued : other <= c

\* The last command the phone has acknowledged stays in force until the operator gives
\* another: told to pause, hand over or stop it takes up no step of a job, told to resume
\* it is ready for one; lost fields, failed rounds and a return to the disk change nothing.
CommandHolds ==
  \A c \in Command : Last(c) /\ command[c].status = "ACKNOWLEDGED" =>
    IF StateFor[command[c].type] \in Suspended
    THEN worker.state \in Suspended /\ loop.pc \notin {"busy", "run"}
    ELSE worker.state \notin Suspended

\* A command is delivered again and again until the phone acknowledges it.  (After STOP
\* the phone is silent until somebody starts it.)
CommandsGetThrough ==
  \A c \in Command :
    command[c].status = "PENDING" ~> command[c].status = "ACKNOWLEDGED" \/ loop.pc = "off"

=============================================================================
