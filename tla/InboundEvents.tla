---------------------------- MODULE InboundEvents ----------------------------
(***************************************************************************)
(* Notifications on their way to a task: CommerceNotificationListener puts *)
(* them into the queue WorkerPreferences.kt keeps on disk, the heartbeat   *)
(* loop uploads the oldest one a round, and aishop/inbound_events.py       *)
(* records it and makes a task of it, in three transactions.  The          *)
(* endpoint asks for the token DeviceRegistry describes.                   *)
(*                                                                         *)
(* Listener and loop run on different threads and both read, change and    *)
(* write the queue without a common lock.  Task, of the task store, is the *)
(* set of event identities: create_task gets the key "event:<identity>".   *)
(***************************************************************************)
EXTENDS DeviceRegistry, TaskStore, Sequences

CONSTANTS
  Event,       \* notifications: an identity and a payload
  IdentityOf,  \* [Event -> Task]
  Known,       \* the identities whose source is in SOURCES
  Capacity     \* the hundred events the queue keeps

ASSUME InboundAssumption ==
  /\ IdentityOf \in [Event -> Task]
  /\ Known \subseteq Task
  /\ Capacity \in Nat \ {0}
  /\ None \notin Event

VARIABLES
  queue,     \* pending_inbound_events
  listener,  \* the thread that enqueues: the queue's next value, or <<>>
  removal,   \* the loop's: the event it removes and the queue's next value
  events     \* [Task -> row of inbound_events; payload None: there is none]

intakeVars == <<queue, listener, removal, events>>
ivars == <<rvars, taskVars, intakeVars>>

Removal(event, next) == [event |-> event, next |-> next]

IInit ==
  /\ RInit /\ TaskInit
  /\ queue = <<>> /\ listener = <<>> /\ removal = Removal(None, <<>>)
  /\ events = [i \in Task |-> [payload |-> None, linked |-> FALSE]]

Row(payload, linked) == [payload |-> payload, linked |-> linked]
Recorded(i) == events[i].payload # None

-----------------------------------------------------------------------------
(***************************************************************************)
(* The phone.                                                              *)
(***************************************************************************)
\* Mutant: the queue grows without a limit.
Unbounded(q) == q

\* takeLast: a full queue gives up its oldest entries.
Bounded(q) == IF Len(q) > Capacity THEN SubSeq(q, Len(q) - Capacity + 1, Len(q)) ELSE q

\* enqueueInboundEvent reads the queue ...
EnqueueRead(e) ==
  /\ listener = <<>>
  /\ listener' = Bounded(IF \E n \in DOMAIN queue : IdentityOf[queue[n]] = IdentityOf[e]
                         THEN queue ELSE Append(queue, e))
  /\ UNCHANGED <<rvars, taskVars, queue, removal, events>>

\* ... and writes it.
EnqueueWrite ==
  /\ listener # <<>>
  /\ queue' = listener
  /\ listener' = <<>>
  /\ UNCHANGED <<rvars, taskVars, removal, events>>

\* The round goes on without an upload.
NothingToUpload ==
  /\ loop.pc = "pick" /\ queue = <<>>
  /\ loop' = Idle
  /\ UNCHANGED <<registryVars, phone, pairing, calls, taskVars, intakeVars>>

UploadEvent(c) ==
  /\ loop.pc = "pick" /\ queue # <<>>
  /\ Send(c, Request("event", "sent", loop.token, Head(queue)))
  /\ loop' = Round("upload", c, loop.token)
  /\ UNCHANGED <<registryVars, phone, pairing, taskVars, intakeVars>>

\* filterNot: the entries under other identities, as they come.
Others(q, e) ==
  LET kept[n \in 0..Len(q)] ==
        IF n = 0 THEN <<>>
        ELSE IF IdentityOf[q[n]] = IdentityOf[e] THEN kept[n - 1]
        ELSE Append(kept[n - 1], q[n])
  IN kept[Len(q)]

\* Mutant: the event counts as delivered when its upload fails.
AcknowledgeAnyAnswer(c) ==
  /\ loop.pc = "upload" /\ loop.by = c /\ calls[c].pc \in Served
  /\ removal' = Removal(calls[c].arg, Others(queue, calls[c].arg))
  /\ loop' = Round("write", None, 0) /\ Take(c)
  /\ UNCHANGED <<registryVars, phone, pairing, taskVars, queue, listener, events>>

\* acknowledgeInboundEvent reads the queue when the upload succeeded ...
AcknowledgeRead(c) ==
  /\ loop.pc = "upload" /\ loop.by = c /\ calls[c].pc = "answered"
  /\ removal' = Removal(calls[c].arg, Others(queue, calls[c].arg))
  /\ loop' = Round("write", None, 0) /\ Take(c)
  /\ UNCHANGED <<registryVars, phone, pairing, taskVars, queue, listener, events>>

\* ... and writes it.
AcknowledgeWrite ==
  /\ loop.pc = "write"
  /\ queue' = removal.next
  /\ loop' = Idle /\ removal' = Removal(None, <<>>)
  /\ UNCHANGED <<registryVars, phone, pairing, calls, taskVars, listener, events>>

\* The app dies; what it waited for, and a write it had not made, are gone.
Crash ==
  /\ loop # Idle \/ pairing # None \/ listener # <<>>
  /\ loop' = Idle /\ pairing' = None /\ listener' = <<>> /\ removal' = Removal(None, <<>>)
  /\ calls' = [c \in Call |-> IF Awaited(c) /\ calls[c].pc \in Served THEN Free ELSE calls[c]]
  /\ UNCHANGED <<registryVars, phone, taskVars, queue, events>>

-----------------------------------------------------------------------------
(***************************************************************************)
(* ingest, one transaction at a time.                                      *)
(***************************************************************************)
\* Mutant: a quarantined event goes on to a task.
IngestTrusting(c) ==
  LET e == calls[c].arg  i == IdentityOf[e] IN
  /\ At(c, "event", "authenticated")
  /\ \/ events[i].payload = e /\ Answer(c, "answered") /\ UNCHANGED events
     \/ events[i].payload \notin {e, None} /\ Answer(c, "refused") /\ UNCHANGED events
     \/ /\ ~Recorded(i)
        /\ events' = [events EXCEPT ![i] = Row(e, FALSE)]
        /\ Proceed(c, "recorded")
  /\ UNCHANGED <<registryVars, phoneVars, taskVars, queue, listener, removal>>

\* The first transaction: a repetition is answered with the row, another payload under
\* the same identity is refused, an unknown source goes into quarantine.
IngestRecord(c) ==
  LET e == calls[c].arg  i == IdentityOf[e] IN
  /\ At(c, "event", "authenticated")
  /\ \/ events[i].payload = e /\ Answer(c, "answered") /\ UNCHANGED events
     \/ events[i].payload \notin {e, None} /\ Answer(c, "refused") /\ UNCHANGED events
     \/ /\ ~Recorded(i)
        /\ events' = [events EXCEPT ![i] = Row(e, FALSE)]
        /\ \/ i \in Known /\ Proceed(c, "recorded")
           \/ i \notin Known /\ Answer(c, "answered")
  /\ UNCHANGED <<registryVars, phoneVars, taskVars, queue, listener, removal>>

IngestCreate(c) ==
  /\ At(c, "event", "recorded")
  /\ CreateTask(IdentityOf[calls[c].arg])
  /\ Proceed(c, "created")
  /\ UNCHANGED <<registryVars, phoneVars, intakeVars>>

IngestLink(c) ==
  /\ At(c, "event", "created")
  /\ events' = [events EXCEPT ![IdentityOf[calls[c].arg]].linked = TRUE]
  /\ Answer(c, "answered")
  /\ UNCHANGED <<registryVars, phoneVars, taskVars, queue, listener, removal>>

INext ==
  \/ RegistryNext /\ UNCHANGED <<taskVars, intakeVars>>
  \/ \E e \in Event : EnqueueRead(e)
  \/ EnqueueWrite \/ NothingToUpload \/ AcknowledgeWrite \/ Crash
  \/ \E c \in Call : UploadEvent(c) \/ AcknowledgeRead(c)
                     \/ IngestRecord(c) \/ IngestCreate(c) \/ IngestLink(c)

ISpec == IInit /\ [][INext]_ivars

-----------------------------------------------------------------------------
\* The tables, the phone's disk, its threads and the requests have their types.
ITypeOK ==
  /\ session \in [Code -> {"none", "open", "expired", "used"}]
  /\ tokens \in Nat /\ rotations \in 0..MaxRotations
  /\ row \in [token : 0..tokens, valid : BOOLEAN, sequence : 0..MaxBeats]
  /\ phone \in [token : 0..tokens, sequence : 0..MaxBeats]
  /\ pairing \in Call \cup {None}
  /\ \/ loop = Idle
     \/ loop \in [pc : {"beat", "upload"}, by : Call, token : 1..tokens]
     \/ loop \in [pc : {"pick"}, by : {None}, token : 1..tokens]
     \/ loop = Round("write", None, 0)
  /\ \A c \in Call :
       \/ calls[c] = Free
       \/ calls[c] \in [kind : {"pair"}, pc : {"sent", "consumed"} \cup Served, token : 0..tokens, arg : Code]
       \/ calls[c] \in [kind : {"beat"}, pc : {"sent", "authenticated"} \cup Served,
                        token : 1..tokens, arg : 1..MaxBeats]
       \/ calls[c] \in [kind : {"event"}, pc : {"sent", "authenticated", "recorded", "created"} \cup Served,
                        token : 1..tokens, arg : Event]
  /\ removal.event \in Event \cup {None}
  /\ \A q \in {queue, listener, removal.next} : q \in Seq(Event) /\ Len(q) <= Capacity
  /\ events \in [Task -> [payload : Event \cup {None}, linked : BOOLEAN]]
  /\ taskState \in [Task -> {"NONE", "RECEIVED"}]

(***************************************************************************)
(* The upload on whose answer the phone clears its queue is recorded with  *)
(* that very payload, whatever was lost or repeated before.  This speaks   *)
(* of the uploaded event alone: acknowledgeInboundEvent drops every entry  *)
(* of its identity, also one of another payload, which was never recorded  *)
(* (the server refuses it from then on), and takeLast or the other         *)
(* thread's write may drop any.                                            *)
(***************************************************************************)
AcknowledgedIsStored ==
  removal.event # None => events[IdentityOf[removal.event]].payload = removal.event

(***************************************************************************)
(* Every task made of an event belongs to a recorded event of a known      *)
(* source, a link leads to a task, and no two handlers make the task of    *)
(* one event, however often its upload was repeated.                       *)
(***************************************************************************)
RoutedTogether ==
  /\ \A i \in Task :
       /\ taskState[i] # "NONE" => Recorded(i) /\ i \in Known
       /\ events[i].linked => taskState[i] # "NONE"
  /\ \A c, d \in Call :
       /\ calls[c].pc \in {"recorded", "created"} /\ calls[d].pc \in {"recorded", "created"}
       /\ IdentityOf[calls[c].arg] = IdentityOf[calls[d].arg]
       => c = d

(***************************************************************************)
(* What is recorded stays: a late heartbeat or a new pairing does not take *)
(* the phone's sequence back, and a repeated notification neither changes  *)
(* its event nor takes the task from it (docs/real-device-validation.md:   *)
(* repeated notifications make no second task).                            *)
(***************************************************************************)
RecordsStand ==
  [][/\ row'.sequence >= row.sequence
     /\ \A i \in Task : Recorded(i) =>
          events'[i] \in {events[i], [events[i] EXCEPT !.linked = TRUE]}]_ivars
=============================================================================
