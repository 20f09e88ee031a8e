------------------------- MODULE CommandLink_proofs -------------------------
(***************************************************************************)
(* What holds of CommandLink for any number of commands and server threads *)
(* and whatever is lost, late, pressed or crashed: its types, and that a   *)
(* command acknowledged was carried out as given, as long as no emergency  *)
(* stop rewrites a pending command.                                        *)
(***************************************************************************)
EXTENDS CommandLink, TLAPS

\* Issued commands have a type, a heartbeat carries the type of its command, and the
\* loop waits for a thread.
Typed ==
  /\ \A c \in Command : command[c].status # "NONE" => command[c].type \in Type
  /\ \A h \in Handler : link[h].command # 0 => link[h].type \in Type
  /\ loop.pc = "waiting" => loop.by \in Handler

TypeInv == LTypeOK /\ Typed

LEMMA StateForType ==
  ASSUME NEW type \in Type
  PROVE  StateFor[type] \in WorkerState
  BY DEF Type, StateFor, WorkerState, Suspended

LEMMA InitialTyped == Initial \in CoordinatorState
  BY DEF Initial, Coordinator, CoordinatorState, WorkerState, Suspended

\* Loop records built by At are of the loop's type.
LoopType ==
  [pc : {"idle", "waiting", "reduced", "check", "busy", "rest", "run", "save",
         "bye", "parting", "off"},
   by : Handler \cup {None}, next : CoordinatorState, offer : BOOLEAN, stop : BOOLEAN]

BeatType ==
  [pc : {"free", "ack", "job", "fetch", "answer", "refused"},
   state : WorkerState, ack : Command \cup {0}, offer : BOOLEAN,
   command : Command \cup {0}, type : Type \cup {"NONE"}]

CommandType ==
  [Command -> [status : {"NONE", "PENDING", "ACKNOWLEDGED"}, type : Type \cup {"NONE"}]]

LEMMA AtTyped ==
  ASSUME NEW pc \in {"idle", "bye", "off"}
  PROVE  At(pc) \in LoopType /\ At(pc).pc # "waiting"
  BY InitialTyped DEF At, Loop, LoopType

LEMMA FreeTyped == Free \in BeatType
  BY DEF Free, Beat, BeatType, WorkerState, Suspended

THEOREM LinkTypeInit == LInit => TypeInv
  <1> SUFFICES ASSUME LInit PROVE TypeInv
    OBVIOUS
  <1>1. loop \in LoopType /\ loop.pc # "waiting"
    BY AtTyped DEF LInit
  <1>2. \A h \in Handler : link[h] = Free /\ Free.command = 0
    BY DEF LInit, Free, Beat
  <1>3. link \in [Handler -> BeatType]
    BY FreeTyped DEF LInit
  <1> QED
    BY <1>1, <1>2, <1>3, InitialTyped
    DEF LInit, TypeInv, LTypeOK, Typed, LoopType, BeatType, WorkerState, Suspended

THEOREM LinkTypeStep == TypeInv /\ [LNext]_lvars => TypeInv'
  <1> SUFFICES ASSUME TypeInv, [LNext]_lvars PROVE TypeInv'
    OBVIOUS
  <1> USE CommandLinkAssumption
  <1>t. /\ command \in CommandType
        /\ worker \in CoordinatorState /\ saved \in CoordinatorState
        /\ loop \in LoopType
        /\ button \in [pc : {"idle", "write", "save"}, copy : CoordinatorState]
        /\ link \in [Handler -> BeatType]
        /\ carriedOut \subseteq Command \X Type
        /\ Typed
    BY DEF TypeInv, LTypeOK, LoopType, BeatType, CommandType
  <1>q. /\ command' \in CommandType
        /\ worker' \in CoordinatorState /\ saved' \in CoordinatorState
        /\ loop' \in LoopType
        /\ button' \in [pc : {"idle", "write", "save"}, copy : CoordinatorState]
        /\ link' \in [Handler -> BeatType]
        /\ carriedOut' \subseteq Command \X Type
        /\ Typed'
        => TypeInv'
    BY DEF TypeInv, LTypeOK, LoopType, BeatType, CommandType
  <1>1. ASSUME NEW type \in Type, QueueCommand(type) PROVE TypeInv'
    BY <1>1, <1>t, <1>q
    DEF QueueCommand, Issue, Unissued, Typed, CommandType, phoneVars
  <1>2. CASE EmergencyStop
    <2>1. "STOP" \in Type
      BY DEF Type
    <2>2. PICK c \in Command : Issue(c, "STOP")
      BY <1>2 DEF EmergencyStop, Pending, Unissued
    <2> QED
      BY <2>1, <2>2, <1>2, <1>t, <1>q DEF EmergencyStop, Issue, Typed, CommandType, phoneVars
  <1>3. ASSUME NEW h \in Handler, ServeAck(h) PROVE TypeInv'
    <2>1. command' \in CommandType /\ \A c \in Command :
            /\ command'[c].type = command[c].type
            /\ command'[c].status # "NONE" => command[c].status # "NONE"
      BY <1>3, <1>t DEF ServeAck, Pending, CommandType
    <2>2. link' \in [Handler -> BeatType] /\ \A k \in Handler :
            link'[k] = link[k] \/ link'[k].command = 0
      BY <1>3, <1>t DEF ServeAck, Handle, Beat, BeatType
    <2> QED
      BY <2>1, <2>2, <1>3, <1>t, <1>q DEF ServeAck, phoneVars, Typed
  <1>4. ASSUME NEW h \in Handler, ServeJob(h) PROVE TypeInv'
    <2> DEFINE b == link[h]
               fetch(offer) == Beat("fetch", b.state, b.ack, offer, 0, "NONE")
               refused == Beat("refused", b.state, b.ack, FALSE, 0, "NONE")
    <2>1. b \in BeatType
      BY <1>t
    <2>2. /\ \A offer \in BOOLEAN : fetch(offer) \in BeatType /\ fetch(offer).command = 0
          /\ refused \in BeatType /\ refused.command = 0
      BY <2>1 DEF Beat, BeatType
    <2>3. (\E offer \in BOOLEAN : Handle(h, fetch(offer))) \/ Handle(h, refused)
      BY <1>4, Zenon DEF ServeJob
    <2> HIDE DEF b, fetch, refused
    <2>4. link' \in [Handler -> BeatType] /\ \A k \in Handler :
            link'[k] = link[k] \/ link'[k].command = 0
      BY <2>2, <2>3, <1>t DEF Handle
    <2> QED
      BY <2>4, <1>4, <1>t, <1>q DEF ServeJob, phoneVars, Typed
  <1>5. ASSUME NEW h \in Handler, ServeFetch(h) PROVE TypeInv'
    <2>1. \A c \in Command : Deliverable(c) => command[c].type \in Type
      BY <1>t DEF Deliverable, Pending, Typed
    <2>2. link' \in [Handler -> BeatType] /\ \A k \in Handler :
            link'[k] = link[k] \/ link'[k].command = 0 \/ link'[k].type \in Type
      BY <2>1, <1>5, <1>t DEF ServeFetch, Handle, Beat, BeatType
    <2> QED
      BY <2>2, <1>5, <1>t, <1>q DEF ServeFetch, phoneVars, Typed
  <1>6. ASSUME NEW h \in Handler, Lose(h) PROVE TypeInv'
    <2>1. link' \in [Handler -> BeatType] /\ \A k \in Handler :
            link'[k] = link[k] \/ link'[k].command = 0
      BY <1>6, <1>t, FreeTyped DEF Lose, Handle, Free, Beat
    <2> QED
      BY <2>1, <1>6, <1>t, <1>q DEF Lose, phoneVars, Typed
  <1>7. ASSUME NEW h \in Handler, SendHeartbeat(h) PROVE TypeInv'
    <2>1. /\ link' \in [Handler -> BeatType]
          /\ \A k \in Handler : link'[k] = link[k] \/ link'[k].command = 0
      BY <1>7, <1>t DEF SendHeartbeat, Handle, Beat, BeatType, CoordinatorState
    <2>2. loop' \in LoopType /\ loop'.by \in Handler
      BY <1>7, InitialTyped DEF SendHeartbeat, Advance, Loop, LoopType
    <2> QED
      BY <2>1, <2>2, <1>7, <1>t, <1>q DEF SendHeartbeat, Advance, Typed
  <1>8. CASE TimeOut
    BY <1>8, <1>t, <1>q, AtTyped DEF TimeOut, Advance, serverVars, Typed
  <1>9. CASE Receive
    <2> DEFINE h == loop.by
               b == link[h]
    <2>0. loop.by \in Handler
      BY <1>9, <1>t DEF Receive, Typed
    <2>1. link' \in [Handler -> BeatType] /\ \A k \in Handler :
            link'[k] = link[k] \/ link'[k].command = 0
      BY <1>9, <1>t, FreeTyped DEF Receive, Handle, Free, Beat
    <2>2. b \in BeatType /\ (b.command # 0 => b.type \in Type)
      BY <2>0, <1>t, Zenon DEF Typed
    <2>3. Reduce(worker, b.command, b.type) \in CoordinatorState
      <3>1. CASE b.command = 0 \/ b.command = worker.last
        BY <3>1, <2>2, <1>t DEF Reduce, CoordinatorState, BeatType
      <3>2. CASE b.command # 0 /\ b.command # worker.last
        <4>1. StateFor[b.type] \in WorkerState
          BY <3>2, <2>2, StateForType
        <4> QED
          BY <3>2, <4>1, <2>2 DEF Reduce, Coordinator, CoordinatorState, BeatType
      <3> QED
        BY <3>1, <3>2
    <2>4. loop' \in LoopType /\ loop'.pc # "waiting"
      BY <1>9, <2>2, <2>3 DEF Receive, Advance, Loop, LoopType, BeatType
    <2>5. carriedOut' \subseteq Command \X Type
      BY <1>9, <1>t, <2>2 DEF Receive, BeatType
    <2> QED
      BY <1>9, <2>1, <2>4, <2>5, <1>t, <1>q DEF Receive, Advance, Typed
  <1>10. CASE ReceiveRefusal
    <2>1. link' \in [Handler -> BeatType] /\ \A k \in Handler :
            link'[k] = link[k] \/ link'[k].command = 0
      BY <1>10, <1>t, FreeTyped DEF ReceiveRefusal, Handle, Free, Beat
    <2> QED
      BY <1>10, <2>1, <1>t, <1>q, AtTyped DEF ReceiveRefusal, Advance, Typed
  <1>11. CASE Assign
    <2>1. worker' \in CoordinatorState /\ loop' \in LoopType /\ loop'.pc # "waiting"
      BY <1>11, <1>t DEF Assign, Advance, LoopType
    <2> QED
      BY <1>11, <2>1, <1>t, <1>q DEF Assign, Advance, serverVars, Typed
  <1>12. CASE Check
    <2>1. loop' \in LoopType /\ loop'.pc # "waiting"
      BY <1>12, <1>t DEF Check, Advance, LoopType
    <2> QED
      BY <1>12, <2>1, <1>t, <1>q DEF Check, Advance, serverVars, Typed
  <1>13. CASE Mark
    <2>1. worker' \in CoordinatorState /\ loop' \in LoopType /\ loop'.pc # "waiting"
      BY <1>13, <1>t DEF Mark, Advance, LoopType, CoordinatorState, WorkerState
    <2> QED
      BY <1>13, <2>1, <1>t, <1>q DEF Mark, Advance, serverVars, Typed
  <1>14. CASE Run
    <2>1. loop' \in LoopType /\ loop'.pc # "waiting"
      BY <1>14, <1>t, AtTyped DEF Run, Advance, LoopType
    <2> QED
      BY <1>14, <2>1, <1>t, <1>q DEF Run, Advance, serverVars, Typed
  <1>15. CASE Save
    BY <1>15, <1>t, <1>q, AtTyped DEF Save, serverVars, Typed
  <1>16. CASE Leave
    BY <1>16, <1>t, <1>q, AtTyped DEF Leave, Advance, serverVars, Typed
  <1>17. ASSUME NEW state \in Button, Press(state) PROVE TypeInv'
    <2>1. button' \in [pc : {"idle", "write", "save"}, copy : CoordinatorState]
      BY <1>17, <1>t DEF Press, CoordinatorState, WorkerState, Suspended
    <2> QED
      BY <1>17, <2>1, <1>t, <1>q DEF Press, serverVars, Typed
  <1>18. CASE PressWrite
    <2>1. /\ worker' \in CoordinatorState
          /\ button' \in [pc : {"idle", "write", "save"}, copy : CoordinatorState]
      BY <1>18, <1>t DEF PressWrite, CoordinatorState
    <2> QED
      BY <1>18, <2>1, <1>t, <1>q DEF PressWrite, serverVars, Typed
  <1>19. CASE PressSave
    BY <1>19, <1>t, <1>q, AtTyped, InitialTyped DEF PressSave, serverVars, Typed
  <1>20. CASE Crash
    BY <1>20, <1>t, <1>q, AtTyped, InitialTyped DEF Crash, serverVars, Typed
  <1>21. CASE Start
    BY <1>21, <1>t, <1>q, AtTyped DEF Start, serverVars, Typed
  <1>22. CASE UNCHANGED lvars
    BY <1>22, <1>t, <1>q DEF lvars, serverVars, phoneVars, Typed
  <1> QED
    BY <1>1, <1>2, <1>3, <1>4, <1>5, <1>6, <1>7, <1>8, <1>9, <1>10, <1>11, <1>12, <1>13,
       <1>14, <1>15, <1>16, <1>17, <1>18, <1>19, <1>20, <1>21, <1>22
    DEF LNext, LoopOn, Served

\* The state of the server, the messages and the phone are of their types throughout.
THEOREM LinkTypeCorrect == LSpec => []LTypeOK
  <1>1. TypeInv => LTypeOK
    BY DEF TypeInv
  <1> QED
    BY <1>1, LinkTypeInit, LinkTypeStep, PTL DEF LSpec

-----------------------------------------------------------------------------
(***************************************************************************)
(* Acknowledgements.  The phone notes a command, as applied last or as to  *)
(* be acknowledged, only when it has carried it out, and a row's type      *)
(* never changes once it is issued: so an acknowledgement on its way, on   *)
(* disk or in a field about to be written is honest about a row whenever   *)
(* it arrives.                                                             *)
(***************************************************************************)
Honest(c) ==
  c # 0 => command[c].status # "NONE" /\ <<c, command[c].type>> \in carriedOut

HonestState(state) == Honest(state.last) /\ Honest(state.ack)

HonestPhone ==
  /\ HonestState(worker) /\ HonestState(saved)
  /\ HonestState(loop.next) /\ HonestState(button.copy)

HonestLink ==
  \A h \in Handler :
    /\ Honest(link[h].ack)
    /\ link[h].command # 0 => /\ command[link[h].command].status # "NONE"
                              /\ command[link[h].command].type = link[h].type

Honesty == HonestPhone /\ HonestLink /\ AcknowledgedWasCarriedOut

LEMMA HonestInitial == HonestState(Initial) /\ HonestState(Initial)'
  BY DEF HonestState, Honest, Initial, Coordinator

LEMMA AtNext == ASSUME NEW pc PROVE At(pc).next = Initial
  BY DEF At, Loop

THEOREM HonestyInit == LInit => Honesty
  <1> SUFFICES ASSUME LInit PROVE Honesty
    OBVIOUS
  <1>1. HonestPhone
    BY HonestInitial, AtNext DEF LInit, HonestPhone
  <1>2. HonestLink
    BY DEF LInit, HonestLink, Honest, Free, Beat
  <1>3. AcknowledgedWasCarriedOut
    BY DEF LInit, AcknowledgedWasCarriedOut
  <1> QED
    BY <1>1, <1>2, <1>3 DEF Honesty

THEOREM HonestyStep ==
  ASSUME Emergency = FALSE, TypeInv, TypeInv', Honesty, [LNext]_lvars
  PROVE  Honesty'
  <1> USE CommandLinkAssumption
  <1>t. /\ command \in CommandType /\ command' \in CommandType
        /\ worker \in CoordinatorState /\ saved \in CoordinatorState
        /\ loop \in LoopType
        /\ button \in [pc : {"idle", "write", "save"}, copy : CoordinatorState]
        /\ link \in [Handler -> BeatType]
        /\ loop.pc = "waiting" => loop.by \in Handler
    BY DEF TypeInv, LTypeOK, LoopType, BeatType, CommandType, Typed
  <1>h. HonestPhone /\ HonestLink /\ AcknowledgedWasCarriedOut
    BY DEF Honesty
  \* No issued row loses its type, and nothing carried out is forgotten.
  <1> DEFINE Grows ==
        /\ \A c \in Command : command[c].status # "NONE" =>
             command'[c].status # "NONE" /\ command'[c].type = command[c].type
        /\ carriedOut \subseteq carriedOut'
  <1>g. Grows => \A c \in Command \cup {0} : Honest(c) => Honest(c)'
    BY DEF Honest
  \* The phone's notes stay honest when each is one the phone had, or is fresh.
  <1>p. ASSUME Grows, worker' = worker, saved' = saved,
               loop'.next \in {loop.next, Initial}, button' = button
        PROVE  HonestPhone'
    <2>1. HonestState(worker)' /\ HonestState(saved)' /\ HonestState(button.copy)'
      BY <1>p, <1>g, <1>t, <1>h DEF HonestPhone, HonestState, CoordinatorState
    <2>2. HonestState(loop.next)'
      <3>1. CASE loop'.next = loop.next
        BY <3>1, <1>p, <1>g, <1>t, <1>h DEF HonestPhone, HonestState, CoordinatorState, LoopType
      <3>2. CASE loop'.next = Initial
        BY <3>2, HonestInitial DEF HonestState, Honest, Initial, Coordinator
      <3> QED
        BY <3>1, <3>2, <1>p
    <2> QED
      BY <2>1, <2>2 DEF HonestPhone
  \* So do the messages when all but empty ones are as they were.
  <1>l. ASSUME Grows, \A h \in Handler : link'[h] = link[h] \/ (/\ link'[h].command = 0
                                                               /\ link'[h].ack \in {0, link[h].ack})
        PROVE  HonestLink'
    <2>1. ASSUME NEW h \in Handler PROVE Honest(link[h].ack)'
      <3>1. link'[h].ack = link[h].ack \/ link'[h].ack = 0
        BY <1>l
      <3>2. Honest(link[h].ack) /\ link[h].ack \in Command \cup {0}
        BY <1>t, <1>h DEF HonestLink, BeatType
      <3> QED
        BY <3>1, <3>2, <1>l, <1>g DEF Honest
    <2>2. ASSUME NEW h \in Handler, link'[h].command # 0
          PROVE  /\ command'[link'[h].command].status # "NONE"
                 /\ command'[link'[h].command].type = link'[h].type
      <3>1. link'[h] = link[h] /\ link[h].command \in Command
        BY <2>2, <1>l, <1>t DEF BeatType
      <3> QED
        BY <3>1, <2>2, <1>l, <1>h DEF HonestLink
    <2> QED
      BY <2>1, <2>2 DEF HonestLink
  <1>a. ASSUME Grows, \A c \in Command : command'[c].status = "ACKNOWLEDGED"
                                            => command[c].status = "ACKNOWLEDGED"
        PROVE  AcknowledgedWasCarriedOut'
    <2>1. ASSUME NEW c \in Command, command'[c].status = "ACKNOWLEDGED"
          PROVE  <<c, command'[c].type>> \in carriedOut'
      <3>1. command[c].status = "ACKNOWLEDGED"
        BY <2>1, <1>a
      <3>2. command'[c].type = command[c].type
        BY <3>1, <1>a
      <3> QED
        BY <3>1, <3>2, <1>a, <1>h DEF AcknowledgedWasCarriedOut
    <2> QED
      BY <2>1 DEF AcknowledgedWasCarriedOut
  <1>1. ASSUME NEW type \in Type, QueueCommand(type) PROVE Honesty'
    <2>1. Grows /\ \A c \in Command : command'[c].status = "ACKNOWLEDGED"
                                        => command[c].status = "ACKNOWLEDGED"
      BY <1>1, <1>t DEF QueueCommand, Issue, Unissued, CommandType, phoneVars
    <2> QED
      BY <2>1, <1>1, <1>p, <1>l, <1>a DEF QueueCommand, phoneVars, Honesty
  <1>2. CASE EmergencyStop
    BY <1>2 DEF EmergencyStop
  <1>3. ASSUME NEW h \in Handler, ServeAck(h) PROVE Honesty'
    <2>1. Grows
      BY <1>3, <1>t DEF ServeAck, CommandType, phoneVars, Pending
    <2>2. HonestPhone'
      BY <2>1, <1>3, <1>p DEF ServeAck, phoneVars
    <2>3. HonestLink'
      BY <2>1, <1>3, <1>l, <1>t DEF ServeAck, Handle, Beat
    <2>4. ASSUME NEW c \in Command, command'[c].status = "ACKNOWLEDGED"
          PROVE  <<c, command'[c].type>> \in carriedOut'
      <3>1. command[c].status = "ACKNOWLEDGED" \/ (c = link[h].ack /\ c \in Pending)
        BY <2>4, <1>3, <1>t DEF ServeAck, CommandType
      <3>2. CASE command[c].status = "ACKNOWLEDGED"
        BY <3>2, <2>1, <1>h DEF AcknowledgedWasCarriedOut
      <3>3. CASE c = link[h].ack /\ c \in Pending
        <4>1. c # 0
          BY <2>4 DEF Command
        <4>2. <<c, command[c].type>> \in carriedOut
          BY <4>1, <3>3, <1>h DEF HonestLink, Honest
        <4> QED
          BY <4>2, <3>3, <2>1 DEF Pending
      <3> QED
        BY <3>1, <3>2, <3>3
    <2>5. AcknowledgedWasCarriedOut'
      BY <2>4 DEF AcknowledgedWasCarriedOut
    <2> QED
      BY <2>2, <2>3, <2>5 DEF Honesty
  <1>4. ASSUME NEW h \in Handler, ServeJob(h) PROVE Honesty'
    <2>1. Grows
      BY <1>4 DEF ServeJob, phoneVars
    <2> DEFINE b == link[h]
               fetch(offer) == Beat("fetch", b.state, b.ack, offer, 0, "NONE")
               refused == Beat("refused", b.state, b.ack, FALSE, 0, "NONE")
    <2>2. /\ \A offer \in BOOLEAN : fetch(offer).command = 0 /\ fetch(offer).ack = b.ack
          /\ refused.command = 0 /\ refused.ack = b.ack
      BY DEF Beat
    <2>3. (\E offer \in BOOLEAN : Handle(h, fetch(offer))) \/ Handle(h, refused)
      BY <1>4, Zenon DEF ServeJob
    <2> HIDE DEF fetch, refused
    <2>4. HonestLink'
      BY <2>1, <2>2, <2>3, <1>l, <1>t DEF Handle
    <2> QED
      BY <2>1, <2>4, <1>4, <1>p, <1>a DEF ServeJob, phoneVars, Honesty
  <1>5. ASSUME NEW h \in Handler, ServeFetch(h) PROVE Honesty'
    <2>1. Grows
      BY <1>5 DEF ServeFetch, phoneVars
    <2>2. \A k \in Handler :
            \/ link'[k] = link[k]
            \/ link'[k].command = 0 /\ link'[k].ack = link[k].ack
            \/ /\ link'[k].command \in Pending /\ link'[k].ack = link[k].ack
               /\ link'[k].type = command[link'[k].command].type
      BY <1>5, <1>t DEF ServeFetch, Handle, Beat, Deliverable
    <2>3. HonestLink'
      BY <2>1, <2>2, <1>5, <1>g, <1>t, <1>h
      DEF HonestLink, Honest, BeatType, Pending, ServeFetch, phoneVars
    <2> QED
      BY <2>1, <2>3, <1>5, <1>p, <1>a DEF ServeFetch, phoneVars, Honesty
  <1>6. ASSUME NEW h \in Handler, Lose(h) PROVE Honesty'
    <2>1. Grows
      BY <1>6 DEF Lose, phoneVars
    <2>2. HonestLink'
      BY <2>1, <1>6, <1>l, <1>t DEF Lose, Handle, Free, Beat
    <2> QED
      BY <2>1, <2>2, <1>6, <1>p, <1>a DEF Lose, phoneVars, Honesty
  <1>7. ASSUME NEW h \in Handler, SendHeartbeat(h) PROVE Honesty'
    <2>1. Grows
      BY <1>7 DEF SendHeartbeat
    <2>2. loop'.next = Initial
      BY <1>7 DEF SendHeartbeat, Advance, Loop
    <2>3. \A k \in Handler :
            link'[k] = link[k] \/ (link'[k].command = 0 /\ link'[k].ack = worker.ack)
      BY <1>7, <1>t DEF SendHeartbeat, Handle, Beat
    <2>4. HonestLink'
      BY <2>1, <2>3, <1>7, <1>g, <1>t, <1>h
      DEF HonestLink, HonestPhone, HonestState, Honest, SendHeartbeat
    <2> QED
      BY <2>1, <2>2, <2>4, <1>7, <1>p, <1>a DEF SendHeartbeat, Advance, Honesty
  <1>8. CASE TimeOut
    BY <1>8, <1>p, <1>l, <1>a, AtNext DEF TimeOut, Advance, serverVars, Honesty
  <1>9. CASE Receive
    <2> DEFINE b == link[loop.by]
    <2>0. b \in BeatType /\ Honest(b.ack) /\ loop.by \in Handler
      BY <1>9, <1>t, <1>h DEF Receive, HonestLink
    <2>1. Grows
      BY <1>9 DEF Receive
    <2>2. HonestLink'
      BY <2>1, <1>9, <1>l, <1>t DEF Receive, Handle, Free, Beat
    <2>3. loop'.next = Reduce(worker, b.command, b.type)
      BY <1>9 DEF Receive, Advance, Loop
    <2>4. HonestState(loop.next)'
      <3>0. Honest(worker.last)'
        BY <2>1, <1>9, <1>g, <1>h, <1>t
        DEF Receive, HonestPhone, HonestState, CoordinatorState, Honest
      <3>1. CASE b.command = 0
        <4>1. loop'.next.last = worker.last /\ loop'.next.ack = 0 /\ worker' = worker
          BY <3>1, <2>3, <1>9, <1>t DEF Reduce, CoordinatorState, Receive
        <4> QED
          BY <4>1, <3>0 DEF HonestState, Honest
      <3>2. CASE b.command # 0 /\ b.command = worker.last
        <4>1. /\ loop'.next.last = worker.last /\ loop'.next.ack = worker.last
              /\ worker' = worker
          BY <3>2, <2>3, <1>9, <1>t DEF Reduce, CoordinatorState, Receive
        <4> QED
          BY <4>1, <3>0 DEF HonestState, Honest
      <3>3. CASE b.command # 0 /\ b.command # worker.last
        <4>1. loop'.next.last = b.command /\ loop'.next.ack = b.command
          BY <3>3, <2>3 DEF Reduce, Coordinator
        <4>2. command[b.command].status # "NONE" /\ command[b.command].type = b.type
          BY <3>3, <2>0, <1>h DEF HonestLink
        <4>3. <<b.command, b.type>> \in carriedOut' /\ command' = command
          BY <3>3, <1>9 DEF Receive
        <4> QED
          BY <4>1, <4>2, <4>3 DEF HonestState, Honest
      <3> QED
        BY <3>1, <3>2, <3>3
    <2>5. HonestState(worker)' /\ HonestState(saved)' /\ HonestState(button.copy)'
      BY <2>1, <1>9, <1>g, <1>t, <1>h
      DEF Receive, Advance, HonestPhone, HonestState, CoordinatorState
    <2> QED
      BY <2>1, <2>2, <2>4, <2>5, <1>9, <1>a DEF Receive, HonestPhone, Honesty
  <1>10. CASE ReceiveRefusal
    <2>1. Grows
      BY <1>10 DEF ReceiveRefusal
    <2>2. HonestLink'
      BY <2>1, <1>10, <1>l, <1>t DEF ReceiveRefusal, Handle, Free, Beat
    <2> QED
      BY <2>1, <2>2, <1>10, <1>p, <1>a, AtNext DEF ReceiveRefusal, Advance, Honesty
  \* The remaining steps are the phone's own: rows, messages and history stay.
  <1>o. ASSUME UNCHANGED serverVars, carriedOut' = carriedOut, HonestPhone'
        PROVE  Honesty'
    BY <1>o, <1>l, <1>a DEF serverVars, Honesty
  <1>s. ASSUME UNCHANGED serverVars, carriedOut' = carriedOut,
               worker' \in {worker, saved, loop.next, button.copy}
                  \/ (worker'.last = worker.last /\ worker'.ack = worker.ack),
               saved' \in {saved, worker},
               loop'.next \in {loop.next, Initial},
               \/ button'.copy \in {button.copy, Initial}
               \/ button'.copy.last = worker.last /\ button'.copy.ack = worker.ack
        PROVE  Honesty'
    <2>1. HonestState(worker)' /\ HonestState(saved)'
      BY <1>s, <1>h DEF HonestPhone, HonestState, Honest, serverVars
    <2>2. HonestState(loop.next)' /\ HonestState(button.copy)'
      BY <1>s, <1>h, HonestInitial DEF HonestPhone, HonestState, Honest, serverVars
    <2> QED
      BY <2>1, <2>2, <1>s, <1>o DEF HonestPhone
  <1>11. CASE Assign
    <2>1. loop'.next = loop.next
      BY <1>11, <1>t DEF Assign, Advance, LoopType
    <2> QED
      BY <2>1, <1>11, <1>s DEF Assign, Advance
  <1>12. CASE Check
    <2>1. loop'.next = loop.next
      BY <1>12, <1>t DEF Check, Advance, LoopType
    <2> QED
      BY <2>1, <1>12, <1>s DEF Check, Advance
  <1>13. CASE Mark
    <2>1. /\ loop'.next = loop.next
          /\ worker'.last = worker.last /\ worker'.ack = worker.ack
      BY <1>13, <1>t DEF Mark, Advance, LoopType, CoordinatorState
    <2> QED
      BY <2>1, <1>13, <1>s DEF Mark, Advance
  <1>14. CASE Run
    <2>1. loop'.next \in {loop.next, Initial}
      BY <1>14, <1>t, AtNext DEF Run, Advance, LoopType
    <2> QED
      BY <2>1, <1>14, <1>s DEF Run, Advance
  <1>15. CASE Save
    BY <1>15, <1>s, AtNext DEF Save
  <1>16. CASE Leave
    BY <1>16, <1>s, AtNext DEF Leave, Advance
  <1>17. ASSUME NEW state \in Button, Press(state) PROVE Honesty'
    <2>1. button'.copy.last = worker.last /\ button'.copy.ack = worker.ack
      BY <1>17, <1>t DEF Press, CoordinatorState
    <2> QED
      BY <2>1, <1>17, <1>s DEF Press
  <1>18. CASE PressWrite
    <2>1. button'.copy = button.copy
      BY <1>18, <1>t DEF PressWrite
    <2> QED
      BY <2>1, <1>18, <1>s DEF PressWrite
  <1>19. CASE PressSave
    BY <1>19, <1>s, AtNext DEF PressSave
  <1>20. CASE Crash
    BY <1>20, <1>s, AtNext DEF Crash
  <1>21. CASE Start
    BY <1>21, <1>s, AtNext DEF Start
  <1>22. CASE UNCHANGED lvars
    BY <1>22, <1>s DEF lvars, serverVars, phoneVars
  <1> QED
    BY <1>1, <1>2, <1>3, <1>4, <1>5, <1>6, <1>7, <1>8, <1>9, <1>10, <1>11, <1>12, <1>13,
       <1>14, <1>15, <1>16, <1>17, <1>18, <1>19, <1>20, <1>21, <1>22
    DEF LNext, LoopOn, Served

\* As long as no emergency stop rewrites a pending command, a command is acknowledged only
\* once the phone has carried it out as it was given: for any number of commands and of
\* heartbeats under way, whatever is lost, pressed, thrown or crashed.
THEOREM AcknowledgementsHonest ==
  ASSUME Emergency = FALSE
  PROVE  LSpec => []AcknowledgedWasCarriedOut
  <1>1. LInit => TypeInv /\ Honesty
    BY LinkTypeInit, HonestyInit
  <1>2. TypeInv /\ Honesty /\ [LNext]_lvars => (TypeInv /\ Honesty)'
    BY LinkTypeStep, HonestyStep
  <1>3. Honesty => AcknowledgedWasCarriedOut
    BY DEF Honesty
  <1> QED
    BY <1>1, <1>2, <1>3, PTL DEF LSpec

-----------------------------------------------------------------------------
(***************************************************************************)
(* The order of commands.  Ids are issued in order and only the newest     *)
(* command can be pending, so what a heartbeat is answered with was the    *)
(* newest when it was read; and while the loop waits for that answer, it   *)
(* carries out nothing else.                                               *)
(***************************************************************************)
Numbered ==
  \A c, d \in Command : command[c].status # "NONE" /\ d <= c => command[d].status # "NONE"

OnlyLastPends == \A c \in Pending : Last(c)

CarriedIssued == \A e \in carriedOut : command[e[1]].status # "NONE"

BeatsIssued == \A h \in Handler : link[h].command # 0 => command[link[h].command].status # "NONE"

AnswerIsNewest ==
  loop.pc = "waiting" /\ link[loop.by].command # 0 =>
    \A e \in carriedOut : e[1] <= link[loop.by].command

OrderInv == Numbered /\ OnlyLastPends /\ CarriedIssued /\ BeatsIssued /\ AnswerIsNewest

Typing ==
  /\ command \in CommandType
  /\ worker \in CoordinatorState /\ saved \in CoordinatorState
  /\ loop \in LoopType
  /\ button \in [pc : {"idle", "write", "save"}, copy : CoordinatorState]
  /\ link \in [Handler -> BeatType]
  /\ carriedOut \subseteq Command \X Type
  /\ loop.pc = "waiting" => loop.by \in Handler
  /\ Command \subseteq Nat \ {0}

LEMMA IsTyping == TypeInv => Typing
  BY CommandLinkAssumption
  DEF TypeInv, LTypeOK, LoopType, BeatType, CommandType, Typed, Typing, Command

LEMMA LastIsOne ==
  ASSUME NEW c, NEW d, Last(c), Last(d)
  PROVE  c = d
  BY CommandLinkAssumption DEF Last, Unissued, Command

\* A command is queued, or the pending one is turned into STOP.
LEMMA IssueNewest ==
  ASSUME Typing, OrderInv, NEW c \in Command, NEW type,
         \/ c \in Pending
         \/ Pending = {} /\ c \in Unissued /\ \A other \in Unissued : c <= other,
         Issue(c, type)
  PROVE  /\ \A d \in Command : command'[d] = IF d = c THEN [status |-> "PENDING", type |-> type]
                                                      ELSE command[d]
         /\ Last(c)'
         /\ Pending' = {c}
         /\ Numbered'
  <1>1. \A d \in Command : command'[d] = IF d = c THEN [status |-> "PENDING", type |-> type]
                                                  ELSE command[d]
    BY DEF Issue, Typing, CommandType
  <1>2. \A d \in Command : d \in Pending => d = c
    BY LastIsOne DEF OrderInv, OnlyLastPends
  <1>3. Pending' = {c}
    BY <1>1, <1>2 DEF Pending
  <1>4. \A d \in Command : command[d].status # "NONE" => d <= c
    <2>1. CASE c \in Pending
      BY <2>1 DEF OrderInv, OnlyLastPends, Last, Unissued
    <2>2. CASE c \in Unissued
      <3> SUFFICES ASSUME NEW d \in Command, ~(d <= c) PROVE command[d].status = "NONE"
        OBVIOUS
      <3>1. c <= d
        BY DEF Typing
      <3> QED
        BY <2>2, <3>1 DEF OrderInv, Numbered, Unissued
    <2> QED
      BY <2>1, <2>2
  <1>5. Last(c)'
    BY <1>1, <1>4 DEF Last, Unissued, Typing
  <1>6. \A d \in Command : d <= c /\ d # c => command[d].status # "NONE"
    <2>1. CASE c \in Pending
      BY <2>1 DEF OrderInv, Numbered, Pending
    <2>2. CASE c \in Unissued
      <3>1. \A other \in Unissued : c <= other
        BY <2>2 DEF Unissued, Pending
      <3> SUFFICES ASSUME NEW d \in Command, d <= c, d # c, command[d].status = "NONE"
                   PROVE  FALSE
        OBVIOUS
      <3>2. c <= d
        BY <3>1 DEF Unissued
      <3>3. c \in Nat /\ d \in Nat
        BY DEF Typing
      <3> QED
        BY <3>2, <3>3
    <2> QED
      BY <2>1, <2>2
  <1>7. Numbered'
    BY <1>1, <1>4, <1>6 DEF Numbered, OrderInv, Typing
  <1> QED
    BY <1>1, <1>3, <1>5, <1>7

\* Nothing is issued and nothing carried out, and what the loop waits for is as it was.
LEMMA OrderOn ==
  ASSUME Typing, OrderInv, carriedOut' = carriedOut,
         \A c \in Command : command'[c].status = "NONE" <=> command[c].status = "NONE",
         \A c \in Command : command'[c].status = "PENDING" => command[c].status = "PENDING",
         \A h \in Handler : link'[h].command \in {0, link[h].command},
         loop'.pc = "waiting" =>
           \/ loop'.by = loop.by /\ loop.pc = "waiting"
           \/ link'[loop'.by].command = 0
  PROVE  OrderInv'
  <1>1. Numbered'
    BY DEF OrderInv, Numbered
  <1>2. OnlyLastPends'
    BY DEF OrderInv, OnlyLastPends, Pending, Last, Unissued
  <1>3. CarriedIssued'
    BY DEF OrderInv, CarriedIssued, Typing
  <1>4. BeatsIssued'
    <2>1. \A h \in Handler : link[h].command \in Command \cup {0}
      BY DEF Typing, BeatType
    <2> QED
      BY <2>1 DEF OrderInv, BeatsIssued
  <1>5. AnswerIsNewest'
    BY DEF OrderInv, AnswerIsNewest, Typing
  <1> QED
    BY <1>1, <1>2, <1>3, <1>4, <1>5 DEF OrderInv

LEMMA OrderInit == LInit => OrderInv
  BY DEF LInit, OrderInv, Numbered, OnlyLastPends, Pending, CarriedIssued, BeatsIssued,
         AnswerIsNewest, Free, Beat, At, Loop

\* What the server does to the links of a phone that waits or does not.
LEMMA LinkMoves ==
  ASSUME Typing, NEW h \in Handler, ServeAck(h) \/ ServeJob(h) \/ Lose(h)
  PROVE  /\ \A k \in Handler : k # h => link'[k] = link[k]
         /\ link'[h].command = 0
         /\ link'[h].ack \in {0, link[h].ack}
         /\ link'[h].offer => link[h].state \notin Suspended /\ link'[h].state = link[h].state
         /\ link'[h].pc # "free" => link'[h].state = link[h].state /\ link[h].pc # "free"
  <1> DEFINE b == link[h]
             fetch(offer) == Beat("fetch", b.state, b.ack, offer, 0, "NONE")
             refused == Beat("refused", b.state, b.ack, FALSE, 0, "NONE")
             acked == Beat("job", b.state, b.ack, FALSE, 0, "NONE")
  <1>1. \/ ServeAck(h) /\ b.pc = "ack" /\ Handle(h, acked)
        \/ b.pc = "job" /\ \E offer \in BOOLEAN : (offer => b.state \notin Suspended)
                                                  /\ Handle(h, fetch(offer))
        \/ b.pc = "job" /\ Handle(h, refused)
        \/ Handle(h, Free)
    BY Zenon DEF ServeAck, ServeJob, Lose
  <1>2. \A offer \in BOOLEAN : /\ fetch(offer).command = 0 /\ fetch(offer).ack = b.ack
                               /\ fetch(offer).offer = offer /\ fetch(offer).state = b.state
    BY DEF Beat
  <1>3. /\ refused.command = 0 /\ refused.ack = b.ack
        /\ refused.offer = FALSE /\ refused.state = b.state
    BY DEF Beat
  <1>4. /\ acked.command = 0 /\ acked.ack = b.ack
        /\ acked.offer = FALSE /\ acked.state = b.state
    BY DEF Beat
  <1>5. Free.command = 0 /\ Free.ack = 0 /\ Free.offer = FALSE /\ Free.pc = "free"
    BY DEF Free, Beat
  <1> HIDE DEF fetch, refused, acked
  <1>6. \A beat : Handle(h, beat) => /\ link'[h] = beat
                                     /\ \A k \in Handler : k # h => link'[k] = link[k]
    BY DEF Handle, Typing
  <1> QED
    BY <1>1, <1>2, <1>3, <1>4, <1>5, <1>6

LEMMA FetchMoves ==
  ASSUME Typing, NEW h \in Handler, ServeFetch(h)
  PROVE  /\ \A k \in Handler : k # h => link'[k] = link[k]
         /\ link'[h].command = 0 \/ (link'[h].command \in Pending
                                     /\ link'[h].type = command[link'[h].command].type)
         /\ link'[h].ack = link[h].ack /\ link'[h].state = link[h].state
         /\ link'[h].offer = link[h].offer /\ link[h].pc # "free"
         /\ UNCHANGED <<command, phoneVars>>
  BY DEF ServeFetch, Handle, Beat, Deliverable, Typing

LEMMA FreeMoves ==
  ASSUME Typing, NEW h \in Handler, Handle(h, Free)
  PROVE  /\ \A k \in Handler : k # h => link'[k] = link[k]
         /\ link'[h].command = 0 /\ link'[h].ack = 0 /\ ~link'[h].offer /\ link'[h].pc = "free"
  BY DEF Handle, Free, Beat, Typing

LEMMA SendMoves ==
  ASSUME Typing, NEW h \in Handler, SendHeartbeat(h)
  PROVE  /\ \A k \in Handler : k # h => link'[k] = link[k]
         /\ link'[h].command = 0 /\ link'[h].ack = worker.ack /\ link'[h].state = worker.state
         /\ ~link'[h].offer
         /\ loop'.by = h /\ loop'.pc \in {"waiting", "parting"} /\ loop'.next = Initial
         /\ ~loop'.offer
         /\ UNCHANGED <<command, worker, saved, button, carriedOut>>
  BY DEF SendHeartbeat, Handle, Beat, Advance, Loop, Typing

LEMMA ReceiveMoves ==
  ASSUME Typing, Receive
  PROVE  /\ loop.by \in Handler /\ loop.pc = "waiting" /\ link[loop.by].pc = "answer"
         /\ Handle(loop.by, Free)
         /\ loop'.pc = "reduced" /\ loop'.offer = link[loop.by].offer
         /\ loop'.next = Reduce(worker, link[loop.by].command, link[loop.by].type)
         /\ UNCHANGED <<command, worker, saved, button>>
  BY DEF Receive, Advance, Loop, Typing

LEMMA AckMoves ==
  ASSUME Typing, NEW h \in Handler, ServeAck(h)
  PROVE  /\ UNCHANGED phoneVars
         /\ \A c \in Command :
              /\ command'[c].type = command[c].type
              /\ \/ command'[c].status = command[c].status
                 \/ /\ c = link[h].ack /\ command[c].status = "PENDING"
                    /\ command'[c].status = "ACKNOWLEDGED"
  BY DEF ServeAck, Pending, Typing, CommandType

LEMMA OrderStep ==
  ASSUME TypeInv, OrderInv, [LNext]_lvars
  PROVE  OrderInv'
  <1>t. Typing
    BY IsTyping
  <1>1. ASSUME NEW type, QueueCommand(type) \/ EmergencyStop PROVE OrderInv'
    <2>0. PICK c \in Command : /\ \E given : Issue(c, given)
                              /\ \/ c \in Pending
                                 \/ /\ Pending = {} /\ c \in Unissued
                                    /\ \A other \in Unissued : c <= other
      <3>1. \A k : k \in Pending \/ k \in Unissued => k \in Command
        BY DEF Pending, Unissued
      <3> QED
        BY <1>1, <3>1 DEF QueueCommand, EmergencyStop
    <2>1. PICK given : Issue(c, given)
      BY <2>0
    <2>2. UNCHANGED <<link, phoneVars>>
      BY <1>1 DEF QueueCommand, EmergencyStop
    <2>3. Numbered' /\ OnlyLastPends'
      BY <1>t, <2>0, <2>1, IssueNewest DEF OnlyLastPends
    <2>4. CarriedIssued' /\ BeatsIssued' /\ AnswerIsNewest'
      <3>1. \A d \in Command : command[d].status # "NONE" => command'[d].status # "NONE"
        <4>1. \A d \in Command : command'[d] = IF d = c THEN [status |-> "PENDING", type |-> given]
                                                        ELSE command[d]
          BY <1>t, <2>0, <2>1, IssueNewest
        <4> QED
          BY <4>1
      <3>2. \A h \in Handler : link[h].command \in Command \cup {0}
        BY <1>t DEF Typing, BeatType
      <3>3. \A e \in carriedOut : e[1] \in Command
        BY <1>t DEF Typing
      <3> QED
        BY <2>2, <3>1, <3>2, <3>3 DEF OrderInv, CarriedIssued, BeatsIssued, AnswerIsNewest, phoneVars
    <2> QED
      BY <2>3, <2>4 DEF OrderInv
  <1>2. ASSUME NEW h \in Handler, ServeAck(h) PROVE OrderInv'
    BY <1>t, <1>2, LinkMoves, AckMoves, OrderOn DEF phoneVars
  <1>3. ASSUME NEW h \in Handler, ServeJob(h) \/ Lose(h) PROVE OrderInv'
    <2>1. UNCHANGED <<command, phoneVars>>
      BY <1>3 DEF ServeJob, Lose
    <2> QED
      BY <1>t, <1>3, <2>1, LinkMoves, OrderOn DEF phoneVars
  <1>4. ASSUME NEW h \in Handler, ServeFetch(h) PROVE OrderInv'
    <2>1. UNCHANGED <<command, phoneVars>>
      BY <1>t, <1>4, FetchMoves
    <2>2. Numbered' /\ OnlyLastPends' /\ CarriedIssued'
      BY <2>1 DEF OrderInv, Numbered, OnlyLastPends, CarriedIssued, Pending, Last, Unissued,
                  phoneVars
    <2>3. BeatsIssued'
      BY <1>t, <1>4, <2>1, FetchMoves DEF OrderInv, BeatsIssued, Pending
    <2>4. AnswerIsNewest'
      <3>1. \A c \in Pending : \A e \in carriedOut : e[1] <= c
        BY <1>t DEF OrderInv, OnlyLastPends, CarriedIssued, Last, Unissued, Typing
      <3>2. loop' = loop /\ carriedOut' = carriedOut
        BY <2>1 DEF phoneVars
      <3> QED
        BY <1>t, <1>4, <3>1, <3>2, FetchMoves DEF OrderInv, AnswerIsNewest, Typing
    <2> QED
      BY <2>2, <2>3, <2>4 DEF OrderInv
  <1>5. ASSUME NEW h \in Handler, SendHeartbeat(h) PROVE OrderInv'
    BY <1>t, <1>5, SendMoves, OrderOn
  <1>6. CASE Receive
    <2> DEFINE b == link[loop.by]
    <2>1. command' = command /\ \A h \in Handler : link'[h].command \in {0, link[h].command}
      BY <1>t, <1>6, ReceiveMoves, FreeMoves
    <2>2. Numbered' /\ OnlyLastPends'
      BY <2>1 DEF OrderInv, Numbered, OnlyLastPends, Pending, Last, Unissued
    <2>3. \/ carriedOut' = carriedOut
          \/ b.command # 0 /\ carriedOut' = carriedOut \cup {<<b.command, b.type>>}
      BY <1>6 DEF Receive
    <2>4. CarriedIssued'
      BY <1>t, <1>6, <2>1, <2>3, ReceiveMoves DEF OrderInv, CarriedIssued, BeatsIssued
    <2>5. BeatsIssued'
      BY <2>1 DEF OrderInv, BeatsIssued
    <2>6. AnswerIsNewest'
      BY <1>t, <1>6, ReceiveMoves DEF AnswerIsNewest
    <2> QED
      BY <2>2, <2>4, <2>5, <2>6 DEF OrderInv
  <1>7. CASE ReceiveRefusal
    <2>1. loop.by \in Handler /\ Handle(loop.by, Free) /\ UNCHANGED <<command, carriedOut>>
      BY <1>t, <1>7 DEF ReceiveRefusal, Typing
    <2>2. loop'.pc # "waiting"
      BY <1>7 DEF ReceiveRefusal, Advance, At, Loop
    <2> QED
      BY <1>t, <2>1, <2>2, FreeMoves, OrderOn
  <1>8. CASE TimeOut \/ Assign \/ Check \/ Mark \/ Run \/ Save \/ Leave \/ Crash \/ Start \/ PressSave
    <2>1. UNCHANGED <<command, link, carriedOut>>
      BY <1>8 DEF TimeOut, Assign, Check, Mark, Run, Save, Leave, Crash, Start, PressSave, serverVars
    <2>2. loop'.pc # "waiting" \/ loop' = loop
      BY <1>t, <1>8 DEF TimeOut, Assign, Check, Mark, Run, Save, Leave, Crash, Start, PressSave,
                  Advance, At, Loop, Typing, LoopType
    <2> QED
      BY <1>t, <2>1, <2>2, OrderOn
  <1>9. ASSUME NEW state, Press(state) PROVE OrderInv'
    BY <1>t, <1>9, OrderOn DEF Press, serverVars
  <1>10. CASE PressWrite \/ UNCHANGED lvars
    BY <1>t, <1>10, OrderOn DEF PressWrite, lvars, serverVars, phoneVars
  <1> QED
    BY <1>1, <1>2, <1>3, <1>4, <1>5, <1>6, <1>7, <1>8, <1>9, <1>10 DEF LNext, LoopOn, Served

\* Whatever is lost, late, pressed or crashed, and with emergency stops too: the phone never
\* goes back to a command older than one it has carried out.
THEOREM CommandsInOrder == LSpec => CarriedOutInOrder
  <1> DEFINE InOrder == loop.pc = "waiting" /\ loop'.pc = "reduced" /\ loop'.next.last # worker.last
                          => \A old \in carriedOut : old[1] <= loop'.next.last
  <1>1. TypeInv /\ OrderInv /\ [LNext]_lvars => [InOrder]_lvars
    <2> SUFFICES ASSUME TypeInv, OrderInv, LNext,
                        loop.pc = "waiting", loop'.pc = "reduced", loop'.next.last # worker.last
                 PROVE  \A old \in carriedOut : old[1] <= loop'.next.last
      OBVIOUS
    <2>t. Typing
      BY IsTyping
    <2>1. Receive
      <3>1. ~\E h \in Handler : Served(h) \/ Lose(h) \/ SendHeartbeat(h)
        BY DEF Served, ServeAck, ServeJob, ServeFetch, Lose, SendHeartbeat, phoneVars
      <3>2. ~(TimeOut \/ ReceiveRefusal \/ Leave \/ Crash \/ Start)
        BY DEF TimeOut, ReceiveRefusal, Leave, Crash, Start, Advance, At, Loop
      <3>3. ~(Assign \/ Check \/ Mark \/ Run \/ Save)
        BY DEF Assign, Check, Mark, Run, Save
      <3>4. ~(EmergencyStop \/ PressWrite \/ PressSave) /\ \A type : ~QueueCommand(type) /\ ~Press(type)
        BY DEF QueueCommand, EmergencyStop, Press, PressWrite, PressSave, phoneVars
      <3> QED
        BY <3>1, <3>2, <3>3, <3>4 DEF LNext, LoopOn
    <2> DEFINE c == link[loop.by].command
    <2>2. loop'.next = Reduce(worker, c, link[loop.by].type)
      BY <2>t, <2>1, ReceiveMoves
    <2>3. c # 0 /\ loop'.next.last = c
      BY <2>t, <2>2 DEF Reduce, Coordinator, Typing, CoordinatorState
    <2> QED
      BY <2>3 DEF OrderInv, AnswerIsNewest
  <1>2. LInit => TypeInv /\ OrderInv
    BY LinkTypeInit, OrderInit
  <1>3. TypeInv /\ OrderInv /\ [LNext]_lvars => (TypeInv /\ OrderInv)'
    BY LinkTypeStep, OrderStep
  <1> QED
    BY <1>1, <1>2, <1>3, PTL DEF LSpec, CarriedOutInOrder

-----------------------------------------------------------------------------
(***************************************************************************)
(* The last acknowledged command stays in force, as long as nobody presses *)
(* a button and no emergency stop rewrites a pending command.  The field   *)
(* and the disk each do what the command they note asks for; they may      *)
(* differ only while a round is under way, and a round that ends without   *)
(* a save had a job to run, so the phone was ready for one before and      *)
(* after.  What may be overtaken is the answer the loop waits for:         *)
(* AnswerIsNewest excludes that.                                           *)
(***************************************************************************)
SameSide(a, b) == a \in Suspended <=> b \in Suspended

\* The state does what this command asks for.
Follows(state, row) == SameSide(state.state, StateFor[row.type])

Obeys(state, rows) ==
  /\ state.ack \in {0, state.last}
  /\ state.last # 0 => Follows(state, rows[state.last])

Obedient == Obeys(worker, command) /\ Obeys(saved, command) /\ Obeys(loop.next, command)

\* A heartbeat that offers a job came from a phone that is not suspended, and the heartbeat
\* the loop waits for brought the state the phone still has.
BeatsFit ==
  /\ \A h \in Handler : link[h].offer => link[h].state \notin Suspended
  /\ loop.pc = "waiting" /\ link[loop.by].pc # "free" => link[loop.by].state = worker.state

Settling == {"idle", "waiting", "reduced", "bye", "parting", "off"}

\* Between rounds field and disk are on one side; in a round with a job the disk is ready.
DiskFits ==
  /\ loop.pc \in Settling => SameSide(worker.state, saved.state)
  /\ loop.offer => saved.state \notin Suspended

RoundFits ==
  /\ loop.pc \in {"busy", "run"} => loop.offer /\ worker.state \notin Suspended
  /\ loop.pc = "rest" => worker.state \notin Suspended

\* The server has the command's acknowledgement, or a heartbeat has brought it.
Acked(c) == command[c].status = "ACKNOWLEDGED" \/ \E h \in Handler : link[h].ack = c

InForce ==
  \A c \in Command : Last(c) /\ Acked(c) =>
    /\ Follows(worker, command[c]) /\ Follows(saved, command[c])
    /\ loop.pc = "reduced" => Follows(loop.next, command[c])

HoldInv == button.pc = "idle" /\ Obedient /\ BeatsFit /\ DiskFits /\ RoundFits /\ InForce

LEMMA HoldInit == LInit => HoldInv
  <1> SUFFICES ASSUME LInit PROVE HoldInv
    OBVIOUS
  <1>1. /\ loop.pc = "idle" /\ loop.next = Initial /\ loop.offer = FALSE
        /\ worker = Initial /\ saved = Initial
        /\ \A h \in Handler : link[h].offer = FALSE
        /\ button.pc = "idle"
    BY DEF LInit, At, Loop, Free, Beat
  <1>2. Obeys(Initial, command) /\ Initial.state \notin Suspended
    BY DEF Obeys, Initial, Coordinator, Suspended
  <1>3. \A c \in Command : ~Last(c)
    BY DEF LInit, Last, Unissued
  <1> QED
    BY <1>1, <1>2, <1>3
    DEF HoldInv, Obedient, BeatsFit, DiskFits, RoundFits, InForce, SameSide

\* What an acknowledged command leaves in the history.
LEMMA AckedCarriedOut ==
  ASSUME Typing, Honesty, NEW c \in Command, Acked(c)
  PROVE  command[c].status # "NONE" /\ \E e \in carriedOut : e[1] = c
  <1>1. CASE command[c].status = "ACKNOWLEDGED"
    BY <1>1 DEF Honesty, AcknowledgedWasCarriedOut
  <1>2. CASE \E h \in Handler : link[h].ack = c
    <2>1. Honest(c) /\ c # 0
      BY <1>2 DEF Honesty, HonestLink, Typing
    <2> QED
      BY <2>1 DEF Honest
  <1> QED
    BY <1>1, <1>2 DEF Acked

\* The commands the phone notes have been issued.
LEMMA NotesIssued ==
  ASSUME Typing, Honesty, NEW s \in {worker, saved, loop.next}, s.last # 0
  PROVE  s.last \in Command /\ command[s.last].status # "NONE"
  <1>1. HonestState(s) /\ s \in CoordinatorState
    BY DEF Honesty, HonestPhone, Typing, LoopType
  <1> QED
    BY <1>1 DEF HonestState, Honest, CoordinatorState

\* The server works: the phone is as it was, no issued command changes its type, and what is
\* acknowledged now was acknowledged, on the server or by a heartbeat.
LEMMA HoldServed ==
  ASSUME Typing, Honesty, HoldInv, UNCHANGED phoneVars,
         \A c \in Command : command[c].status # "NONE" => command'[c].type = command[c].type,
         \A c \in Command : Last(c)' /\ Acked(c)' => Last(c) /\ Acked(c),
         \A h \in Handler : link'[h].offer => link'[h].state \notin Suspended,
         loop.pc = "waiting" /\ link'[loop.by].pc # "free" =>
           link[loop.by].pc # "free" /\ link'[loop.by].state = link[loop.by].state
  PROVE  HoldInv'
  <1>0. worker' = worker /\ saved' = saved /\ loop' = loop /\ button' = button
    BY DEF phoneVars
  <1>1. \A s \in {worker, saved, loop.next} : Obeys(s, command) => Obeys(s, command')
    BY NotesIssued DEF Obeys, Follows
  <1>2. Obedient'
    BY <1>0, <1>1 DEF HoldInv, Obedient
  <1>3. BeatsFit'
    BY <1>0 DEF HoldInv, BeatsFit
  <1>4. InForce'
    <2> SUFFICES ASSUME NEW c \in Command, Last(c)', Acked(c)'
                 PROVE  /\ Follows(worker', command'[c]) /\ Follows(saved', command'[c])
                        /\ loop'.pc = "reduced" => Follows(loop'.next, command'[c])
      BY DEF InForce
    <2>1. Last(c) /\ Acked(c)
      OBVIOUS
    <2>2. command'[c].type = command[c].type
      BY <2>1, AckedCarriedOut
    <2> QED
      BY <1>0, <2>1, <2>2 DEF HoldInv, InForce, Follows
  <1> QED
    BY <1>0, <1>2, <1>3, <1>4 DEF HoldInv, DiskFits, RoundFits

\* The phone works on its own: rows and messages are as they were.
LEMMA HoldAlone ==
  ASSUME Typing, HoldInv, UNCHANGED serverVars, button'.pc = "idle",
         \/ worker' \in {worker, saved}
         \/ loop.pc = "reduced" /\ worker' = loop.next
         \/ /\ worker'.last = worker.last /\ worker'.ack = worker.ack
            /\ SameSide(worker'.state, worker.state),
         saved' \in {saved, worker},
         loop'.next \in {loop.next, Initial}, loop'.pc \notin {"waiting", "reduced"},
         DiskFits', RoundFits'
  PROVE  HoldInv'
  <1>0. command' = command /\ link' = link
    BY DEF serverVars
  <1>1. Obeys(Initial, command)
    BY DEF Obeys, Initial, Coordinator
  <1>2. Obeys(worker', command)
    BY DEF HoldInv, Obedient, Obeys, Follows, SameSide
  <1>3. Obedient'
    BY <1>0, <1>1, <1>2 DEF HoldInv, Obedient
  <1>4. BeatsFit'
    BY <1>0 DEF HoldInv, BeatsFit
  <1>5. \A c \in Command : /\ Last(c)' <=> Last(c)
                           /\ Acked(c)' <=> Acked(c)
    BY <1>0 DEF Last, Unissued, Acked
  <1>6. InForce'
    BY <1>0, <1>5 DEF HoldInv, InForce, Follows, SameSide
  <1> QED
    BY <1>3, <1>4, <1>6 DEF HoldInv

LEMMA HoldStep ==
  ASSUME Emergency = FALSE, Button = {}, TypeInv, TypeInv', OrderInv, OrderInv', Honesty, Honesty',
         HoldInv, [LNext]_lvars
  PROVE  HoldInv'
  <1>t. Typing /\ Typing'
    <2>1. Typing
      BY IsTyping
    <2>2. Typing'
      BY CommandLinkAssumption
      DEF TypeInv, LTypeOK, LoopType, BeatType, CommandType, Typed, Typing, Command
    <2> QED
      BY <2>1, <2>2
  <1>b. button.pc = "idle"
    BY DEF HoldInv
  <1>1. ASSUME NEW type, QueueCommand(type) PROVE HoldInv'
    <2>0. PICK c \in Command : /\ c \in Unissued /\ Pending = {}
                               /\ \A other \in Unissued : c <= other
                               /\ Issue(c, type)
      BY <1>1 DEF QueueCommand, Unissued
    <2>1. UNCHANGED <<link, phoneVars>>
      BY <1>1 DEF QueueCommand
    <2>2. \A d \in Command : command'[d] = IF d = c THEN [status |-> "PENDING", type |-> type]
                                                    ELSE command[d]
      BY <1>t, <2>0, IssueNewest
    <2>3. Last(c)'
      BY <1>t, <2>0, IssueNewest
    <2>4. \A d \in Command : ~(Last(d)' /\ Acked(d)')
      <3> SUFFICES ASSUME NEW d \in Command, Last(d)', Acked(d)' PROVE FALSE
        OBVIOUS
      <3>1. d = c
        BY <2>3, <1>t DEF Last, Unissued, Typing
      <3>2. \E h \in Handler : link[h].ack = c
        BY <2>1, <2>2, <3>1 DEF Acked
      <3>3. command[c].status # "NONE"
        BY <1>t, <3>2, AckedCarriedOut DEF Acked
      <3> QED
        BY <2>0, <3>3 DEF Unissued
    <2>5. \A d \in Command : command[d].status # "NONE" => command'[d].type = command[d].type
      BY <2>0, <2>2 DEF Unissued
    <2> QED
      BY <1>t, <2>1, <2>4, <2>5, HoldServed DEF HoldInv, BeatsFit, phoneVars
  <1>2. CASE EmergencyStop
    BY <1>2 DEF EmergencyStop
  <1>3. ASSUME NEW h \in Handler, ServeAck(h) \/ ServeJob(h) \/ ServeFetch(h) \/ Lose(h)
        PROVE  HoldInv'
    <2>1. UNCHANGED phoneVars
      BY <1>3 DEF ServeAck, ServeJob, ServeFetch, Lose
    <2>2. /\ \A k \in Handler : k # h => link'[k] = link[k]
          /\ link'[h].ack \in {0, link[h].ack}
          /\ link'[h].offer => link'[h].state \notin Suspended
          /\ link'[h].pc # "free" => link'[h].state = link[h].state /\ link[h].pc # "free"
      <3>1. CASE ServeFetch(h)
        BY <1>t, <3>1, FetchMoves DEF HoldInv, BeatsFit
      <3>2. CASE ServeAck(h) \/ ServeJob(h) \/ Lose(h)
        BY <1>t, <3>2, LinkMoves
      <3> QED
        BY <1>3, <3>1, <3>2
    <2>3. \A c \in Command :
            /\ command'[c].type = command[c].type
            /\ \/ command'[c].status = command[c].status
               \/ /\ c = link[h].ack /\ command[c].status = "PENDING"
                  /\ command'[c].status = "ACKNOWLEDGED"
      <3>1. CASE ServeAck(h)
        BY <1>t, <3>1, AckMoves
      <3>2. CASE ServeJob(h) \/ ServeFetch(h) \/ Lose(h)
        BY <3>2 DEF ServeJob, ServeFetch, Lose
      <3> QED
        BY <1>3, <3>1, <3>2
    <2>4. \A c \in Command : Last(c)' => Last(c)
      BY <2>3 DEF Last, Unissued
    <2>5. \A c \in Command : Acked(c)' => Acked(c)
      <3> SUFFICES ASSUME NEW c \in Command, Acked(c)' PROVE Acked(c)
        OBVIOUS
      <3>1. CASE command'[c].status = "ACKNOWLEDGED"
        BY <2>3, <3>1 DEF Acked
      <3>2. ASSUME NEW k \in Handler, link'[k].ack = c PROVE link[k].ack = c
        <4>1. c # 0
          BY <1>t DEF Typing
        <4> QED
          BY <2>2, <3>2, <4>1
      <3> QED
        BY <3>1, <3>2 DEF Acked
    <2>6. \A k \in Handler : link'[k].offer => link'[k].state \notin Suspended
      BY <2>2 DEF HoldInv, BeatsFit
    <2>7. loop.pc = "waiting" /\ link'[loop.by].pc # "free" =>
            link[loop.by].pc # "free" /\ link'[loop.by].state = link[loop.by].state
      BY <1>t, <2>2 DEF Typing
    <2> QED
      BY <1>t, <2>1, <2>3, <2>4, <2>5, <2>6, <2>7, HoldServed
  <1>4. ASSUME NEW h \in Handler, SendHeartbeat(h) PROVE HoldInv'
    <2>0. loop.pc \in {"idle", "bye"} /\ link[h].pc = "free"
      BY <1>4 DEF SendHeartbeat
    <2>1. /\ \A k \in Handler : k # h => link'[k] = link[k]
          /\ link'[h].ack = worker.ack /\ link'[h].state = worker.state /\ ~link'[h].offer
          /\ loop'.by = h /\ loop'.pc \in {"waiting", "parting"} /\ loop'.next = Initial
          /\ ~loop'.offer
          /\ UNCHANGED <<command, worker, saved, button, carriedOut>>
      BY <1>t, <1>4, SendMoves
    <2>2. Obedient'
      BY <2>1 DEF HoldInv, Obedient, Obeys, Initial, Coordinator
    <2>3. BeatsFit'
      BY <2>1 DEF HoldInv, BeatsFit
    <2>4. DiskFits' /\ RoundFits'
      BY <2>0, <2>1 DEF HoldInv, DiskFits, RoundFits, Settling
    <2>5. InForce'
      <3> SUFFICES ASSUME NEW c \in Command, Last(c)', Acked(c)'
                   PROVE  Follows(worker, command[c]) /\ Follows(saved, command[c])
        BY <2>1 DEF InForce
      <3>1. Last(c)
        BY <2>1 DEF Last, Unissued
      <3>2. CASE Acked(c)
        BY <3>1, <3>2 DEF HoldInv, InForce
      <3>3. CASE ~Acked(c)
        <4>1. worker.ack = c /\ c # 0
          BY <1>t, <2>1, <3>3 DEF Acked, Typing
        <4>2. Follows(worker, command[c])
          BY <4>1 DEF HoldInv, Obedient, Obeys
        <4>3. SameSide(worker.state, saved.state)
          BY <2>0 DEF HoldInv, DiskFits, Settling
        <4> QED
          BY <4>2, <4>3 DEF Follows, SameSide
      <3> QED
        BY <3>2, <3>3
    <2> QED
      BY <2>1, <2>2, <2>3, <2>4, <2>5 DEF HoldInv
  <1>5. CASE Receive
    <2> DEFINE h == loop.by
               b == link[h]
    <2>1. /\ h \in Handler /\ loop.pc = "waiting" /\ b.pc = "answer"
          /\ loop'.pc = "reduced" /\ loop'.offer = b.offer
          /\ loop'.next = Reduce(worker, b.command, b.type)
          /\ UNCHANGED <<command, worker, saved, button>>
      BY <1>t, <1>5, ReceiveMoves
    <2>2. /\ \A k \in Handler : k # h => link'[k] = link[k]
          /\ link'[h].command = 0 /\ link'[h].ack = 0 /\ ~link'[h].offer /\ link'[h].pc = "free"
      BY <1>t, <1>5, ReceiveMoves, FreeMoves
    <2>3. b.command # 0 => b.command \in Command /\ command[b.command].type = b.type
      BY <1>t, <2>1 DEF Honesty, HonestLink, Typing, BeatType
    <2>4. \/ /\ loop'.next.state = worker.state /\ loop'.next.last = worker.last
             /\ loop'.next.ack \in {0, worker.last}
             /\ b.command = 0 \/ b.command = worker.last
          \/ /\ b.command # 0 /\ b.command # worker.last
             /\ loop'.next.last = b.command /\ loop'.next.ack = b.command
             /\ loop'.next.state = StateFor[b.type]
      BY <1>t, <2>1 DEF Reduce, Coordinator, Typing, CoordinatorState
    <2>5. Obedient'
      BY <2>1, <2>3, <2>4 DEF HoldInv, Obedient, Obeys, Follows, SameSide
    <2>6. BeatsFit'
      BY <2>1, <2>2 DEF HoldInv, BeatsFit
    <2>7. DiskFits' /\ RoundFits'
      <3>1. SameSide(worker.state, saved.state)
        BY <2>1 DEF HoldInv, DiskFits, Settling
      <3>2. b.offer => worker.state \notin Suspended
        BY <2>1 DEF HoldInv, BeatsFit
      <3> QED
        BY <2>1, <3>1, <3>2 DEF DiskFits, RoundFits, SameSide
    <2>8. InForce'
      <3> SUFFICES ASSUME NEW c \in Command, Last(c)', Acked(c)'
                   PROVE  /\ Follows(worker, command[c]) /\ Follows(saved, command[c])
                          /\ Follows(loop'.next, command[c])
        BY <2>1 DEF InForce
      <3>1. Last(c) /\ c # 0
        BY <1>t, <2>1 DEF Last, Unissued, Typing
      <3>2. Acked(c)
        BY <2>1, <2>2, <3>1 DEF Acked
      <3>3. Follows(worker, command[c]) /\ Follows(saved, command[c])
        BY <3>1, <3>2 DEF HoldInv, InForce
      <3>4. CASE loop'.next.state = worker.state
        BY <3>3, <3>4 DEF Follows
      <3>5. CASE loop'.next.state # worker.state
        <4>1. b.command # 0 /\ loop'.next.state = StateFor[b.type]
          BY <2>4, <3>5
        <4>2. PICK e \in carriedOut : e[1] = c
          BY <1>t, <3>2, AckedCarriedOut
        <4>3. c <= b.command
          BY <2>1, <4>1, <4>2 DEF OrderInv, AnswerIsNewest
        <4>4. b.command <= c
          BY <1>t, <2>1, <2>3, <3>1, <4>1 DEF OrderInv, BeatsIssued, Last, Unissued
        <4>5. b.command = c
          <5>1. c \in Nat /\ b.command \in Nat
            BY <1>t, <2>3, <4>1 DEF Typing
          <5> HIDE DEF b
          <5> QED
            BY <4>3, <4>4, <5>1
        <4> QED
          BY <2>3, <3>3, <4>1, <4>5 DEF Follows, SameSide
      <3> QED
        BY <3>3, <3>4, <3>5
    <2> QED
      BY <2>1, <2>5, <2>6, <2>7, <2>8 DEF HoldInv
  <1>6. CASE ReceiveRefusal
    <2>1. /\ loop.by \in Handler /\ loop.pc = "waiting" /\ Handle(loop.by, Free)
          /\ loop' = At("idle")
          /\ UNCHANGED <<command, worker, saved, button, carriedOut>>
      BY <1>t, <1>6 DEF ReceiveRefusal, Advance, Typing
    <2>2. loop'.pc = "idle" /\ loop'.next = Initial /\ ~loop'.offer
      BY <2>1 DEF At, Loop
    <2>3. /\ \A k \in Handler : k # loop.by => link'[k] = link[k]
          /\ link'[loop.by].ack = 0 /\ ~link'[loop.by].offer
      BY <1>t, <2>1, FreeMoves
    <2>4. Obedient'
      BY <2>1, <2>2 DEF HoldInv, Obedient, Obeys, Initial, Coordinator
    <2>5. BeatsFit' /\ DiskFits' /\ RoundFits'
      BY <2>1, <2>2, <2>3 DEF HoldInv, BeatsFit, DiskFits, RoundFits, Settling
    <2>6. \A c \in Command : Last(c)' /\ Acked(c)' => Last(c) /\ Acked(c)
      BY <1>t, <2>1, <2>3 DEF Last, Unissued, Acked, Typing
    <2>7. InForce'
      BY <2>1, <2>2, <2>6 DEF HoldInv, InForce
    <2> QED
      BY <2>1, <2>4, <2>5, <2>7 DEF HoldInv
  <1>7. CASE Assign
    <2>1. /\ loop.pc = "reduced" /\ worker' = loop.next /\ loop'.pc = "check"
          /\ loop'.next = loop.next /\ loop'.offer = loop.offer
          /\ UNCHANGED <<serverVars, saved, button>>
      BY <1>t, <1>7 DEF Assign, Advance, Typing, LoopType
    <2>2. DiskFits' /\ RoundFits'
      BY <2>1 DEF HoldInv, DiskFits, RoundFits, Settling
    <2> QED
      BY <1>t, <2>1, <2>2, <1>b, HoldAlone
  <1>8. CASE Check
    <2>1. /\ loop.pc = "check" /\ loop'.pc \in {"busy", "rest", "save"}
          /\ loop'.pc = "busy" => loop.offer /\ worker.state \notin Suspended
          /\ loop'.pc = "rest" => worker.state = "BUSY"
          /\ loop'.next = loop.next /\ loop'.offer = loop.offer
          /\ UNCHANGED <<serverVars, worker, saved, button>>
      BY <1>t, <1>8 DEF Check, Advance, Typing, LoopType
    <2>2. DiskFits' /\ RoundFits'
      BY <2>1 DEF HoldInv, DiskFits, RoundFits, Settling, Suspended
    <2> QED
      BY <1>t, <2>1, <2>2, <1>b, HoldAlone
  <1>9. CASE Mark
    <2>1. /\ loop.pc \in {"busy", "rest"} /\ loop'.pc \in {"run", "save"}
          /\ loop'.pc = "run" => loop.pc = "busy"
          /\ worker'.state \in {"BUSY", "IDLE"}
          /\ worker'.last = worker.last /\ worker'.ack = worker.ack
          /\ loop'.next = loop.next /\ loop'.offer = loop.offer
          /\ UNCHANGED <<serverVars, saved, button>>
      BY <1>t, <1>9 DEF Mark, Advance, Typing, LoopType, CoordinatorState
    <2>2. worker'.state \notin Suspended /\ worker.state \notin Suspended
      BY <2>1 DEF HoldInv, RoundFits, Suspended
    <2>3. DiskFits' /\ RoundFits'
      BY <2>1, <2>2 DEF HoldInv, DiskFits, RoundFits, Settling
    <2>4. SameSide(worker'.state, worker.state)
      BY <2>2 DEF SameSide
    <2> QED
      BY <1>t, <2>1, <2>3, <2>4, <1>b, HoldAlone
  <1>10. CASE Run
    <2>1. /\ loop.pc = "run" /\ loop'.pc \in {"save", "idle"}
          /\ loop'.next \in {loop.next, Initial} /\ (loop'.offer => loop.offer)
          /\ UNCHANGED <<serverVars, worker, saved, button>>
      BY <1>t, <1>10 DEF Run, Advance, At, Loop, Typing, LoopType
    <2>2. worker.state \notin Suspended /\ saved.state \notin Suspended
      BY <2>1 DEF HoldInv, RoundFits, DiskFits
    <2>3. DiskFits' /\ RoundFits'
      BY <2>1, <2>2 DEF DiskFits, RoundFits, SameSide
    <2> QED
      BY <1>t, <2>1, <2>3, <1>b, HoldAlone
  <1>11. CASE TimeOut \/ Save \/ Leave \/ Crash \/ Start
    <2>1. /\ loop'.pc \in {"idle", "bye", "off"} /\ loop'.next = Initial /\ ~loop'.offer
          /\ \/ loop.pc \in Settling /\ worker' = worker /\ saved' = saved
             \/ worker' = saved /\ saved' = saved
             \/ worker' = worker /\ saved' = worker
          /\ UNCHANGED serverVars
      BY <1>11 DEF TimeOut, Save, Leave, Crash, Start, Advance, At, Loop, Settling
    <2>2. DiskFits' /\ RoundFits'
      BY <2>1 DEF HoldInv, DiskFits, RoundFits, SameSide
    <2>3. button'.pc = "idle"
      BY <1>11 DEF TimeOut, Save, Leave, Crash, Start, Advance, HoldInv
    <2> QED
      BY <1>t, <2>1, <2>2, <2>3, HoldAlone
  <1>12. CASE PressWrite \/ PressSave \/ \E state \in Button : Press(state)
    BY <1>12 DEF PressWrite, PressSave, HoldInv
  <1>13. CASE UNCHANGED lvars
    <2>1. \A c \in Command : Last(c)' /\ Acked(c)' => Last(c) /\ Acked(c)
      BY <1>13 DEF lvars, serverVars, Last, Unissued, Acked
    <2> QED
      BY <1>t, <1>13, <2>1, HoldServed DEF lvars, serverVars, HoldInv, BeatsFit
  <1> QED
    BY <1>1, <1>2, <1>3, <1>4, <1>5, <1>6, <1>7, <1>8, <1>9, <1>10, <1>11, <1>12, <1>13
    DEF LNext, LoopOn, Served

\* As long as nobody presses a button and no emergency stop rewrites a pending command, the
\* last command a phone has acknowledged stays in force until the operator gives another, for
\* any number of commands and of heartbeats under way, whatever is lost, late, thrown or
\* crashed.
THEOREM CommandsHold ==
  ASSUME Emergency = FALSE, Button = {}
  PROVE  LSpec => []CommandHolds
  <1>1. LInit => TypeInv /\ OrderInv /\ Honesty /\ HoldInv
    BY LinkTypeInit, OrderInit, HonestyInit, HoldInit
  <1>2. TypeInv /\ OrderInv /\ Honesty /\ HoldInv /\ [LNext]_lvars
          => (TypeInv /\ OrderInv /\ Honesty /\ HoldInv)'
    BY LinkTypeStep, OrderStep, HonestyStep, HoldStep
  <1>3. TypeInv /\ HoldInv => CommandHolds
    <2> SUFFICES ASSUME TypeInv, HoldInv, NEW c \in Command, Last(c),
                        command[c].status = "ACKNOWLEDGED"
                 PROVE  IF StateFor[command[c].type] \in Suspended
                        THEN worker.state \in Suspended /\ loop.pc \notin {"busy", "run"}
                        ELSE worker.state \notin Suspended
      BY DEF CommandHolds
    <2>1. Follows(worker, command[c])
      BY DEF HoldInv, InForce, Acked
    <2> QED
      BY <2>1 DEF HoldInv, RoundFits, Follows, SameSide
  <1> QED
    BY <1>1, <1>2, <1>3, PTL DEF LSpec
=============================================================================
