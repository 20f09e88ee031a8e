----------------------------- MODULE PhoneWorker -----------------------------
(***************************************************************************)
(* The Android worker and the execution store it reports to: the heartbeat *)
(* loop of WorkerForegroundService with its JobRunner, the HTTP exchange   *)
(* (lost requests, lost answers, timeouts that leave a request behind),    *)
(* and the job part of the server's heartbeat handler.                     *)
(*                                                                         *)
(* The worker runs one step per heartbeat round, keeps its result until    *)
(* the server acknowledges the step, and writes its state to disk at the   *)
(* end of a round only.  An exception ends the round where it is: memory   *)
(* is kept, nothing is written.  A crash falls back to the disk.           *)
(***************************************************************************)
EXTENDS JobLease

CONSTANTS
  Handler,      \* server threads: how many requests may be under way at once
  Verdicts,     \* the outcomes steps have in this instance
  CaptureStep,  \* the steps that take a screenshot (CAPTURE_SCREEN)
  Impatient,    \* TRUE: a phone may time out while its request is being served
  Others,       \* what else goes on: "time" (leases run out), "operator" (cancel, retry),
                \* "pruning" (of evidence)
  MaxMishaps    \* bound on crashes of phones and ticks of the clock

ASSUME PhoneWorkerAssumption ==
  /\ Verdicts \subseteq Verdict
  /\ CaptureStep \subseteq Step
  /\ Impatient \in BOOLEAN
  /\ Others \subseteq {"time", "operator", "pruning"}
  /\ MaxMishaps \in Nat
  /\ Nobody \notin Handler \cup Lease

VARIABLES
  runner,   \* [Device -> JobRunnerState in memory]
  saved,    \* [Device -> JobRunnerState on disk]
  round,    \* [Device -> where the loop is, the thread it waits on, the job in hand]
  handler,  \* [Handler -> the request served and the answer so far]
  mishaps

storeVars == <<jobStatus, results, lease, uploads, evidence>>
pvars == <<storeVars, runner, saved, round, handler, mishaps>>

NoResult == [step |-> 0, verdict |-> "NONE", cites |-> FALSE]
Fresh == [job |-> 0, lease |-> Nobody, done |-> {}, pending |-> NoResult]

Round(pc, by, j, l) == [pc |-> pc, by |-> by, job |-> j, lease |-> l]
Idle == Round("idle", Nobody, 0, Nobody)

\* A request: the phone, the result it brings with the job and lease of that result;
\* its answer: the step acknowledged, the job handed out and its lease.
Request(pc, d, sent, ack, j, l) ==
  [pc |-> pc, device |-> d, sent |-> sent, ack |-> ack, job |-> j, lease |-> l]
Free == Request("free", Nobody, Fresh, 0, 0, Nobody)

PInit ==
  /\ Init
  /\ runner = [d \in Device |-> Fresh]
  /\ saved = [d \in Device |-> Fresh]
  /\ round = [d \in Device |-> Idle]
  /\ handler = [h \in Handler |-> Free]
  /\ mishaps = 0

Go(d, r) == round' = [round EXCEPT ![d] = r]
Handle(h, request) == handler' = [handler EXCEPT ![h] = request]
Keep(d, state) == runner' = [runner EXCEPT ![d] = state]

-----------------------------------------------------------------------------
(***************************************************************************)
(* The exchange.                                                           *)
(***************************************************************************)
Awaited(h) == \E d \in Device : round[d].by = h

SendHeartbeat(d, h) ==
  LET sent == IF runner[d].pending = NoResult THEN Fresh ELSE [runner[d] EXCEPT !.done = {}]
  IN /\ round[d].pc = "idle"
     /\ handler[h].pc = "free" /\ ~Awaited(h)
     /\ Handle(h, Request("record", d, sent, 0, 0, Nobody))
     /\ Go(d, Round("waiting", h, 0, Nobody))
     /\ UNCHANGED <<storeVars, runner, saved, mishaps>>

\* The request never arrives, the answer never arrives, or nobody waits for it any more.
Lose(h) ==
  /\ handler[h].pc \in {"record", "answer", "refused"}
  /\ Handle(h, Free)
  /\ UNCHANGED <<storeVars, runner, saved, round, mishaps>>

TimeOut(d) ==
  /\ round[d].pc = "waiting"
  /\ Impatient \/ handler[round[d].by].pc = "free"
  /\ Go(d, Idle)
  /\ UNCHANGED <<storeVars, runner, saved, handler, mishaps>>

-----------------------------------------------------------------------------
(***************************************************************************)
(* The server's handler: heartbeat_job.                                    *)
(***************************************************************************)
Proceed(h, pc, ack, j, l) == Handle(h, Request(pc, handler[h].device, handler[h].sent, ack, j, l))

ServeResult(h, lag) ==
  LET d == handler[h].device
      l == handler[h].sent.lease
      r == handler[h].sent.pending
  IN /\ handler[h].pc = "record"
     /\ \/ r = NoResult /\ UNCHANGED storeVars /\ Proceed(h, "claim", 0, 0, Nobody)
        \/ /\ r # NoResult
           /\ \/ RecordStepResult(d, l, r.step, r.verdict, r.cites, lag)
              \/ /\ Admissible(d, l, r.step, r.cites, lag)
                 /\ results[lease[l].job][r.step] # "NONE"
                 /\ UNCHANGED storeVars
           /\ Proceed(h, "claim", r.step, 0, Nobody)
        \/ /\ r # NoResult /\ ~Admissible(d, l, r.step, r.cites, lag)
           /\ UNCHANGED storeVars
           /\ Proceed(h, "refused", 0, 0, Nobody)
     /\ UNCHANGED <<runner, saved, round, mishaps>>

ServeClaim(h, lag) ==
  LET d == handler[h].device
      ack == handler[h].ack
  IN /\ handler[h].pc = "claim"
     /\ \/ \E l \in Lease : ClaimJob(d, l, lag) /\ Proceed(h, "renew", ack, lease'[l].job, l)
        \/ /\ ClaimNothing(d, lag)
           /\ \/ \E l \in Lease :
                   /\ Active(l) /\ ~Late(l, lag) /\ lease[l].device = d
                   /\ Proceed(h, "renew", ack, lease[l].job, l)
              \/ ~Holding(d, lag) /\ Proceed(h, "answer", ack, 0, Nobody)
     /\ UNCHANGED <<runner, saved, round, mishaps>>

ServeRenew(h, lag) ==
  LET d == handler[h].device
      l == handler[h].lease
      held == Active(l) /\ lease[l].device = d /\ ~Late(l, lag)
  IN /\ handler[h].pc = "renew"
     /\ \/ RenewLease(d, l, lag) /\ Proceed(h, "answer", handler[h].ack, handler[h].job, l)
        \/ ~held /\ UNCHANGED storeVars /\ Proceed(h, "refused", 0, 0, Nobody)
     /\ UNCHANGED <<runner, saved, round, mishaps>>

-----------------------------------------------------------------------------
(***************************************************************************)
(* The rest of the worker's round.                                         *)
(***************************************************************************)

\* Mutant: any answer settles the result.
AcknowledgeAlways(state, step) ==
  [state EXCEPT !.pending = NoResult, !.done = @ \cup {step}]

\* Mutant: a step that failed counts as done.
AcknowledgeFailures(state, step) ==
  IF state.pending = NoResult \/ state.pending.step # step THEN state
  ELSE [state EXCEPT !.pending = NoResult, !.done = @ \cup {step}]

\* JobRunner.acknowledge
Acknowledge(state, step) ==
  IF state.pending = NoResult \/ state.pending.step # step THEN state
  ELSE [state EXCEPT !.pending = NoResult,
                     !.done = IF state.pending.verdict = "SUCCEEDED" THEN @ \cup {step} ELSE @]

\* The answer is taken: acknowledge, then run the job it brings, or drop the finished one
\* (a worker that is not BUSY, resumed or restarted since, keeps its notes of it).
Receive(d) ==
  LET h == round[d].by
      answer == handler[h]
      state == Acknowledge(runner[d], answer.ack)
  IN /\ round[d].pc = "waiting"
     /\ answer.pc = "answer"
     /\ Handle(h, Free)
     /\ IF answer.job # 0
        THEN Keep(d, state) /\ Go(d, Round("run", Nobody, answer.job, answer.lease))
        ELSE /\ \/ Keep(d, state)
                \/ state.pending = NoResult /\ Keep(d, Fresh)
             /\ Go(d, Round("save", Nobody, 0, Nobody))
     /\ UNCHANGED <<storeVars, saved, mishaps>>

\* An error status: the round ends with an exception.
ReceiveRefusal(d) ==
  LET h == round[d].by IN
  /\ round[d].pc = "waiting"
  /\ handler[h].pc = "refused"
  /\ Handle(h, Free)
  /\ Go(d, Idle)
  /\ UNCHANGED <<storeVars, runner, saved, mishaps>>

\* JobRunner.runNext.  (It does nothing while a result waits to be acknowledged; here
\* none does: a waiting result was in the request and is acknowledged by the answer.)

\* What the worker has done of the job in hand; another job starts from nothing.
DoneOf(d) == IF runner[d].job = round[d].job THEN runner[d].done ELSE {}

\* Mutant: the steps are taken as they come.
AnyLeft(d, s) == s \in Step \ DoneOf(d)

\* The first step left, by ordinal.
FirstLeft(d, s) == s \in Step \ DoneOf(d) /\ \A r \in Step \ DoneOf(d) : s <= r

RunStep(d, s, v) ==
  LET current == [job |-> round[d].job, lease |-> round[d].lease, done |-> DoneOf(d)]
  IN /\ round[d].pc = "run"
     /\ runner[d].pending = NoResult
     /\ FirstLeft(d, s)
     /\ Keep(d, [job |-> current.job, lease |-> current.lease, done |-> current.done,
                 pending |-> [step |-> s, verdict |-> v, cites |-> FALSE]])
     /\ Go(d, Round(IF s \in CaptureStep /\ v = "SUCCEEDED" THEN "upload" ELSE "save",
                    Nobody, 0, Nobody))
     /\ UNCHANGED <<storeVars, saved, handler, mishaps>>

RunOut(d) ==
  /\ round[d].pc = "run"
  /\ runner[d].pending = NoResult /\ DoneOf(d) = Step
  /\ Keep(d, [job |-> round[d].job, lease |-> round[d].lease, done |-> DoneOf(d),
              pending |-> NoResult])
  /\ Go(d, Round("save", Nobody, 0, Nobody))
  /\ UNCHANGED <<storeVars, saved, handler, mishaps>>

\* uploadEvidence: validated, then stored, then attached to the result.
UploadEvidence(d, lag) ==
  /\ round[d].pc = "upload"
  /\ ValidateUpload(d, runner[d].lease, runner[d].pending.step, lag)
  /\ Go(d, Round("store", Nobody, 0, Nobody))
  /\ UNCHANGED <<runner, saved, handler, mishaps>>

AttachEvidence(d) ==
  LET e == <<runner[d].job, runner[d].pending.step, d>> IN
  /\ round[d].pc = "store"
  /\ e \in evidence \ uploads
  /\ Keep(d, [runner[d] EXCEPT !.pending = [@ EXCEPT !.cites = TRUE]])
  /\ Go(d, Round("save", Nobody, 0, Nobody))
  /\ UNCHANGED <<storeVars, saved, handler, mishaps>>

\* The upload is refused or its answer lost: an exception, the evidence is not attached.
UploadFails(d) ==
  /\ round[d].pc \in {"upload", "store"}
  /\ Go(d, Idle)
  /\ UNCHANGED <<storeVars, runner, saved, handler, mishaps>>

Save(d) ==
  /\ round[d].pc = "save"
  /\ saved' = [saved EXCEPT ![d] = runner[d]]
  /\ Go(d, Idle)
  /\ UNCHANGED <<storeVars, runner, handler, mishaps>>

Crash(d) ==
  /\ mishaps < MaxMishaps /\ mishaps' = mishaps + 1
  /\ Keep(d, saved[d])
  /\ Go(d, Idle)
  /\ UNCHANGED <<storeVars, saved, handler>>

\* What goes on without the worker.  (heartbeat_job prunes evidence at most once a day, in a
\* transaction of its own, whichever phone's heartbeat comes first.)
TimePasses ==
  /\ mishaps < MaxMishaps /\ mishaps' = mishaps + 1
  /\ "time" \in Others
  /\ Tick
  /\ UNCHANGED <<runner, saved, round, handler>>

Elsewhere ==
  /\ \/ \E j \in Job : CreateJob(j)
     \/ \E e \in uploads : StoreEvidence(e)
     \/ "time" \in Others /\ \E lag \in Lag : ExpireLeases(lag)
     \/ "operator" \in Others /\ (CancelAll \/ \E j \in Job : RetryTaskJobs(j))
     \/ "pruning" \in Others /\ \E e \in evidence : PruneEvidence(e)
  /\ UNCHANGED <<runner, saved, round, handler, mishaps>>

-----------------------------------------------------------------------------
Served(h) == \E lag \in Lag : ServeResult(h, lag) \/ ServeClaim(h, lag) \/ ServeRenew(h, lag)

Ran(d) ==
  \/ RunOut(d) \/ \E s \in Step, v \in Verdicts : RunStep(d, s, v)
  \/ \E lag \in Lag : UploadEvidence(d, lag)
  \/ AttachEvidence(d) \/ Save(d)

PNext ==
  \/ \E d \in Device, h \in Handler : SendHeartbeat(d, h)
  \/ \E h \in Handler : Lose(h) \/ Served(h)
  \/ \E d \in Device : TimeOut(d) \/ Receive(d) \/ ReceiveRefusal(d) \/ Ran(d)
                       \/ UploadFails(d) \/ Crash(d)
  \/ TimePasses \/ Elsewhere

PSpec == PInit /\ [][PNext]_pvars

\* The loop keeps going round, the server works on what reaches it, and of the messages
\* sent again and again some get through.  Nothing makes a crash or a loss happen.
Fairness ==
  /\ \A d \in Device :
       /\ WF_pvars(\E h \in Handler : SendHeartbeat(d, h))
       /\ WF_pvars(TimeOut(d)) /\ WF_pvars(Ran(d))
       /\ WF_pvars(ReceiveRefusal(d)) /\ SF_pvars(Receive(d))
       /\ SF_pvars(\E h \in Handler : handler[h].device = d /\ Served(h))
  /\ \A h \in Handler : WF_pvars(Served(h)) /\ WF_pvars(~Awaited(h) /\ Lose(h))

PFairSpec == PSpec /\ Fairness

-----------------------------------------------------------------------------
(***************************************************************************)
(* Properties                                                              *)
(***************************************************************************)
RunnerState ==
  [job : Job \cup {0}, lease : Lease \cup {Nobody}, done : SUBSET Step,
   pending : [step : Step \cup {0}, verdict : Verdict \cup {"NONE"}, cites : BOOLEAN]]

PTypeOK ==
  /\ TypeOK
  /\ runner \in [Device -> RunnerState] /\ saved \in [Device -> RunnerState]
  /\ round \in [Device -> [pc : {"idle", "waiting", "run", "upload", "store", "save"},
                           by : Handler \cup {Nobody}, job : Job \cup {0},
                           lease : Lease \cup {Nobody}]]
  /\ handler \in [Handler -> [pc : {"free", "record", "claim", "renew", "answer", "refused"},
                              device : Device \cup {Nobody}, sent : RunnerState,
                              ack : Step \cup {0}, job : Job \cup {0},
                              lease : Lease \cup {Nobody}]]
  /\ mishaps \in 0..MaxMishaps

\* A result that lets the job go on: a success, or the row an earlier try of the step
\* left, which stands when a later try succeeds.
Passed(j, s) == results[j][s] \in {"SUCCEEDED", "RETRYABLE", "HUMAN_TAKEOVER"}

\* A step the worker counts as done, in memory or on disk, has passed at the server: no
\* lost answer, late request, crash, retry or change of phone makes the worker skip one.
DoneIsRecorded ==
  \A d \in Device :
    /\ \A s \in runner[d].done : Passed(runner[d].job, s)
    /\ \A s \in saved[d].done : Passed(saved[d].job, s)

\* Steps are settled in order: a result is recorded only once every earlier step of the
\* job has passed, though each phone decides by its own notes which step comes next.
StepsInOrder ==
  \A j \in Job, s \in Step :
    results[j][s] # "NONE" => \A r \in Step : r < s => Passed(j, r)

\* The result of a step that demands evidence is recorded only on a screenshot that the
\* phone holding the job has stored for it and that is still there: neither one an earlier
\* holder left nor one that has been pruned will do, whatever uploads were lost, repeated
\* or left behind by a crash between taking the screenshot and reporting the step.
EvidenceBacksResults ==
  [][\A j \in Job, s \in EvidenceStep : results'[j][s] # results[j][s] =>
       \E l \in Lease : /\ Active(l) /\ lease[l].job = j
                       /\ <<j, s, lease[l].device>> \in evidence]_pvars

\* A job gets done, whatever messages are lost on the way and whenever workers crash, as
\* long as its lease does not run out and its last result is not in doubt.
JobsGetDone == \A j \in Job : jobStatus[j] # "NONE" ~> jobStatus[j] \in Terminal

-----------------------------------------------------------------------------
(***************************************************************************)
(* What the documentation and the tests say and the code does not do       *)
(***************************************************************************)

\* A result that waits on a phone reaches the server in the end: repeating it is
\* harmless, so a lost answer costs a round and no more.
ResultsArrive ==
  \A d \in Device : runner[d].pending # NoResult ~> runner[d].pending = NoResult
=============================================================================
