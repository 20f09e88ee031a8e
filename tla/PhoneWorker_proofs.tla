-------------------------- MODULE PhoneWorker_proofs --------------------------
(***************************************************************************)
(* What holds of the phones and the store together, for any phones, jobs,  *)
(* steps, leases, server threads and verdicts, whatever messages are lost, *)
(* late or repeated and whenever a phone crashes: types, and that what a   *)
(* phone notes as done, and the order in which results are recorded, agree *)
(* with the store.                                                         *)
(*                                                                         *)
(* The argument: a recorded result is never changed and an issued lease    *)
(* never changes its job, so what was true of a phone's note when it was   *)
(* made stays true however late the note is used: in memory, on disk, in a *)
(* request under way, or in an answer.                                     *)
(***************************************************************************)
EXTENDS PhoneWorker, JobLease_proofs

PassedIn(res, j, s) == res[j][s] \in {"SUCCEEDED", "RETRYABLE", "HUMAN_TAKEOVER"}

\* The lease was issued for the job.
IssuedFor(l, j, les) ==
  l \in Lease /\ j \in Job /\ les[l].status # "FREE" /\ les[l].job = j

\* A worker's notes (JobRunnerState) agree with the tables.
NoteFits(n, res, les) ==
  /\ n \in RunnerState
  /\ n.pending # NoResult =>
       /\ n.pending.step \in Step /\ n.pending.verdict \in Verdict
       /\ IssuedFor(n.lease, n.job, les)
       /\ \A r \in Step : r < n.pending.step => PassedIn(res, n.job, r)
  /\ \A s \in n.done : n.job \in Job /\ PassedIn(res, n.job, s)

NotesFit ==
  \A d \in Device : NoteFits(runner[d], results, lease) /\ NoteFits(saved[d], results, lease)

HandlerRow ==
  [pc : {"free", "record", "claim", "renew", "answer", "refused"},
   device : Device \cup {Nobody}, sent : RunnerState, ack : Step \cup {0},
   job : Job \cup {0}, lease : Lease \cup {Nobody}]

RoundRow ==
  [pc : {"idle", "waiting", "run", "upload", "store", "save"}, by : Handler \cup {Nobody},
   job : Job \cup {0}, lease : Lease \cup {Nobody}]

\* A request, and an answer: what it acknowledges has passed if the phone thinks so.
HandlerFits(q, res, les) ==
  /\ q \in HandlerRow
  /\ q.pc # "free" => q.device \in Device
  /\ NoteFits(q.sent, res, les)
  /\ q.ack # 0 => /\ q.sent.pending # NoResult /\ q.ack = q.sent.pending.step
                  /\ q.sent.pending.verdict = "SUCCEEDED" => PassedIn(res, q.sent.job, q.ack)
  /\ q.pc = "renew" \/ q.job # 0 => IssuedFor(q.lease, q.job, les)

HandlersFit == \A h \in Handler : HandlerFits(handler[h], results, lease)

\* What a phone with these notes sends.
SentBy(n) == IF n.pending = NoResult THEN Fresh ELSE [n EXCEPT !.done = {}]

\* A phone waits for one thread, which nobody else waits for and which serves what the phone
\* has sent, or has nothing for it.
RoundsFit ==
  \A d \in Device :
    /\ round[d] \in RoundRow
    /\ round[d].pc = "waiting" <=> round[d].by # Nobody
    /\ \A k \in Device : round[d].by # Nobody /\ round[k].by = round[d].by => k = d
    /\ round[d].pc = "waiting" /\ handler[round[d].by].pc # "free" =>
         handler[round[d].by].device = d /\ handler[round[d].by].sent = SentBy(runner[d])
    /\ round[d].pc = "run" => IssuedFor(round[d].lease, round[d].job, lease)
    /\ round[d].pc \in {"upload", "store"} => runner[d].pending # NoResult

PhoneTyped ==
  /\ runner \in [Device -> RunnerState] /\ saved \in [Device -> RunnerState]
  /\ round \in [Device -> RoundRow] /\ handler \in [Handler -> HandlerRow]
  /\ mishaps \in 0..MaxMishaps

PInv ==
  /\ IInv /\ PhoneTyped /\ NotesFit /\ HandlersFit /\ RoundsFit
  /\ StepsInOrder

-----------------------------------------------------------------------------
(***************************************************************************)
(* The store goes on.                                                      *)
(***************************************************************************)
GoesOn(res, res2, les, les2) ==
  /\ \A j \in Job, s \in Step : res[j][s] # "NONE" => res2[j][s] = res[j][s]
  /\ \A l \in Lease : les[l].status # "FREE" =>
       /\ les2[l].status # "FREE"
       /\ les2[l].job = les[l].job /\ les2[l].device = les[l].device

StoreGoesOn == IInv' /\ GoesOn(results, results', lease, lease')

\* Phones also upload screenshots of steps that do not demand evidence.
Stored ==
  \/ [Next]_vars
  \/ \E d \in Device, l \in Lease, s \in Step, lag \in Lag : ValidateUpload(d, l, s, lag)

LEMMA StoreSteps == ASSUME IInv, Stored PROVE StoreGoesOn
<1>1. CASE \E d \in Device, l \in Lease, s \in Step, lag \in Lag : ValidateUpload(d, l, s, lag)
  <2>1. PICK d \in Device, l \in Lease, s \in Step, lag \in Lag : ValidateUpload(d, l, s, lag)
    BY <1>1
  <2>2. UNCHANGED <<jobStatus, results, lease, evidence>>
    BY <2>1 DEF ValidateUpload
  <2>3. lease[l].job \in Job
    BY <2>1 DEF ValidateUpload, Active, IInv, RowOK
  <2>4. TypeOK' /\ RowOK'
    BY <2>1, <2>2, <2>3 DEF ValidateUpload, IInv, TypeOK, RowOK
  <2>5. OneHolder' /\ LeasedIffHeld' /\ VerdictsMatch'
    BY <2>2 DEF IInv, OneHolder, LeasedIffHeld, VerdictsMatch, Active
  <2> QED BY <2>2, <2>4, <2>5 DEF StoreGoesOn, IInv, GoesOn
<1>2. CASE [Next]_vars
  <2>1. IInv'
    BY <1>2, TypeStep, SafetyStep DEF IInv
  <2>2. \A l \in Lease : lease[l].status # "FREE" =>
          /\ lease'[l].status # "FREE"
          /\ lease'[l].job = lease[l].job /\ lease'[l].device = lease[l].device
    <3> SUFFICES ASSUME NEW l \in Lease, lease[l].status # "FREE"
                 PROVE  /\ lease'[l].status # "FREE"
                        /\ lease'[l].job = lease[l].job /\ lease'[l].device = lease[l].device
      OBVIOUS
    <3>1. lease'[l].job = lease[l].job /\ lease'[l].device = lease[l].device
      BY <1>2, RowsKept DEF IInv
    <3>2. lease[l].job \in Job
      BY DEF IInv, RowOK
    <3>3. lease'[l].status # "FREE"
      BY <2>1, <3>1, <3>2 DEF IInv, RowOK, Job
    <3> QED BY <3>1, <3>3
  <2>3. ASSUME NEW j \in Job, NEW s \in Step, results[j][s] # "NONE"
        PROVE  results'[j][s] = results[j][s]
    <3>1. ASSUME NEW d \in Device, NEW l \in Lease, NEW r \in Step, NEW v \in Verdict,
                 NEW cites \in BOOLEAN, NEW lag \in Lag, RecordStepResult(d, l, r, v, cites, lag)
          PROVE  results'[j][s] = results[j][s]
      BY <2>3, <3>1 DEF RecordStepResult, IInv, TypeOK
    <3> QED BY <1>2, <3>1 DEF Next, vars, CreateJob, ClaimNothing, ClaimJob, ExpireLeases, RenewLease,
               CancelAll, RetryTaskJobs, ValidateUpload, StoreEvidence, PruneEvidence, Tick
  <2> QED BY <2>1, <2>2, <2>3 DEF StoreGoesOn, GoesOn
<1> QED BY <1>1, <1>2 DEF Stored

LEMMA StoreStands == ASSUME IInv, UNCHANGED storeVars PROVE StoreGoesOn
<1>1. UNCHANGED vars
  BY DEF storeVars, vars
<1> QED BY <1>1, StoreSteps DEF Stored

\* What fitted the tables fits them still.
LEMMA NoteOn ==
  ASSUME NEW res, NEW res2, NEW les, NEW les2, GoesOn(res, res2, les, les2),
         NEW n, NoteFits(n, res, les)
  PROVE  NoteFits(n, res2, les2)
<1>1. n.done \subseteq Step
  BY DEF NoteFits, RunnerState
<1>2. \A j \in Job, s \in Step : PassedIn(res, j, s) => PassedIn(res2, j, s)
  BY DEF GoesOn, PassedIn
<1>3. \A l, j : IssuedFor(l, j, les) => j \in Job /\ IssuedFor(l, j, les2)
  BY DEF GoesOn, IssuedFor
<1> QED BY <1>1, <1>2, <1>3 DEF NoteFits

LEMMA HandlerOn ==
  ASSUME NEW res, NEW res2, NEW les, NEW les2, GoesOn(res, res2, les, les2),
         NEW q, HandlerFits(q, res, les)
  PROVE  HandlerFits(q, res2, les2)
<1>1. NoteFits(q.sent, res2, les2)
  BY NoteOn DEF HandlerFits
<1>2. \A j \in Job, s \in Step : PassedIn(res, j, s) => PassedIn(res2, j, s)
  BY DEF GoesOn, PassedIn
<1>3. \A l, j : IssuedFor(l, j, les) => j \in Job /\ IssuedFor(l, j, les2)
  BY DEF GoesOn, IssuedFor
<1>4. q.ack # 0 => q.sent.job \in Job /\ q.ack \in Step
  BY DEF HandlerFits, NoteFits, IssuedFor
<1> QED BY <1>1, <1>2, <1>3, <1>4 DEF HandlerFits

\* Whatever the store does without recording a result, the order of the results stays.
LEMMA TablesOn == ASSUME PInv, StoreGoesOn, results' = results PROVE StepsInOrder'
BY DEF PInv, StepsInOrder, Passed

-----------------------------------------------------------------------------
(***************************************************************************)
(* The phones and the threads go on.                                       *)
(***************************************************************************)
LEMMA FreshFits ==
  ASSUME NEW res, NEW les PROVE NoteFits(Fresh, res, les) /\ Fresh.pending = NoResult
BY DEF NoteFits, Fresh, NoResult, RunnerState

LEMMA SentFits ==
  ASSUME NEW res, NEW les, NEW n, NoteFits(n, res, les)
  PROVE  /\ NoteFits(SentBy(n), res, les)
         /\ SentBy(n).pending = n.pending
         /\ n.pending # NoResult => SentBy(n).job = n.job /\ SentBy(n).lease = n.lease
<1>1. CASE n.pending = NoResult
  BY <1>1, FreshFits DEF SentBy
<1>2. CASE n.pending # NoResult
  <2> DEFINE m == [n EXCEPT !.done = {}]
  <2>1. n \in RunnerState
    BY DEF NoteFits
  <2>2. /\ m \in RunnerState /\ m.done = {} /\ m.pending = n.pending
        /\ m.job = n.job /\ m.lease = n.lease
    BY <2>1 DEF RunnerState
  <2>3. SentBy(n) = m
    BY <1>2 DEF SentBy
  <2> HIDE DEF m
  <2> QED BY <2>2, <2>3 DEF NoteFits
<1> QED BY <1>1, <1>2

LEMMA Here ==
  ASSUME PInv
  PROVE  /\ \A d \in Device : runner[d] \in RunnerState /\ round[d] \in RoundRow
         /\ \A h \in Handler : handler[h] \in HandlerRow
BY DEF PInv, PhoneTyped

\* The notes of one phone change.
LEMMA NotesPut ==
  ASSUME PInv, StoreGoesOn, NEW d \in Device, NEW n, Keep(d, n), saved' = saved,
         NoteFits(n, results', lease')
  PROVE  NotesFit' /\ runner' \in [Device -> RunnerState] /\ saved' \in [Device -> RunnerState]
<1>1. \A k \in Device : runner'[k] = IF k = d THEN n ELSE runner[k]
  BY DEF PInv, PhoneTyped, Keep
<1>2. NotesFit'
  BY <1>1, NoteOn DEF PInv, NotesFit, StoreGoesOn
<1>3. n \in RunnerState
  BY DEF NoteFits
<1> QED BY <1>2, <1>3 DEF PInv, PhoneTyped, Keep

LEMMA NotesStand ==
  ASSUME PInv, StoreGoesOn, UNCHANGED <<runner, saved>>
  PROVE  NotesFit' /\ runner' \in [Device -> RunnerState] /\ saved' \in [Device -> RunnerState]
BY NoteOn DEF PInv, PhoneTyped, NotesFit, StoreGoesOn

\* One thread changes.
LEMMA HandlersPut ==
  ASSUME PInv, StoreGoesOn, NEW h \in Handler, NEW q, Handle(h, q),
         HandlerFits(q, results', lease')
  PROVE  HandlersFit' /\ handler' \in [Handler -> HandlerRow]
<1>1. \A k \in Handler : handler'[k] = IF k = h THEN q ELSE handler[k]
  BY DEF PInv, PhoneTyped, Handle
<1>2. HandlersFit'
  BY <1>1, HandlerOn DEF PInv, HandlersFit, StoreGoesOn
<1>3. q \in HandlerRow
  BY DEF HandlerFits
<1> QED BY <1>2, <1>3 DEF PInv, PhoneTyped, Handle

LEMMA HandlersStand ==
  ASSUME PInv, StoreGoesOn, handler' = handler
  PROVE  HandlersFit' /\ handler' \in [Handler -> HandlerRow]
BY HandlerOn DEF PInv, PhoneTyped, HandlersFit, StoreGoesOn

LEMMA FreeFits ==
  ASSUME NEW res, NEW les PROVE HandlerFits(Free, res, les) /\ Free.pc = "free"
<1>1. NoteFits(Fresh, res, les)
  BY FreshFits
<1>2. Fresh \in RunnerState
  BY <1>1 DEF NoteFits
<1> QED BY <1>1, <1>2 DEF HandlerFits, Free, Request, HandlerRow

\* One phone's loop goes on, to where it waits for nobody; its thread may be freed.
LEMMA RoundsGo ==
  ASSUME PInv, StoreGoesOn, NEW d \in Device, NEW r \in RoundRow, Go(d, r),
         r.pc # "waiting", r.by = Nobody,
         r.pc = "run" => IssuedFor(r.lease, r.job, lease'),
         r.pc \in {"upload", "store"} => runner'[d].pending # NoResult,
         \A k \in Device : k # d => runner'[k] = runner[k],
         \A h \in Handler : handler'[h] = handler[h] \/ handler'[h].pc = "free"
  PROVE  RoundsFit' /\ round' \in [Device -> RoundRow]
<1>1. \A k \in Device : round'[k] = IF k = d THEN r ELSE round[k]
  BY DEF PInv, PhoneTyped, Go
<1>2. \A l, j : IssuedFor(l, j, lease) => IssuedFor(l, j, lease')
  BY DEF StoreGoesOn, GoesOn, IssuedFor
<1>3. \A k \in Device : round[k].pc = "waiting" => round[k].by \in Handler
  BY DEF PInv, RoundsFit, RoundRow
<1>4. RoundsFit'
  <2> SUFFICES ASSUME NEW k \in Device
               PROVE  /\ round'[k] \in RoundRow
                      /\ round'[k].pc = "waiting" <=> round'[k].by # Nobody
                      /\ \A i \in Device : round'[k].by # Nobody /\ round'[i].by = round'[k].by => i = k
                      /\ round'[k].pc = "waiting" /\ handler'[round'[k].by].pc # "free" =>
                           /\ handler'[round'[k].by].device = k
                           /\ handler'[round'[k].by].sent = SentBy(runner'[k])
                      /\ round'[k].pc = "run" => IssuedFor(round'[k].lease, round'[k].job, lease')
                      /\ round'[k].pc \in {"upload", "store"} => runner'[k].pending # NoResult
    BY DEF RoundsFit, SentBy
  <2>1. CASE k = d
    BY <1>1, <2>1
  <2>2. CASE k # d
    BY <1>1, <1>2, <1>3, <2>2 DEF PInv, RoundsFit
  <2> QED BY <2>1, <2>2
<1> QED BY <1>4 DEF PInv, PhoneTyped, Go

\* The loops stand; a thread may go on with the request it has, or be freed.
LEMMA RoundsStand ==
  ASSUME PInv, StoreGoesOn, UNCHANGED <<round, runner>>,
         \A h \in Handler :
           \/ handler'[h] = handler[h]
           \/ handler'[h].pc = "free"
           \/ /\ handler[h].pc # "free"
              /\ handler'[h].device = handler[h].device /\ handler'[h].sent = handler[h].sent
  PROVE  RoundsFit' /\ round' \in [Device -> RoundRow]
<1>1. \A l, j : IssuedFor(l, j, lease) => IssuedFor(l, j, lease')
  BY DEF StoreGoesOn, GoesOn, IssuedFor
<1>2. \A k \in Device : round[k].pc = "waiting" => round[k].by \in Handler
  BY DEF PInv, RoundsFit, RoundRow
<1>3. RoundsFit'
  <2> SUFFICES ASSUME NEW k \in Device
               PROVE  /\ round[k].pc = "waiting" /\ handler'[round[k].by].pc # "free" =>
                           /\ handler'[round[k].by].device = k
                           /\ handler'[round[k].by].sent = SentBy(runner[k])
                      /\ round[k].pc = "run" => IssuedFor(round[k].lease, round[k].job, lease')
    BY DEF PInv, RoundsFit, SentBy
  <2> QED BY <1>1, <1>2 DEF PInv, RoundsFit
<1> QED BY <1>3 DEF PInv, PhoneTyped

-----------------------------------------------------------------------------
(***************************************************************************)
(* The actions.                                                            *)
(***************************************************************************)
LEMMA SendInv ==
  ASSUME PInv, NEW d \in Device, NEW h \in Handler, SendHeartbeat(d, h) PROVE PInv'
<1> DEFINE q == Request("record", d, SentBy(runner[d]), 0, 0, Nobody)
           r == Round("waiting", h, 0, Nobody)
<1>1. /\ round[d].pc = "idle" /\ handler[h].pc = "free" /\ ~Awaited(h)
      /\ Handle(h, q) /\ Go(d, r) /\ UNCHANGED <<storeVars, runner, saved, mishaps>>
  BY DEF SendHeartbeat, SentBy
<1>2. StoreGoesOn /\ StepsInOrder'
  BY <1>1, StoreStands, TablesOn DEF PInv, storeVars
<1>3. NoteFits(SentBy(runner[d]), results', lease')
  BY <1>2, SentFits, NoteOn DEF PInv, NotesFit, StoreGoesOn
<1>4. HandlerFits(q, results', lease') /\ q.pc = "record" /\ q.device = d /\ q.sent = SentBy(runner[d])
  <2>1. SentBy(runner[d]) \in RunnerState
    BY <1>3 DEF NoteFits
  <2> QED BY <1>3, <2>1 DEF HandlerFits, Request, HandlerRow
<1>5. r \in RoundRow /\ r.pc = "waiting" /\ r.by = h /\ h # Nobody
  BY PhoneWorkerAssumption DEF Round, RoundRow
<1> HIDE DEF q, r
<1>6. \A k \in Device : round'[k] = IF k = d THEN r ELSE round[k]
  BY <1>1 DEF PInv, PhoneTyped, Go
<1>7. \A k \in Handler : handler'[k] = IF k = h THEN q ELSE handler[k]
  BY <1>1 DEF PInv, PhoneTyped, Handle
<1>8. \A k \in Device : round[k].by # h
  BY <1>1 DEF Awaited
<1>9. RoundsFit' /\ round' \in [Device -> RoundRow]
  <2>1. \A l, j : IssuedFor(l, j, lease) => IssuedFor(l, j, lease')
    BY <1>2 DEF StoreGoesOn, GoesOn, IssuedFor
  <2>2. \A k \in Device : round[k].pc = "waiting" => round[k].by \in Handler
    BY DEF PInv, RoundsFit, RoundRow
  <2>3. runner' = runner
    BY <1>1
  <2> SUFFICES ASSUME NEW k \in Device
               PROVE  /\ round'[k] \in RoundRow
                      /\ round'[k].pc = "waiting" <=> round'[k].by # Nobody
                      /\ \A i \in Device : round'[k].by # Nobody /\ round'[i].by = round'[k].by => i = k
                      /\ round'[k].pc = "waiting" /\ handler'[round'[k].by].pc # "free" =>
                           /\ handler'[round'[k].by].device = k
                           /\ handler'[round'[k].by].sent = SentBy(runner[k])
                      /\ round'[k].pc = "run" => IssuedFor(round'[k].lease, round'[k].job, lease')
                      /\ round'[k].pc \in {"upload", "store"} => runner[k].pending # NoResult
    BY <1>1, <1>5, <2>3 DEF RoundsFit, SentBy, PInv, PhoneTyped, Go
  <2>4. CASE k = d
    BY <1>4, <1>5, <1>6, <1>7, <1>8, <2>4
  <2>5. CASE k # d
    BY <1>5, <1>6, <1>7, <1>8, <2>1, <2>2, <2>5 DEF PInv, RoundsFit
  <2> QED BY <2>4, <2>5
<1>10. HandlersFit' /\ handler' \in [Handler -> HandlerRow]
  BY <1>1, <1>2, <1>4, HandlersPut
<1>11. NotesFit' /\ runner' \in [Device -> RunnerState] /\ saved' \in [Device -> RunnerState]
  BY <1>1, <1>2, NotesStand
<1> QED BY <1>1, <1>2, <1>9, <1>10, <1>11 DEF PInv, PhoneTyped, StoreGoesOn

LEMMA LoseInv == ASSUME PInv, NEW h \in Handler, Lose(h) PROVE PInv'
<1>1. Handle(h, Free) /\ UNCHANGED <<storeVars, runner, saved, round, mishaps>>
  BY DEF Lose
<1>2. StoreGoesOn /\ StepsInOrder'
  BY <1>1, StoreStands, TablesOn DEF PInv, storeVars
<1>3. HandlersFit' /\ handler' \in [Handler -> HandlerRow]
  BY <1>1, <1>2, FreeFits, HandlersPut
<1>4. \A k \in Handler : handler'[k] = handler[k] \/ handler'[k].pc = "free"
  BY <1>1, FreeFits DEF Handle, PInv, PhoneTyped
<1>5. RoundsFit' /\ round' \in [Device -> RoundRow]
  BY <1>1, <1>2, <1>4, RoundsStand
<1>6. NotesFit' /\ runner' \in [Device -> RunnerState] /\ saved' \in [Device -> RunnerState]
  BY <1>1, <1>2, NotesStand
<1> QED BY <1>1, <1>2, <1>3, <1>5, <1>6 DEF PInv, PhoneTyped, StoreGoesOn

\* A thread goes on with the request it has.
LEMMA ProceedInv ==
  ASSUME PInv, StoreGoesOn, StepsInOrder', NEW h \in Handler,
         handler[h].pc # "free",
         NEW pc \in {"claim", "renew", "answer", "refused"}, NEW ack, NEW j, NEW l,
         Proceed(h, pc, ack, j, l), UNCHANGED <<runner, saved, round, mishaps>>,
         ack # 0 =>
           /\ handler[h].sent.pending # NoResult /\ ack = handler[h].sent.pending.step
           /\ handler[h].sent.pending.verdict = "SUCCEEDED" => PassedIn(results', handler[h].sent.job, ack),
         \/ IssuedFor(l, j, lease')
         \/ pc # "renew" /\ j = 0 /\ l = Nobody
  PROVE  PInv'
<1> DEFINE q == Request(pc, handler[h].device, handler[h].sent, ack, j, l)
<1>1. Handle(h, q)
  BY DEF Proceed
<1>2. NoteFits(handler[h].sent, results', lease')
  BY NoteOn DEF PInv, HandlersFit, HandlerFits, StoreGoesOn
<1>3. ack \in Step \cup {0}
  BY <1>2 DEF NoteFits
<1>4. /\ q.pc = pc /\ q.device = handler[h].device /\ q.sent = handler[h].sent /\ q.ack = ack
      /\ q.job = j /\ q.lease = l
  BY DEF Request
<1>5. q \in HandlerRow
  BY <1>3, Here DEF Request, HandlerRow, IssuedFor
<1>6. handler[h].device \in Device
  BY DEF PInv, HandlersFit, HandlerFits
<1> HIDE DEF q
<1>7. HandlerFits(q, results', lease')
  BY <1>2, <1>4, <1>5, <1>6 DEF HandlerFits
<1>8. HandlersFit' /\ handler' \in [Handler -> HandlerRow]
  BY <1>1, <1>7, HandlersPut
<1>9. RoundsFit' /\ round' \in [Device -> RoundRow]
  <2>1. \A k \in Handler : handler'[k] = IF k = h THEN q ELSE handler[k]
    BY <1>1 DEF Handle, PInv, PhoneTyped
  <2> QED BY <1>4, <2>1, RoundsStand
<1>10. NotesFit' /\ runner' \in [Device -> RunnerState] /\ saved' \in [Device -> RunnerState]
  BY NotesStand
<1> QED BY <1>8, <1>9, <1>10 DEF PInv, PhoneTyped, StoreGoesOn

\* The job whose lease a device holds is under way: no step of it has failed.
LEMMA HeldNotFailed ==
  ASSUME IInv, NEW l \in Lease, Active(l), NEW s \in Step
  PROVE  lease[l].job \in Job /\ results[lease[l].job][s] # "FAILED"
BY DEF IInv, RowOK, LeasedIffHeld, VerdictsMatch, Active

LEMMA ServeResultInv ==
  ASSUME PInv, NEW h \in Handler, NEW lag \in Lag, ServeResult(h, lag) PROVE PInv'
<1> DEFINE q == handler[h]
           d == q.device
           l == q.sent.lease
           r == q.sent.pending
<1>0. /\ q.pc = "record" /\ d \in Device /\ HandlerFits(q, results, lease)
      /\ UNCHANGED <<runner, saved, round, mishaps>>
  BY DEF ServeResult, PInv, HandlersFit, HandlerFits
<1>1. r # NoResult =>
        /\ r.step \in Step /\ r.step # 0 /\ r.verdict \in Verdict /\ r.cites \in BOOLEAN
        /\ IssuedFor(l, q.sent.job, lease)
        /\ \A k \in Step : k < r.step => PassedIn(results, q.sent.job, k)
  BY <1>0 DEF HandlerFits, NoteFits, RunnerState, Step
<1>2. CASE UNCHANGED storeVars /\ \/ Proceed(h, "claim", 0, 0, Nobody)
                                  \/ Proceed(h, "refused", 0, 0, Nobody)
  <2>1. StoreGoesOn /\ StepsInOrder'
    BY <1>2, StoreStands, TablesOn DEF PInv, storeVars
  <2> QED BY <1>0, <1>2, <2>1, ProceedInv
<1>3. CASE /\ r # NoResult /\ Admissible(d, l, r.step, r.cites, lag)
           /\ results[lease[l].job][r.step] # "NONE"
           /\ UNCHANGED storeVars /\ Proceed(h, "claim", r.step, 0, Nobody)
  <2>1. StoreGoesOn /\ StepsInOrder'
    BY <1>3, StoreStands, TablesOn DEF PInv, storeVars
  <2>2. /\ l \in Lease /\ q.sent.job \in Job /\ lease[l].job = q.sent.job /\ Active(l)
        /\ r.step \in Step
    BY <1>1, <1>3 DEF IssuedFor, Admissible
  <2>3. results[q.sent.job][r.step] \notin {"NONE", "FAILED"}
    BY <1>3, <2>2, HeldNotFailed DEF PInv
  <2>4. results[q.sent.job][r.step] \in Verdict \cup {"NONE"} /\ results' = results
    BY <1>3, <2>2 DEF PInv, IInv, TypeOK, storeVars
  <2>5. PassedIn(results', q.sent.job, r.step)
    BY <2>3, <2>4 DEF PassedIn, Verdict
  <2> QED BY <1>0, <1>3, <2>1, <2>5, ProceedInv
<1>4. CASE /\ r # NoResult /\ RecordStepResult(d, l, r.step, r.verdict, r.cites, lag)
           /\ Proceed(h, "claim", r.step, 0, Nobody)
  <2> DEFINE j == lease[l].job
             s == r.step
             v == r.verdict
  <2>1. /\ l \in Lease /\ j \in Job /\ j = q.sent.job /\ s \in Step /\ v \in Verdict
        /\ r.cites \in BOOLEAN /\ lease[l].status # "FREE"
    BY <1>1, <1>4 DEF IssuedFor
  <2>2. StoreGoesOn
    <3>1. [Next]_vars
      BY <1>0, <1>4, <2>1 DEF Next
    <3> QED BY <3>1, StoreSteps DEF Stored, PInv
  <2>3. \A i \in Job, k \in Step :
          results'[i][k] = IF i = j /\ k = s THEN v ELSE results[i][k]
    BY <1>4, <2>1 DEF RecordStepResult, PInv, IInv, TypeOK
  <2>4. \A i \in Job, k \in Step : PassedIn(results, i, k) => PassedIn(results', i, k)
    BY <2>2 DEF StoreGoesOn, GoesOn, PassedIn
  <2>5. StepsInOrder'
    <3> SUFFICES ASSUME NEW i \in Job, NEW k \in Step, results'[i][k] # "NONE",
                        NEW p \in Step, p < k
                 PROVE  PassedIn(results', i, p)
      BY DEF StepsInOrder, Passed, PassedIn
    <3>1. CASE i = j /\ k = s
      BY <1>1, <1>4, <2>1, <2>4, <3>1
    <3>2. CASE ~(i = j /\ k = s)
      <4>1. PassedIn(results, i, p)
        BY <2>3, <3>2 DEF PInv, StepsInOrder, Passed, PassedIn
      <4> QED BY <2>4, <4>1
    <3> QED BY <3>1, <3>2
  <2>6. v = "SUCCEEDED" => PassedIn(results', q.sent.job, s)
    BY <2>1, <2>3 DEF PassedIn
  <2> QED BY <1>0, <1>4, <2>2, <2>5, <2>6, ProceedInv
<1> QED BY <1>2, <1>3, <1>4 DEF ServeResult

LEMMA ServeClaimInv ==
  ASSUME PInv, NEW h \in Handler, NEW lag \in Lag, ServeClaim(h, lag) PROVE PInv'
<1> DEFINE q == handler[h]
           d == q.device
<1>0. /\ q.pc = "claim" /\ d \in Device /\ HandlerFits(q, results, lease)
      /\ UNCHANGED <<runner, saved, round, mishaps>>
  BY DEF ServeClaim, PInv, HandlersFit, HandlerFits
<1>1. ASSUME StoreGoesOn, results' = results
      PROVE  q.ack # 0 => /\ q.sent.pending # NoResult /\ q.ack = q.sent.pending.step
                          /\ q.sent.pending.verdict = "SUCCEEDED" => PassedIn(results', q.sent.job, q.ack)
  BY <1>0, <1>1 DEF HandlerFits
<1>2. ASSUME NEW l \in Lease, ClaimJob(d, l, lag), Proceed(h, "renew", q.ack, lease'[l].job, l)
      PROVE  PInv'
  <2>1. StoreGoesOn /\ results' = results
    <3>1. [Next]_vars
      BY <1>0, <1>2 DEF Next
    <3> QED BY <1>2, <3>1, StoreSteps DEF Stored, PInv, ClaimJob
  <2>2. lease'[l].status = "ACTIVE"
    BY <1>2, ExpiryTables DEF ClaimJob, PInv, IInv
  <2>3. IssuedFor(l, lease'[l].job, lease')
    BY <2>1, <2>2 DEF StoreGoesOn, IInv, RowOK, IssuedFor
  <2>4. StepsInOrder'
    BY <2>1, TablesOn
  <2> QED BY <1>0, <1>1, <1>2, <2>1, <2>3, <2>4, ProceedInv
<1>3. ASSUME ClaimNothing(d, lag),
             \/ \E l \in Lease : Active(l) /\ Proceed(h, "renew", q.ack, lease[l].job, l)
             \/ Proceed(h, "answer", q.ack, 0, Nobody)
      PROVE  PInv'
  <2>1. StoreGoesOn /\ results' = results
    <3>1. [Next]_vars
      BY <1>0, <1>3 DEF Next
    <3> QED BY <1>3, <3>1, StoreSteps DEF Stored, PInv, ClaimNothing
  <2>2. StepsInOrder'
    BY <2>1, TablesOn
  <2>3. \A l \in Lease : Active(l) => IssuedFor(l, lease[l].job, lease')
    BY <2>1 DEF Active, PInv, IInv, RowOK, StoreGoesOn, GoesOn, IssuedFor
  <2>4. CASE Proceed(h, "answer", q.ack, 0, Nobody)
    BY <1>0, <1>1, <2>1, <2>2, <2>4, ProceedInv
  <2>5. ASSUME NEW l \in Lease, Active(l), Proceed(h, "renew", q.ack, lease[l].job, l) PROVE PInv'
    BY <1>0, <1>1, <2>1, <2>2, <2>3, <2>5, ProceedInv
  <2> QED BY <1>3, <2>4, <2>5
<1> QED BY <1>2, <1>3 DEF ServeClaim

LEMMA ServeRenewInv ==
  ASSUME PInv, NEW h \in Handler, NEW lag \in Lag, ServeRenew(h, lag) PROVE PInv'
<1> DEFINE q == handler[h]
           d == q.device
           l == q.lease
<1>0. /\ q.pc = "renew" /\ d \in Device /\ HandlerFits(q, results, lease)
      /\ IssuedFor(l, q.job, lease) /\ UNCHANGED <<runner, saved, round, mishaps>>
  BY DEF ServeRenew, PInv, HandlersFit, HandlerFits
<1>1. CASE RenewLease(d, l, lag) /\ Proceed(h, "answer", q.ack, q.job, l)
  <2>1. StoreGoesOn /\ results' = results
    <3>1. l \in Lease
      BY <1>0 DEF IssuedFor
    <3>2. [Next]_vars
      BY <1>0, <1>1, <3>1 DEF Next
    <3> QED BY <1>1, <3>2, StoreSteps DEF Stored, PInv, RenewLease
  <2>2. StepsInOrder'
    BY <2>1, TablesOn
  <2>3. IssuedFor(l, q.job, lease')
    BY <1>0, <2>1 DEF StoreGoesOn, GoesOn, IssuedFor
  <2>4. q.ack # 0 => /\ q.sent.pending # NoResult /\ q.ack = q.sent.pending.step
                     /\ q.sent.pending.verdict = "SUCCEEDED" => PassedIn(results', q.sent.job, q.ack)
    BY <1>0, <2>1 DEF HandlerFits
  <2> QED BY <1>0, <1>1, <2>1, <2>2, <2>3, <2>4, ProceedInv
<1>2. CASE UNCHANGED storeVars /\ Proceed(h, "refused", 0, 0, Nobody)
  <2>1. StoreGoesOn /\ StepsInOrder'
    BY <1>2, StoreStands, TablesOn DEF PInv, storeVars
  <2> QED BY <1>0, <1>2, <2>1, ProceedInv
<1> QED BY <1>1, <1>2 DEF ServeRenew

\* What settles a result leaves notes that fit.
LEMMA AcknowledgeFits ==
  ASSUME NEW res, NEW les, NEW n, NoteFits(n, res, les), NEW ack \in Step \cup {0},
         n.pending # NoResult /\ n.pending.step = ack /\ n.pending.verdict = "SUCCEEDED" =>
           PassedIn(res, n.job, ack)
  PROVE  NoteFits(Acknowledge(n, ack), res, les)
<1> DEFINE done == IF n.pending.verdict = "SUCCEEDED" THEN n.done \cup {ack} ELSE n.done
           m == [n EXCEPT !.pending = NoResult, !.done = done]
<1>1. CASE n.pending = NoResult \/ n.pending.step # ack
  BY <1>1 DEF Acknowledge
<1>2. CASE n.pending # NoResult /\ n.pending.step = ack
  <2>1. n \in RunnerState /\ ack \in Step /\ n.job \in Job
    BY <1>2 DEF NoteFits, IssuedFor
  <2>2. done \subseteq Step /\ \A s \in done : PassedIn(res, n.job, s)
    BY <1>2, <2>1 DEF NoteFits, RunnerState
  <2>3. NoResult \in [step : Step \cup {0}, verdict : Verdict \cup {"NONE"}, cites : BOOLEAN]
    BY DEF NoResult
  <2> HIDE DEF done
  <2>4. m \in RunnerState /\ m.pending = NoResult /\ m.done = done /\ m.job = n.job
    BY <2>1, <2>2, <2>3 DEF RunnerState
  <2>5. Acknowledge(n, ack) = m
    BY <1>2 DEF Acknowledge, done
  <2> HIDE DEF m
  <2> QED BY <2>1, <2>2, <2>4, <2>5 DEF NoteFits
<1> QED BY <1>1, <1>2

\* A phone's step that leaves the store and the threads alone, or frees one.
LEMMA PhoneStep ==
  ASSUME PInv, UNCHANGED <<storeVars, saved, mishaps>>, NEW d \in Device, NEW n, Keep(d, n),
         NoteFits(n, results, lease), NEW r \in RoundRow, Go(d, r),
         r.pc # "waiting", r.by = Nobody,
         r.pc = "run" => IssuedFor(r.lease, r.job, lease),
         r.pc \in {"upload", "store"} => n.pending # NoResult,
         handler' = handler \/ \E h \in Handler : Handle(h, Free)
  PROVE  PInv'
<1>1. StoreGoesOn /\ StepsInOrder' /\ results' = results /\ lease' = lease
  BY StoreStands, TablesOn DEF storeVars, PInv
<1>2. NotesFit' /\ runner' \in [Device -> RunnerState] /\ saved' \in [Device -> RunnerState]
  <2>1. NoteFits(n, results', lease')
    BY <1>1
  <2> QED BY <1>1, <2>1, NotesPut
<1>3. HandlersFit' /\ handler' \in [Handler -> HandlerRow]
  BY <1>1, FreeFits, HandlersPut, HandlersStand
<1>4. \A h \in Handler : handler'[h] = handler[h] \/ handler'[h].pc = "free"
  BY FreeFits DEF Handle, PInv, PhoneTyped
<1>5. \A k \in Device : runner'[k] = IF k = d THEN n ELSE runner[k]
  BY DEF Keep, PInv, PhoneTyped
<1>6. RoundsFit' /\ round' \in [Device -> RoundRow]
  <2>1. r.pc = "run" => IssuedFor(r.lease, r.job, lease')
    BY <1>1
  <2> QED BY <1>1, <1>4, <1>5, <2>1, RoundsGo
<1> QED BY <1>1, <1>2, <1>3, <1>6 DEF PInv, PhoneTyped, StoreGoesOn

\* Notes that a step leaves alone are kept.
LEMMA Same == ASSUME PInv, NEW d \in Device, runner' = runner
              PROVE  Keep(d, runner[d]) /\ NoteFits(runner[d], results, lease)
BY DEF PInv, PhoneTyped, NotesFit, Keep

LEMMA Rounds ==
  /\ Idle \in RoundRow /\ Idle.pc = "idle" /\ Idle.by = Nobody
  /\ \A pc \in {"upload", "store", "save"} :
       LET r == Round(pc, Nobody, 0, Nobody) IN r \in RoundRow /\ r.pc = pc /\ r.by = Nobody
BY DEF Idle, Round, RoundRow

LEMMA TimeOutInv == ASSUME PInv, NEW d \in Device, TimeOut(d) PROVE PInv'
BY Same, Rounds, PhoneStep DEF TimeOut

LEMMA ReceiveRefusalInv == ASSUME PInv, NEW d \in Device, ReceiveRefusal(d) PROVE PInv'
<1>1. round[d].by \in Handler
  BY DEF ReceiveRefusal, PInv, RoundsFit, RoundRow
<1> QED BY <1>1, Same, Rounds, PhoneStep DEF ReceiveRefusal

LEMMA UploadFailsInv == ASSUME PInv, NEW d \in Device, UploadFails(d) PROVE PInv'
BY Same, Rounds, PhoneStep DEF UploadFails

LEMMA ReceiveInv == ASSUME PInv, NEW d \in Device, Receive(d) PROVE PInv'
<1> DEFINE h == round[d].by
           answer == handler[h]
           state == Acknowledge(runner[d], answer.ack)
<1>1. h \in Handler /\ answer.pc = "answer" /\ Handle(h, Free)
      /\ UNCHANGED <<storeVars, saved, mishaps>>
  BY DEF Receive, PInv, RoundsFit, RoundRow
<1>2. HandlerFits(answer, results, lease) /\ answer.sent = SentBy(runner[d])
      /\ NoteFits(runner[d], results, lease) /\ answer.ack \in Step \cup {0}
  BY <1>1, Here DEF Receive, PInv, RoundsFit, HandlersFit, NotesFit, HandlerRow
<1>3. runner[d].pending # NoResult /\ runner[d].pending.step = answer.ack
        /\ runner[d].pending.verdict = "SUCCEEDED" => PassedIn(results, runner[d].job, answer.ack)
  <2> SUFFICES ASSUME runner[d].pending # NoResult, runner[d].pending.step = answer.ack,
                      runner[d].pending.verdict = "SUCCEEDED"
               PROVE  PassedIn(results, runner[d].job, answer.ack)
    OBVIOUS
  <2>1. answer.ack # 0
    BY <1>2 DEF NoteFits, Step
  <2>2. answer.sent.pending = runner[d].pending /\ answer.sent.job = runner[d].job
    BY <1>2, SentFits
  <2> QED BY <1>2, <2>1, <2>2 DEF HandlerFits
<1>4. NoteFits(state, results, lease)
  BY <1>2, <1>3, AcknowledgeFits
<1> HIDE DEF state
<1>5. CASE answer.job # 0 /\ Keep(d, state) /\ Go(d, Round("run", Nobody, answer.job, answer.lease))
  <2> DEFINE r == Round("run", Nobody, answer.job, answer.lease)
  <2>1. IssuedFor(answer.lease, answer.job, lease)
    BY <1>2, <1>5 DEF HandlerFits
  <2>2. /\ r \in RoundRow /\ r.pc = "run" /\ r.by = Nobody
        /\ r.lease = answer.lease /\ r.job = answer.job
    BY <2>1 DEF Round, RoundRow, IssuedFor
  <2> HIDE DEF r
  <2>3. Go(d, r)
    BY <1>5 DEF r
  <2>4. r.pc = "run" => IssuedFor(r.lease, r.job, lease)
    BY <2>1, <2>2
  <2> QED BY <1>1, <1>4, <1>5, <2>2, <2>3, <2>4, PhoneStep
<1>6. CASE Keep(d, state) /\ Go(d, Round("save", Nobody, 0, Nobody))
  BY <1>1, <1>4, <1>6, Rounds, PhoneStep
<1>7. CASE Keep(d, Fresh) /\ Go(d, Round("save", Nobody, 0, Nobody))
  BY <1>1, <1>7, FreshFits, Rounds, PhoneStep
<1> QED BY <1>5, <1>6, <1>7 DEF Receive, state

\* What the worker has done of the job in hand has passed.
LEMMA DonePassed ==
  ASSUME PInv, NEW d \in Device, round[d].pc = "run"
  PROVE  /\ IssuedFor(round[d].lease, round[d].job, lease)
         /\ DoneOf(d) \subseteq Step
         /\ \A s \in DoneOf(d) : PassedIn(results, round[d].job, s)
<1>1. NoteFits(runner[d], results, lease) /\ IssuedFor(round[d].lease, round[d].job, lease)
  BY DEF PInv, NotesFit, RoundsFit
<1> QED BY <1>1 DEF DoneOf, NoteFits, RunnerState

LEMMA RunStepInv ==
  ASSUME PInv, NEW d \in Device, NEW s \in Step, NEW v \in Verdicts, RunStep(d, s, v) PROVE PInv'
<1> DEFINE p == [step |-> s, verdict |-> v, cites |-> FALSE]
           n == [job |-> round[d].job, lease |-> round[d].lease, done |-> DoneOf(d), pending |-> p]
<1>1. /\ round[d].pc = "run" /\ FirstLeft(d, s) /\ Keep(d, n)
      /\ UNCHANGED <<storeVars, saved, handler, mishaps>>
  BY DEF RunStep
<1>2. v \in Verdict /\ s \in Step /\ s # 0
  BY PhoneWorkerAssumption DEF Step
<1>3. \A r \in Step : r < s => r \in DoneOf(d)
  BY <1>1 DEF FirstLeft, Step
<1>4. NoteFits(n, results, lease) /\ n.pending # NoResult
  <2>1. n.pending # NoResult
    BY <1>2 DEF NoResult
  <2>2. n \in RunnerState
    BY <1>1, <1>2, DonePassed DEF RunnerState, IssuedFor
  <2>3. /\ n.pending.step = s /\ n.pending.verdict = v /\ n.done = DoneOf(d)
        /\ n.job = round[d].job /\ n.lease = round[d].lease
    OBVIOUS
  <2>4. /\ IssuedFor(n.lease, n.job, lease) /\ n.job \in Job
        /\ \A r \in n.done : PassedIn(results, n.job, r)
    BY <1>1, <2>3, DonePassed DEF IssuedFor
  <2> HIDE DEF n, p
  <2> QED BY <1>2, <1>3, <2>1, <2>2, <2>3, <2>4 DEF NoteFits
<1> HIDE DEF n
<1>5. PICK pc \in {"upload", "save"} : Go(d, Round(pc, Nobody, 0, Nobody))
  BY DEF RunStep
<1> QED BY <1>1, <1>4, <1>5, Rounds, PhoneStep

LEMMA RunOutInv == ASSUME PInv, NEW d \in Device, RunOut(d) PROVE PInv'
<1> DEFINE n == [job |-> round[d].job, lease |-> round[d].lease, done |-> DoneOf(d),
                 pending |-> NoResult]
<1>1. /\ round[d].pc = "run" /\ Keep(d, n) /\ Go(d, Round("save", Nobody, 0, Nobody))
      /\ UNCHANGED <<storeVars, saved, handler, mishaps>>
  BY DEF RunOut
<1>2. NoteFits(n, results, lease)
  <2>1. n \in RunnerState
    BY <1>1, DonePassed DEF RunnerState, IssuedFor, NoResult
  <2> QED BY <1>1, <2>1, DonePassed DEF NoteFits, IssuedFor
<1> HIDE DEF n
<1> QED BY <1>1, <1>2, Rounds, PhoneStep

LEMMA AttachInv == ASSUME PInv, NEW d \in Device, AttachEvidence(d) PROVE PInv'
<1> DEFINE p == [runner[d].pending EXCEPT !.cites = TRUE]
           n == [runner[d] EXCEPT !.pending = p]
<1>1. /\ Keep(d, n) /\ Go(d, Round("save", Nobody, 0, Nobody))
      /\ UNCHANGED <<storeVars, saved, handler, mishaps>>
  BY DEF AttachEvidence
<1>2. runner[d].pending # NoResult /\ NoteFits(runner[d], results, lease)
  BY DEF AttachEvidence, PInv, RoundsFit, NotesFit
<1>3. /\ p \in [step : Step \cup {0}, verdict : Verdict \cup {"NONE"}, cites : BOOLEAN]
      /\ p.step = runner[d].pending.step /\ p.verdict = runner[d].pending.verdict
  BY <1>2 DEF NoteFits, RunnerState
<1> HIDE DEF p
<1>4. /\ n \in RunnerState /\ n.pending = p /\ n.job = runner[d].job
      /\ n.lease = runner[d].lease /\ n.done = runner[d].done
  BY <1>2, <1>3 DEF NoteFits, RunnerState
<1> HIDE DEF n
<1>5. NoteFits(n, results, lease)
  BY <1>2, <1>3, <1>4 DEF NoteFits
<1> QED BY <1>1, <1>5, Rounds, PhoneStep

LEMMA SaveInv == ASSUME PInv, NEW d \in Device, Save(d) PROVE PInv'
<1>1. /\ UNCHANGED <<storeVars, runner, handler, mishaps>> /\ Go(d, Idle)
      /\ saved' = [saved EXCEPT ![d] = runner[d]]
  BY DEF Save
<1>2. StoreGoesOn /\ StepsInOrder'
  BY <1>1, StoreStands, TablesOn DEF PInv, storeVars
<1>3. \A k \in Device : saved'[k] = IF k = d THEN runner[d] ELSE saved[k]
  BY <1>1 DEF PInv, PhoneTyped
<1>4. NotesFit'
  BY <1>1, <1>2, <1>3, NoteOn DEF PInv, NotesFit, StoreGoesOn
<1>5. RoundsFit' /\ round' \in [Device -> RoundRow]
  BY <1>1, <1>2, Rounds, RoundsGo
<1> QED BY <1>1, <1>2, <1>4, <1>5, HandlersStand DEF PInv, PhoneTyped, StoreGoesOn

LEMMA CrashInv == ASSUME PInv, NEW d \in Device, Crash(d) PROVE PInv'
<1>1. /\ UNCHANGED <<storeVars, saved, handler>> /\ Keep(d, saved[d]) /\ Go(d, Idle)
      /\ mishaps < MaxMishaps /\ mishaps' = mishaps + 1
  BY DEF Crash
<1>2. StoreGoesOn /\ StepsInOrder' /\ results' = results /\ lease' = lease
  BY <1>1, StoreStands, TablesOn DEF PInv, storeVars
<1>3. NoteFits(saved[d], results', lease')
  BY <1>2 DEF PInv, NotesFit
<1>4. NotesFit' /\ runner' \in [Device -> RunnerState] /\ saved' \in [Device -> RunnerState]
  BY <1>1, <1>2, <1>3, NotesPut
<1>5. \A k \in Device : k # d => runner'[k] = runner[k]
  BY <1>1 DEF Keep, PInv, PhoneTyped
<1>6. RoundsFit' /\ round' \in [Device -> RoundRow]
  BY <1>1, <1>2, <1>5, Rounds, RoundsGo
<1>7. mishaps' \in 0..MaxMishaps
  BY <1>1, PhoneWorkerAssumption DEF PInv, PhoneTyped
<1> QED BY <1>1, <1>2, <1>4, <1>6, <1>7, HandlersStand DEF PInv, PhoneTyped, StoreGoesOn

\* A step of the store alone that records no result.
LEMMA StoreStep ==
  ASSUME PInv, Stored, results' = results,
         UNCHANGED <<runner, saved, handler>>, mishaps' \in 0..MaxMishaps,
         \/ round' = round
         \/ \E d \in Device : Go(d, Round("store", Nobody, 0, Nobody)) /\ runner[d].pending # NoResult
  PROVE  PInv'
<1>1. StoreGoesOn /\ StepsInOrder'
  BY StoreSteps, TablesOn DEF PInv
<1>2. RoundsFit' /\ round' \in [Device -> RoundRow]
  <2>1. CASE round' = round
    BY <1>1, <2>1, RoundsStand
  <2>2. ASSUME NEW d \in Device, Go(d, Round("store", Nobody, 0, Nobody)),
               runner[d].pending # NoResult
        PROVE  RoundsFit' /\ round' \in [Device -> RoundRow]
    BY <1>1, <2>2, Rounds, RoundsGo
  <2> QED BY <2>1, <2>2
<1>3. NotesFit' /\ runner' \in [Device -> RunnerState] /\ saved' \in [Device -> RunnerState]
  BY <1>1, NotesStand
<1>4. HandlersFit' /\ handler' \in [Handler -> HandlerRow]
  BY <1>1, HandlersStand
<1> QED BY <1>1, <1>2, <1>3, <1>4 DEF PInv, PhoneTyped, StoreGoesOn

LEMMA UploadStored ==
  ASSUME PInv, NEW d \in Device, NEW lag \in Lag, UploadEvidence(d, lag) PROVE Stored
<1>1. runner[d].pending # NoResult /\ NoteFits(runner[d], results, lease)
  BY DEF UploadEvidence, PInv, RoundsFit, NotesFit
<1> QED BY <1>1 DEF UploadEvidence, Stored, NoteFits, IssuedFor

LEMMA UploadInv ==
  ASSUME PInv, NEW d \in Device, NEW lag \in Lag, UploadEvidence(d, lag) PROVE PInv'
<1>1. /\ ValidateUpload(d, runner[d].lease, runner[d].pending.step, lag)
      /\ Go(d, Round("store", Nobody, 0, Nobody)) /\ UNCHANGED <<runner, saved, handler, mishaps>>
  BY DEF UploadEvidence
<1>2. runner[d].pending # NoResult
  BY DEF UploadEvidence, PInv, RoundsFit
<1> QED BY <1>1, <1>2, UploadStored, StoreStep DEF ValidateUpload, PInv, PhoneTyped

LEMMA TimePassesInv == ASSUME PInv, TimePasses PROVE PInv'
<1>1. Stored
  BY DEF TimePasses, Stored, Next
<1>2. results' = results
  BY DEF TimePasses, Tick
<1>3. mishaps' \in 0..MaxMishaps
  BY PhoneWorkerAssumption DEF TimePasses, PInv, PhoneTyped
<1> QED BY <1>1, <1>2, <1>3, StoreStep DEF TimePasses

LEMMA ElsewhereInv == ASSUME PInv, Elsewhere PROVE PInv'
<1>1. Stored
  BY DEF Elsewhere, Stored, Next
<1>2. results' = results
  BY DEF Elsewhere, CreateJob, StoreEvidence, PruneEvidence, ExpireLeases, CancelAll, RetryTaskJobs
<1> QED BY <1>1, <1>2, StoreStep DEF Elsewhere, PInv, PhoneTyped

LEMMA StutterInv == ASSUME PInv, UNCHANGED pvars PROVE PInv'
<1>1. UNCHANGED <<storeVars, runner, saved, round, handler, mishaps>>
  BY DEF pvars
<1>2. Stored /\ results' = results
  BY <1>1 DEF Stored, storeVars, vars
<1> QED BY <1>1, <1>2, StoreStep DEF PInv, PhoneTyped

-----------------------------------------------------------------------------
LEMMA InitPInv == PInit => PInv
<1> SUFFICES ASSUME PInit PROVE PInv
  OBVIOUS
<1>1. IInv
  BY InitIInv DEF PInit
<1>2. Fresh \in RunnerState /\ Free \in HandlerRow
  BY FreshFits, FreeFits DEF NoteFits, HandlerFits
<1>3. PhoneTyped
  BY <1>2, Rounds, PhoneWorkerAssumption DEF PInit, PhoneTyped
<1>4. NotesFit
  BY FreshFits DEF PInit, NotesFit
<1>5. HandlersFit
  BY FreeFits DEF PInit, HandlersFit
<1>6. RoundsFit
  BY Rounds DEF PInit, RoundsFit
<1>7. StepsInOrder
  BY DEF PInit, Init, StepsInOrder
<1> QED BY <1>1, <1>3, <1>4, <1>5, <1>6, <1>7 DEF PInv

LEMMA PStep == PInv /\ [PNext]_pvars => PInv'
<1> SUFFICES ASSUME PInv, [PNext]_pvars PROVE PInv'
  OBVIOUS
<1>1. ASSUME NEW h \in Handler, Served(h) PROVE PInv'
  BY <1>1, ServeResultInv, ServeClaimInv, ServeRenewInv DEF Served
<1>2. ASSUME NEW d \in Device, Ran(d) PROVE PInv'
  BY <1>2, RunOutInv, RunStepInv, UploadInv, AttachInv, SaveInv DEF Ran
<1>3. ASSUME NEW d \in Device,
             TimeOut(d) \/ Receive(d) \/ ReceiveRefusal(d) \/ UploadFails(d) \/ Crash(d)
      PROVE PInv'
  BY <1>3, TimeOutInv, ReceiveInv, ReceiveRefusalInv, UploadFailsInv, CrashInv
<1> QED BY <1>1, <1>2, <1>3, SendInv, LoseInv, TimePassesInv, ElsewhereInv, StutterInv DEF PNext

LEMMA PhoneInvariant == PSpec => []PInv
BY InitPInv, PStep, PTL DEF PSpec

-----------------------------------------------------------------------------
\* The phones' notes, the requests and the answers have the types the code gives them.
THEOREM WorkerTypeCorrect == PSpec => []PTypeOK
<1>1. PInv => PTypeOK
  BY DEF PInv, IInv, PhoneTyped, PTypeOK, RoundRow, HandlerRow
<1> QED BY <1>1, PhoneInvariant, PTL

\* Whatever a phone counts as done, in memory or on disk, has passed at the server: no
\* lost answer, late request, crash or change of phone makes the worker skip a step.
THEOREM DoneCorrect == PSpec => []DoneIsRecorded
<1>1. PInv => DoneIsRecorded
  BY DEF PInv, NotesFit, NoteFits, DoneIsRecorded, Passed, PassedIn
<1> QED BY <1>1, PhoneInvariant, PTL

\* A result is recorded only once every earlier step of the job has passed.
THEOREM StepsSettledInOrder == PSpec => []StepsInOrder
BY PhoneInvariant, PTL DEF PInv

\* The store's own tables stay consistent under the phones and threads that drive it: one
\* holder for a job, LEASED exactly while held, and status as the results say.
THEOREM StoreStaysConsistent == PSpec => [](OneHolder /\ LeasedIffHeld /\ VerdictsMatch)
BY PhoneInvariant, PTL DEF PInv, IInv

-----------------------------------------------------------------------------
(***************************************************************************)
(* Whatever phones and threads do, the store takes a step of its own, or   *)
(* none: what is proved of the store holds of the phones and the store.    *)
(***************************************************************************)
LEMMA ServedStored == ASSUME PInv, NEW h \in Handler, Served(h) PROVE Stored
<1> DEFINE q == handler[h]
           d == q.device
<1>0. /\ q.pc # "free" => d \in Device
      /\ NoteFits(q.sent, results, lease)
      /\ q.pc = "renew" => q.lease \in Lease
  BY DEF PInv, HandlersFit, HandlerFits, IssuedFor
<1>1. CASE UNCHANGED storeVars
  BY <1>1 DEF storeVars, vars, Stored
<1>2. ASSUME NEW lag \in Lag, q.pc = "record", q.sent.pending # NoResult,
             RecordStepResult(d, q.sent.lease, q.sent.pending.step, q.sent.pending.verdict,
                              q.sent.pending.cites, lag)
      PROVE  Stored
  <2>1. /\ q.sent.lease \in Lease /\ q.sent.pending.step \in Step
        /\ q.sent.pending.verdict \in Verdict /\ q.sent.pending.cites \in BOOLEAN
    BY <1>0, <1>2 DEF NoteFits, IssuedFor, RunnerState
  <2> QED BY <1>0, <1>2, <2>1 DEF Next, Stored
<1>3. ASSUME NEW lag \in Lag, q.pc = "claim",
             ClaimNothing(d, lag) \/ \E l \in Lease : ClaimJob(d, l, lag)
      PROVE  Stored
  BY <1>0, <1>3 DEF Next, Stored
<1>4. ASSUME NEW lag \in Lag, q.pc = "renew", RenewLease(d, q.lease, lag) PROVE Stored
  BY <1>0, <1>4 DEF Next, Stored
<1> QED BY <1>1, <1>2, <1>3, <1>4 DEF Served, ServeResult, ServeClaim, ServeRenew

LEMMA AlwaysStored == PInv /\ [PNext]_pvars => Stored
<1> SUFFICES ASSUME PInv, [PNext]_pvars PROVE Stored
  OBVIOUS
<1>1. CASE UNCHANGED storeVars
  BY <1>1 DEF storeVars, vars, Stored
<1>2. ASSUME NEW d \in Device, Ran(d) PROVE Stored
  BY <1>1, <1>2, UploadStored DEF Ran, RunOut, RunStep, AttachEvidence, Save
<1>3. CASE TimePasses \/ Elsewhere
  BY <1>3 DEF TimePasses, Elsewhere, Stored, Next
<1> QED BY <1>1, <1>2, <1>3, ServedStored
        DEF PNext, pvars, SendHeartbeat, Lose, TimeOut, Receive, ReceiveRefusal, UploadFails, Crash

\* The result of a step that demands evidence is recorded only on a screenshot of the phone
\* that holds the job, stored and not pruned by then.
THEOREM EvidenceStandsBehind == PSpec => EvidenceBacksResults
<1>1. ASSUME PInv, [PNext]_pvars, NEW j \in Job, NEW s \in EvidenceStep,
             results'[j][s] # results[j][s]
      PROVE  \E l \in Lease : /\ Active(l) /\ lease[l].job = j
                             /\ <<j, s, lease[l].device>> \in evidence
  <2>1. Stored /\ s \in Step
    BY <1>1, AlwaysStored, JobLeaseAssumption
  <2>2. results' # results
    BY <1>1
  <2>3. PICK d \in Device, l \in Lease, r \in Step, v \in Verdict, cites \in BOOLEAN, lag \in Lag :
          RecordStepResult(d, l, r, v, cites, lag)
    BY <2>1, <2>2 DEF Stored, Next, vars, CreateJob, ClaimNothing, ClaimJob, ExpireLeases,
       RenewLease, CancelAll, RetryTaskJobs, ValidateUpload, StoreEvidence, PruneEvidence, Tick
  <2>4. j = lease[l].job /\ s = r
    BY <1>1, <2>1, <2>3 DEF RecordStepResult, PInv, IInv, TypeOK
  <2> QED BY <2>3, <2>4 DEF RecordStepResult, Admissible
<1>2. PInv /\ [PNext]_pvars =>
        [\A j \in Job, s \in EvidenceStep : results'[j][s] # results[j][s] =>
           \E l \in Lease : /\ Active(l) /\ lease[l].job = j
                           /\ <<j, s, lease[l].device>> \in evidence]_pvars
  BY <1>1
<1> QED BY <1>2, PhoneInvariant, PTL DEF PSpec, EvidenceBacksResults

\* A job that has ended stays as it ended, whatever late or repeated requests say.
THEOREM EndsStandForPhones == PSpec => TerminalStays
<1>1. ASSUME PInv, [PNext]_pvars
      PROVE  [\A j \in Job : jobStatus[j] \in Terminal =>
                jobStatus'[j] = jobStatus[j] /\ results'[j] = results[j]]_vars
  <2>1. Stored /\ IInv
    BY <1>1, AlwaysStored DEF PInv
  <2>2. CASE [Next]_vars
    BY <2>1, <2>2, TerminalStep
  <2>3. CASE ~[Next]_vars
    BY <2>1, <2>3 DEF Stored, ValidateUpload
  <2> QED BY <2>2, <2>3
<1> QED BY <1>1, PhoneInvariant, PTL DEF PSpec, TerminalStays

\* Phones and store together implement the job board: however the phones crash and the
\* messages between them are lost or late, a job is held by one phone, ended by its holder
\* and never revived.
THEOREM PhonesImplementBoard == PSpec => BoardSpec
<1>1. PInit => Board!Init
  BY BoardInit DEF PInit
<1>2. ASSUME PInv, PInv', [PNext]_pvars PROVE [Board!Next]_(Board!vars)
  <2>1. Stored /\ IInv /\ IInv'
    BY <1>2, AlwaysStored DEF PInv
  <2>2. CASE [Next]_vars
    BY <2>1, <2>2, BoardStep
  <2>3. CASE ~[Next]_vars
    <3>1. UNCHANGED <<jobStatus, lease>>
      BY <2>1, <2>3 DEF Stored, ValidateUpload
    <3>2. phase' = phase /\ holder' = holder
      BY <2>1, <3>1, SameHolder DEF IInv, phase, Active
    <3> QED BY <3>2 DEF Board!vars
  <2> QED BY <2>2, <2>3
<1> QED BY <1>1, <1>2, PhoneInvariant, PTL DEF PSpec, BoardSpec, Board!Spec
=============================================================================
