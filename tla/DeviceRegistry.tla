---------------------------- MODULE DeviceRegistry ----------------------------
(***************************************************************************)
(* Pairing, tokens and heartbeats of one phone: the tables                 *)
(* pairing_sessions and devices (aishop/device_repository.py) with         *)
(* device_service.py, and on the phone what WorkerPreferences.kt keeps of  *)
(* it.  Rows of different phones have nothing in common, so one phone      *)
(* stands for all.                                                         *)
(*                                                                         *)
(* A call is one HTTP request.  Its handler takes one transaction per      *)
(* action; the phone may stop waiting for it while it is on its way or     *)
(* being served, and it is served all the same.                            *)
(***************************************************************************)
EXTENDS Naturals, FiniteSets

CONSTANTS
  Code,          \* pairing codes
  Call,          \* HTTP requests that can be under way at once
  MaxRotations,  \* bound on the tokens the operator issues
  MaxBeats,      \* bound on the heartbeats the phone sends
  None

ASSUME RegistryAssumption ==
  /\ MaxRotations \in Nat
  /\ MaxBeats \in Nat
  /\ None \notin Code \cup Call

VARIABLES
  session,    \* [Code -> state of its pairing session]
  row,        \* the phone's row of devices; token 0: there is none
  tokens,     \* tokens generated so far; the newest has this number
  rotations,  \* how many of them for the operator
  phone,      \* on the phone's disk: token (0: not paired) and heartbeat sequence
  pairing,    \* the call the pairing screen waits for
  loop,       \* the round of the heartbeat loop
  calls       \* [Call -> the request]

registryVars == <<session, row, tokens, rotations>>
phoneVars == <<phone, pairing, loop>>
rvars == <<registryVars, phoneVars, calls>>

\* A request: what it asks, how far it is served, the token it bears and what it brings.
Request(kind, pc, token, arg) == [kind |-> kind, pc |-> pc, token |-> token, arg |-> arg]
Free == Request("none", "free", 0, None)

\* The loop: where it is, the call it waits for, the credentials it read.
Round(pc, by, token) == [pc |-> pc, by |-> by, token |-> token]
Idle == Round("idle", None, 0)

Served == {"answered", "refused"}

RInit ==
  /\ session = [k \in Code |-> "none"]
  /\ row = [token |-> 0, valid |-> FALSE, sequence |-> 0]
  /\ tokens = 0 /\ rotations = 0
  /\ phone = [token |-> 0, sequence |-> 0]
  /\ pairing = None /\ loop = Idle
  /\ calls = [c \in Call |-> Free]

Awaited(c) == c \in {pairing, loop.by}

Send(c, request) == calls[c] = Free /\ calls' = [calls EXCEPT ![c] = request]
Proceed(c, pc) == calls' = [calls EXCEPT ![c].pc = pc]
\* The handler is done; nobody may be waiting for what it answers.
Answer(c, pc) == calls' = [calls EXCEPT ![c] = IF Awaited(c) THEN [@ EXCEPT !.pc = pc] ELSE Free]
Take(c) == calls' = [calls EXCEPT ![c] = Free]

At(c, kind, pc) == calls[c].kind = kind /\ calls[c].pc = pc

-----------------------------------------------------------------------------
(***************************************************************************)
(* The operator, and time.                                                 *)
(***************************************************************************)
CreatePairingSession(k) ==
  /\ session[k] = "none"
  /\ session' = [session EXCEPT ![k] = "open"]
  /\ UNCHANGED <<row, tokens, rotations, phoneVars, calls>>

\* Five minutes have passed.
SessionExpires(k) ==
  /\ session[k] = "open"
  /\ session' = [session EXCEPT ![k] = "expired"]
  /\ UNCHANGED <<row, tokens, rotations, phoneVars, calls>>

\* The new token is shown to the operator; the phone does not get it.
RotateToken ==
  /\ rotations < MaxRotations
  /\ row.token # 0
  /\ rotations' = rotations + 1 /\ tokens' = tokens + 1
  /\ row' = [row EXCEPT !.token = tokens + 1, !.valid = TRUE]
  /\ UNCHANGED <<session, phoneVars, calls>>

\* revoke_token, and to the same effect the end of the token's ninety days.
RevokeToken ==
  /\ row.token # 0 /\ row.valid
  /\ row' = [row EXCEPT !.valid = FALSE]
  /\ UNCHANGED <<session, tokens, rotations, phoneVars, calls>>

-----------------------------------------------------------------------------
(***************************************************************************)
(* Pairing.                                                                *)
(***************************************************************************)
\* MainActivity.pair, from the form an unpaired phone shows: one attempt at a time, with
\* any code somebody types.
Pair(c, k) ==
  /\ pairing = None /\ phone.token = 0
  /\ Send(c, Request("pair", "sent", 0, k))
  /\ pairing' = c
  /\ UNCHANGED <<registryVars, phone, loop>>

\* Mutant: a code that was used is good for another pairing.
ConsumeAgain(c) ==
  LET k == calls[c].arg IN
  /\ At(c, "pair", "sent")
  /\ \/ /\ session[k] \in {"open", "used"}
        /\ session' = [session EXCEPT ![k] = "used"]
        /\ Proceed(c, "consumed")
     \/ /\ session[k] \notin {"open", "used"}
        /\ Answer(c, "refused") /\ UNCHANGED session
  /\ UNCHANGED <<row, tokens, rotations, phoneVars>>

\* consume_pairing_session: a transaction of its own.
ConsumePairingSession(c) ==
  LET k == calls[c].arg IN
  /\ At(c, "pair", "sent")
  /\ \/ /\ session[k] = "open"
        /\ session' = [session EXCEPT ![k] = "used"]
        /\ Proceed(c, "consumed")
     \/ /\ session[k] # "open"
        /\ Answer(c, "refused") /\ UNCHANGED session
  /\ UNCHANGED <<row, tokens, rotations, phoneVars>>

\* upsert_device: a new token, and the sequence the row had.
UpsertDevice(c) ==
  /\ At(c, "pair", "consumed")
  /\ tokens' = tokens + 1
  /\ row' = [row EXCEPT !.token = tokens + 1, !.valid = TRUE]
  /\ calls' = [calls EXCEPT ![c] = IF Awaited(c) THEN Request("pair", "answered", tokens + 1, @.arg)
                                   ELSE Free]
  /\ UNCHANGED <<session, rotations, phoneVars>>

SavePairing(c) ==
  /\ pairing = c /\ calls[c].pc = "answered"
  /\ phone' = [phone EXCEPT !.token = calls[c].token]
  /\ pairing' = None /\ Take(c)
  /\ UNCHANGED <<registryVars, loop>>

\* The call stays where it is, unless it or its answer is lost.
Forget(c) == \/ calls[c].pc \notin Served /\ UNCHANGED calls
             \/ calls[c].pc \in Served \cup {"sent"} /\ Take(c)

\* A refusal or a time-out.
PairingFails(c) ==
  /\ pairing = c
  /\ Forget(c)
  /\ pairing' = None
  /\ UNCHANGED <<registryVars, phone, loop>>

\* Mutant: the sequence goes with the credentials.
ClearEverything ==
  /\ phone.token # 0
  /\ phone' = [token |-> 0, sequence |-> 0]
  /\ UNCHANGED <<registryVars, pairing, loop, calls>>

\* The identity and the sequence stay; a round under way goes on.
ClearPairing ==
  /\ phone.token # 0
  /\ phone' = [phone EXCEPT !.token = 0]
  /\ UNCHANGED <<registryVars, pairing, loop, calls>>

-----------------------------------------------------------------------------
(***************************************************************************)
(* The heartbeat.                                                          *)
(***************************************************************************)
SendHeartbeat(c) ==
  /\ loop = Idle /\ phone.token # 0 /\ phone.sequence < MaxBeats
  /\ phone' = [phone EXCEPT !.sequence = @ + 1]
  /\ Send(c, Request("beat", "sent", phone.token, phone.sequence + 1))
  /\ loop' = Round("beat", c, phone.token)
  /\ UNCHANGED <<registryVars, pairing>>

\* authenticate: the token in the row, neither revoked nor expired.
Authenticate(c) ==
  /\ calls[c].kind \in {"beat", "event"} /\ calls[c].pc = "sent"
  /\ \/ row.token = calls[c].token /\ row.valid /\ Proceed(c, "authenticated")
     \/ ~(row.token = calls[c].token /\ row.valid) /\ Answer(c, "refused")
  /\ UNCHANGED <<registryVars, phoneVars>>

\* Mutant: whatever arrives last is the newest.
RecordAnyHeartbeat(c) ==
  /\ At(c, "beat", "authenticated")
  /\ row' = [row EXCEPT !.sequence = calls[c].arg]
  /\ Answer(c, "answered")
  /\ UNCHANGED <<session, tokens, rotations, phoneVars>>

\* record_heartbeat: an old or repeated heartbeat leaves the row alone.
RecordHeartbeat(c) ==
  /\ At(c, "beat", "authenticated")
  /\ row' = [row EXCEPT !.sequence = IF calls[c].arg <= @ THEN @ ELSE calls[c].arg]
  /\ Answer(c, "answered")
  /\ UNCHANGED <<session, tokens, rotations, phoneVars>>

ReceiveHeartbeat(c) ==
  /\ loop.pc = "beat" /\ loop.by = c /\ calls[c].pc = "answered"
  /\ loop' = Round("pick", None, loop.token) /\ Take(c)
  /\ UNCHANGED <<registryVars, phone, pairing>>

\* A refusal or a time-out: the loop starts another round.
RoundFails(c) ==
  /\ loop.by = c
  /\ Forget(c)
  /\ loop' = Idle
  /\ UNCHANGED <<registryVars, phone, pairing>>

\* A request the phone gave up may still be lost on its way.
Lose(c) ==
  /\ calls[c].pc = "sent" /\ ~Awaited(c)
  /\ Take(c)
  /\ UNCHANGED <<registryVars, phoneVars>>

\* The server's process ends, and the handlers with it.
Restart ==
  /\ calls' = [c \in Call |-> IF calls[c].pc \in Served \cup {"free", "sent"} THEN calls[c]
                              ELSE IF Awaited(c) THEN [calls[c] EXCEPT !.pc = "refused"]
                              ELSE Free]
  /\ calls' # calls
  /\ UNCHANGED <<registryVars, phoneVars>>

RegistryNext ==
  \/ \E k \in Code : CreatePairingSession(k) \/ SessionExpires(k)
  \/ RotateToken \/ RevokeToken \/ ClearPairing \/ Restart
  \/ \E c \in Call :
       \/ \E k \in Code : Pair(c, k)
       \/ ConsumePairingSession(c) \/ UpsertDevice(c) \/ SavePairing(c) \/ PairingFails(c)
       \/ SendHeartbeat(c) \/ Authenticate(c) \/ RecordHeartbeat(c) \/ ReceiveHeartbeat(c)
       \/ RoundFails(c) \/ Lose(c)

-----------------------------------------------------------------------------
(***************************************************************************)
(* A pairing code pairs once (README: codes are single-use), whatever is   *)
(* lost, repeated or cut off: there are no more tokens from pairing than   *)
(* codes that were used.  There may be fewer: a code whose pairing is cut  *)
(* off is spent.                                                           *)
(***************************************************************************)
CodesPairOnce == tokens <= rotations + Cardinality({k \in Code : session[k] = "used"})

(***************************************************************************)
(* What the phone has to say is news: the sequence record_heartbeat        *)
(* compares with is never ahead of the phone's, and no two heartbeats bear *)
(* the same one, across clearing the pairing and pairing again.            *)
(***************************************************************************)
NewsIsNew ==
  /\ row.sequence <= phone.sequence
  /\ \A c, d \in Call : calls[c].kind = "beat" /\ calls[d].kind = "beat" /\ calls[c].arg = calls[d].arg
                        => c = d
=============================================================================
