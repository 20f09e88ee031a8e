------------------------ MODULE InboundEvents_proofs ------------------------
(***************************************************************************)
(* Proofs about the phone's registration and the notifications it sends:   *)
(* for any codes, requests, events, identities and length of the queue.    *)
(***************************************************************************)
EXTENDS InboundEvents, LeastElement

\* The requests there are, by what they ask.
PairCall == [kind : {"pair"}, pc : {"sent", "consumed"} \cup Served, token : 0..tokens, arg : Code]
BeatCall == [kind : {"beat"}, pc : {"sent", "authenticated"} \cup Served, token : 1..tokens,
             arg : 1..MaxBeats]
EventCall == [kind : {"event"}, pc : {"sent", "authenticated", "recorded", "created"} \cup Served,
              token : 1..tokens, arg : Event]
IsCall(k) == k = Free \/ k \in PairCall \/ k \in BeatCall \/ k \in EventCall

\* The table of requests, and what the phone waits for in each.
Table == calls = [c \in Call |-> calls[c]]
Waits ==
  /\ Table
  /\ pairing # None => calls[pairing].kind = "pair"
  /\ loop.pc = "beat" => calls[loop.by].kind = "beat"
  /\ loop.pc = "upload" => calls[loop.by].kind = "event"

\* Codes used up, and those whose pairing is still under way.
Spent == {k \in Code : session[k] = "used"}
InHand == {calls[c].arg : c \in {c \in Call : At(c, "pair", "consumed")}}
Spends ==
  /\ IsFiniteSet(Spent) /\ InHand \subseteq Spent
  /\ \A c, d \in Call : /\ At(c, "pair", "consumed") /\ At(d, "pair", "consumed")
                        /\ calls[c].arg = calls[d].arg
                        => c = d
  /\ tokens <= rotations + Cardinality(Spent \ InHand)

\* The phone has sent no later heartbeat than its sequence says.
News == NewsIsNew /\ \A c \in Call : calls[c].kind = "beat" => calls[c].arg <= phone.sequence

\* What the handler of an event has recorded, or answers for, is in the table.
Kept ==
  \A c \in Call : calls[c].kind = "event" /\ calls[c].pc \in {"recorded", "created", "answered"} =>
    events[IdentityOf[calls[c].arg]].payload = calls[c].arg

\* A handler makes tasks of known sources only, and links one it has made.
Routes ==
  \A c \in Call :
    /\ calls[c].pc \in {"recorded", "created"} => IdentityOf[calls[c].arg] \in Known
    /\ calls[c].pc = "created" => taskState[IdentityOf[calls[c].arg]] # "NONE"

IInv == /\ ITypeOK /\ Waits /\ Spends /\ News
        /\ AcknowledgedIsStored /\ Kept /\ RoutedTogether /\ Routes

-----------------------------------------------------------------------------
(***************************************************************************)
(* What the filter of acknowledgeInboundEvent leaves.                      *)
(***************************************************************************)
Filtered(kept, q, e, m) ==
  kept = [n \in 0..m |-> IF n = 0 THEN <<>>
                         ELSE IF IdentityOf[q[n]] = IdentityOf[e] THEN kept[n - 1]
                         ELSE Append(kept[n - 1], q[n])]

LEMMA FilterExists ==
  ASSUME NEW q, NEW e, NEW m \in Nat
  PROVE  \E kept : Filtered(kept, q, e, m)
<1> DEFINE Bad == {k \in Nat : ~\E kept : Filtered(kept, q, e, k)}
<1> SUFFICES ASSUME Bad # {} PROVE FALSE
  OBVIOUS
<1>1. PICK k \in Bad : \A j \in Bad : k <= j
  BY LeastElement
<1>2. CASE k = 0
  <2>1. Filtered([n \in 0..0 |-> <<>>], q, e, 0)
    BY DEF Filtered
  <2> QED BY <1>1, <1>2, <2>1
<1>3. CASE k # 0
  <2>1. k - 1 \in Nat /\ k - 1 \notin Bad
    BY <1>1, <1>3
  <2>2. PICK kept : Filtered(kept, q, e, k - 1)
    BY <2>1
  <2> DEFINE last == IF IdentityOf[q[k]] = IdentityOf[e] THEN kept[k - 1]
                     ELSE Append(kept[k - 1], q[k])
  <2>3. PICK longer : longer = [n \in 0..k |-> IF n = k THEN last ELSE kept[n]]
    OBVIOUS
  <2>4. \A n \in 0..k : longer[n] = IF n = 0 THEN <<>>
                                    ELSE IF IdentityOf[q[n]] = IdentityOf[e] THEN longer[n - 1]
                                    ELSE Append(longer[n - 1], q[n])
    <3> TAKE n \in 0..k
    <3>1. CASE n = k
      <4>1. longer[n] = last /\ n # 0 /\ n - 1 \in 0..k /\ n - 1 # k
        BY <3>1, <2>1, <2>3, <1>3
      <4>2. longer[n - 1] = kept[k - 1]
        BY <4>1, <2>3, <3>1
      <4> QED BY <3>1, <4>1, <4>2
    <3>2. CASE n # k
      <4>1. n \in 0..(k - 1) /\ longer[n] = kept[n]
        BY <3>2, <2>1, <2>3
      <4>2. kept[n] = IF n = 0 THEN <<>>
                      ELSE IF IdentityOf[q[n]] = IdentityOf[e] THEN kept[n - 1]
                      ELSE Append(kept[n - 1], q[n])
        BY <4>1, <2>2 DEF Filtered
      <4>3. n # 0 => n - 1 \in 0..k /\ n - 1 # k
        BY <4>1, <2>1
      <4>4. n # 0 => longer[n - 1] = kept[n - 1]
        BY <4>3, <2>3
      <4> QED BY <4>1, <4>2, <4>4
    <3> QED BY <3>1, <3>2
  <2>5. Filtered(longer, q, e, k)
    BY <2>3, <2>4 DEF Filtered
  <2> QED BY <1>1, <2>5
<1> QED BY <1>2, <1>3

LEMMA OthersIs ==
  ASSUME NEW q \in Seq(Event), NEW e
  PROVE  \E kept : Filtered(kept, q, e, Len(q)) /\ Others(q, e) = kept[Len(q)]
<1>1. PICK kept : kept = CHOOSE k : Filtered(k, q, e, Len(q))
  OBVIOUS
<1>2. Filtered(kept, q, e, Len(q))
  <2>1. Len(q) \in Nat
    OBVIOUS
  <2>2. \E k : Filtered(k, q, e, Len(q))
    BY <2>1, FilterExists
  <2> QED BY <1>1, <2>2
<1>3. Others(q, e) = kept[Len(q)]
  BY <1>1 DEF Others, Filtered
<1> QED BY <1>2, <1>3

\* The filter gives a queue again, no longer than the one it read.
LEMMA OthersIsQueue ==
  ASSUME NEW q \in Seq(Event), NEW e
  PROVE  Others(q, e) \in Seq(Event) /\ Len(Others(q, e)) <= Len(q)
<1>1. PICK kept : Filtered(kept, q, e, Len(q)) /\ Others(q, e) = kept[Len(q)]
  BY OthersIs
<1> DEFINE Bad == {k \in 0..Len(q) : ~(kept[k] \in Seq(Event) /\ Len(kept[k]) <= k)}
<1> SUFFICES ASSUME Bad # {} PROVE FALSE
  BY <1>1
<1>2. PICK k \in Bad : \A j \in Bad : k <= j
  <2>1. Bad \in SUBSET Nat
    OBVIOUS
  <2> HIDE DEF Bad
  <2> QED BY <2>1, LeastElement
<1>3. kept[k] = IF k = 0 THEN <<>> ELSE IF IdentityOf[q[k]] = IdentityOf[e] THEN kept[k - 1]
                                        ELSE Append(kept[k - 1], q[k])
  BY <1>1 DEF Filtered
<1>4. k # 0
  <2>1. <<>> \in Seq(Event) /\ Len(<<>>) = 0
    OBVIOUS
  <2> QED BY <1>2, <1>3, <2>1
<1>5. k - 1 \in 0..Len(q) /\ k - 1 \notin Bad /\ q[k] \in Event
  BY <1>2, <1>4
<1>6. kept[k - 1] \in Seq(Event) /\ Len(kept[k - 1]) <= k - 1
  BY <1>5
<1>7. kept[k] = kept[k - 1] \/ kept[k] = Append(kept[k - 1], q[k])
  BY <1>3, <1>4
<1>8. /\ Append(kept[k - 1], q[k]) \in Seq(Event)
      /\ Len(Append(kept[k - 1], q[k])) = Len(kept[k - 1]) + 1
  BY <1>5, <1>6
<1>9. kept[k] \in Seq(Event) /\ Len(kept[k]) <= k
  <2>1. k \in Nat /\ Len(kept[k - 1]) \in Nat /\ Len(kept[k - 1]) + 1 <= k
    BY <1>5, <1>6
  <2>2. CASE kept[k] = kept[k - 1]
    <3>1. Len(kept[k]) = Len(kept[k - 1])
      BY <2>2
    <3> QED BY <1>6, <2>1, <2>2, <3>1
  <2>3. CASE kept[k] = Append(kept[k - 1], q[k])
    BY <1>8, <2>1, <2>3
  <2> QED BY <1>7, <2>2, <2>3
<1> QED BY <1>9

LEMMA BoundedIsQueue ==
  ASSUME NEW q \in Seq(Event)
  PROVE  Bounded(q) \in Seq(Event) /\ Len(Bounded(q)) <= Capacity
<1>1. CASE Len(q) > Capacity
  <2> DEFINE first == Len(q) - Capacity + 1
  <2>1. first \in 1..Len(q) /\ Len(q) - first + 1 = Capacity
    BY <1>1, InboundAssumption
  <2>2. SubSeq(q, first, Len(q)) \in Seq(Event) /\ Len(SubSeq(q, first, Len(q))) = Capacity
    BY <2>1
  <2> QED BY <1>1, <2>2 DEF Bounded
<1>2. CASE ~(Len(q) > Capacity)
  BY <1>2, InboundAssumption DEF Bounded
<1> QED BY <1>1, <1>2
-----------------------------------------------------------------------------
(***************************************************************************)
(* Types.                                                                  *)
(***************************************************************************)
Registry ==
  /\ session \in [Code -> {"none", "open", "expired", "used"}]
  /\ tokens \in Nat /\ rotations \in 0..MaxRotations
  /\ row \in [token : 0..tokens, valid : BOOLEAN, sequence : 0..MaxBeats]
  /\ phone \in [token : 0..tokens, sequence : 0..MaxBeats]
  /\ pairing \in Call \cup {None}
Looping ==
  \/ loop = Idle
  \/ loop \in [pc : {"beat", "upload"}, by : Call, token : 1..tokens]
  \/ loop \in [pc : {"pick"}, by : {None}, token : 1..tokens]
  \/ loop = Round("write", None, 0)
Queues ==
  /\ removal.event \in Event \cup {None}
  /\ \A q \in {queue, listener, removal.next} : q \in Seq(Event) /\ Len(q) <= Capacity
Tables ==
  /\ events \in [Task -> [payload : Event \cup {None}, linked : BOOLEAN]]
  /\ taskState \in [Task -> {"NONE", "RECEIVED"}]

LEMMA TypeParts ==
  ITypeOK <=> /\ Registry /\ Looping /\ Queues /\ Tables
              /\ \A c \in Call : IsCall(calls[c])
BY DEF ITypeOK, Registry, Looping, Queues, Tables, IsCall, PairCall, BeatCall, EventCall

\* What a step does to one request it does to no other.
LEMMA OneCall ==
  ASSUME Waits, NEW c \in Call
  PROVE  /\ Take(c) \/ (\E pc : Proceed(c, pc) \/ Answer(c, pc)) => Table'
         /\ Take(c) => calls' = [x \in Call |-> IF x = c THEN Free ELSE calls[x]]
         /\ \A pc : Proceed(c, pc) =>
              calls' = [x \in Call |-> IF x = c THEN [calls[c] EXCEPT !.pc = pc] ELSE calls[x]]
         /\ \A pc : Answer(c, pc) =>
              calls' = [x \in Call |-> IF x # c THEN calls[x]
                                       ELSE IF Awaited(c) THEN [calls[c] EXCEPT !.pc = pc] ELSE Free]
         /\ \A request : Send(c, request) =>
              calls[c] = Free /\ calls' = [x \in Call |-> IF x = c THEN request ELSE calls[x]]
BY DEF Waits, Table, Take, Proceed, Answer, Send

\* What becomes of the records when a field of theirs is written.
LEMMA Written ==
  ASSUME NEW T, NEW U, NEW t \in T, NEW s \in U,
         NEW r \in [token : T, valid : BOOLEAN, sequence : U], NEW p \in [token : T, sequence : U]
  PROVE  /\ [r EXCEPT !.token = t, !.valid = TRUE] \in [token : T, valid : BOOLEAN, sequence : U]
         /\ [r EXCEPT !.sequence = s] \in [token : T, valid : BOOLEAN, sequence : U]
         /\ [p EXCEPT !.token = t] \in [token : T, sequence : U]
<1>1. [r EXCEPT !.token = t, !.valid = TRUE] \in [token : T, valid : BOOLEAN, sequence : U]
  OBVIOUS
<1>2. [r EXCEPT !.sequence = s] \in [token : T, valid : BOOLEAN, sequence : U]
  OBVIOUS
<1>3. [p EXCEPT !.token = t] \in [token : T, sequence : U]
  OBVIOUS
<1> QED BY <1>1, <1>2, <1>3

\* Tokens only become more.
LEMMA Issued ==
  ASSUME Registry
  PROVE  /\ tokens + 1 \in Nat /\ tokens <= tokens + 1 /\ tokens + 1 \in 0..(tokens + 1)
         /\ row \in [token : 0..(tokens + 1), valid : BOOLEAN, sequence : 0..MaxBeats]
         /\ phone \in [token : 0..(tokens + 1), sequence : 0..MaxBeats]
<1>1. tokens \in Nat /\ 0..tokens \subseteq 0..(tokens + 1)
  BY DEF Registry
<1> QED BY <1>1 DEF Registry

\* A request stays one while tokens are added, and while its handler goes on.
LEMMA CallStays ==
  ASSUME tokens \in Nat, tokens' \in Nat, tokens <= tokens', NEW k, IsCall(k)
  PROVE  IsCall(k)'
BY DEF IsCall, PairCall, BeatCall, EventCall, Served, Free, Request

\* Where a handler may take a request.
MayGo(k, pc) ==
  /\ k # Free
  /\ \/ pc \in Served
     \/ k.kind = "pair" /\ pc = "consumed"
     \/ k.kind \in {"beat", "event"} /\ pc = "authenticated"
     \/ k.kind = "event" /\ pc \in {"recorded", "created"}
Going(c, pc) == MayGo(calls[c], pc) /\ (Proceed(c, pc) \/ Answer(c, pc))

LEMMA CallGoesOn ==
  ASSUME NEW k, IsCall(k), NEW pc, MayGo(k, pc)
  PROVE  IsCall([k EXCEPT !.pc = pc]) /\ [k EXCEPT !.pc = pc].kind = k.kind
BY DEF MayGo, IsCall, PairCall, BeatCall, EventCall, Served

LEMMA CallKinds ==
  ASSUME NEW k, IsCall(k)
  PROVE  /\ k.kind \in {"none", "pair", "beat", "event"}
         /\ k.kind = "none" \/ k.pc = "free" => k = Free
         /\ k.kind = "pair" => k \in PairCall
         /\ k.kind = "beat" => k \in BeatCall
         /\ k.kind = "event" => k \in EventCall
         /\ k # Free => k.pc \in {"sent", "consumed", "authenticated", "recorded", "created"} \cup Served
BY DEF IsCall, PairCall, BeatCall, EventCall, Served, Free, Request

\* What somebody waits for stays what it is.
LEMMA WaitsKept ==
  ASSUME Registry, Looping, Waits, Table',
         \A c \in Call : Awaited(c) /\ (c = pairing' \/ c = loop'.by) => calls'[c].kind = calls[c].kind,
         pairing' \in {None, pairing}, loop' = loop \/ loop'.pc \notin {"beat", "upload"}
  PROVE  Waits'
BY RegistryAssumption DEF Waits, Looping, Registry, Awaited, Idle, Round

\* A step of a handler: it goes on, or answers somebody who still waits, or is forgotten.
LEMMA HandlerStep ==
  ASSUME Waits, NEW c \in Call, IsCall(calls[c]), NEW pc, Going(c, pc)
  PROVE  /\ Table'
         /\ \A x \in Call : x # c => calls'[x] = calls[x]
         /\ calls'[c] = [calls[c] EXCEPT !.pc = pc] \/ (~Awaited(c) /\ calls'[c] = Free)
         /\ \A k : k = calls'[c] => IsCall(k)
         /\ \A x \in Call : Awaited(x) => calls'[x].kind = calls[x].kind
<1>1. IsCall([calls[c] EXCEPT !.pc = pc]) /\ [calls[c] EXCEPT !.pc = pc].kind = calls[c].kind
  BY CallGoesOn DEF Going
<1>2. Table'
  BY DEF Waits, Table, Going, Proceed, Answer
<1>3. \A x \in Call : x # c => calls'[x] = calls[x]
  BY DEF Waits, Table, Going, Proceed, Answer
<1>4. calls'[c] = [calls[c] EXCEPT !.pc = pc] \/ (~Awaited(c) /\ calls'[c] = Free)
  <2>1. PICK k : k = [calls[c] EXCEPT !.pc = pc]
    OBVIOUS
  <2>2. \/ calls' = [x \in Call |-> IF x = c THEN k ELSE calls[x]]
        \/ calls' = [x \in Call |-> IF x # c THEN calls[x] ELSE IF Awaited(c) THEN k ELSE Free]
    BY <2>1, OneCall DEF Going
  <2>3. CASE calls' = [x \in Call |-> IF x = c THEN k ELSE calls[x]]
    <3>1. calls'[c] = k
      BY <2>3
    <3> QED BY <2>1, <3>1
  <2>4. CASE calls' = [x \in Call |-> IF x # c THEN calls[x] ELSE IF Awaited(c) THEN k ELSE Free]
    <3>1. calls'[c] = IF Awaited(c) THEN k ELSE Free
      BY <2>4
    <3> QED BY <2>1, <3>1
  <2> QED BY <2>2, <2>3, <2>4
<1>5. ASSUME NEW k, k = calls'[c] PROVE IsCall(k)
  <2>1. IsCall(Free)
    BY DEF IsCall
  <2> QED BY <1>1, <1>4, <1>5, <2>1
<1>6. \A x \in Call : Awaited(x) => calls'[x].kind = calls[x].kind
  BY <1>1, <1>3, <1>4
<1> QED BY <1>2, <1>3, <1>4, <1>5, <1>6

LEMMA RegistryStep == IInv /\ INext => Registry'
<1> SUFFICES ASSUME IInv, INext PROVE Registry'
  OBVIOUS
<1>1. Registry /\ \A x \in Call : IsCall(calls[x])
  BY TypeParts DEF IInv
<1>2. ASSUME NEW k \in Code, CreatePairingSession(k) \/ SessionExpires(k) PROVE Registry'
  BY <1>1, <1>2 DEF CreatePairingSession, SessionExpires, Registry, phoneVars
<1>3. CASE RotateToken
  <2>1. rotations' \in 0..MaxRotations
    BY <1>1, <1>3, RegistryAssumption DEF RotateToken, Registry
  <2>2. row' \in [token : 0..(tokens + 1), valid : BOOLEAN, sequence : 0..MaxBeats]
    BY <1>1, <1>3, Written, Issued DEF RotateToken
  <2> QED BY <1>1, <1>3, <2>1, <2>2, Issued DEF RotateToken, Registry, phoneVars
<1>4. ASSUME NEW c \in Call, UpsertDevice(c) PROVE Registry'
  BY <1>1, <1>4, Written, Issued DEF UpsertDevice, Registry, phoneVars
<1>5. CASE RevokeToken
  BY <1>1, <1>5 DEF RevokeToken, Registry, phoneVars
<1>6. ASSUME NEW c \in Call, ConsumePairingSession(c) PROVE Registry'
  BY <1>1, <1>6 DEF ConsumePairingSession, Registry, phoneVars
<1>7. ASSUME NEW c \in Call, RecordHeartbeat(c) PROVE Registry'
  <2>1. calls[c].arg \in 0..MaxBeats
    BY <1>1, <1>7, CallKinds, RegistryAssumption DEF RecordHeartbeat, At, BeatCall
  <2> QED BY <1>1, <1>7, <2>1, Written DEF RecordHeartbeat, Registry, phoneVars
<1>8. ASSUME NEW c \in Call, (\E k \in Code : Pair(c, k)) \/ PairingFails(c) PROVE Registry'
  BY <1>1, <1>8 DEF Pair, PairingFails, Registry, registryVars
<1>9. ASSUME NEW c \in Call, SavePairing(c) PROVE Registry'
  <2>1. calls[c].token \in 0..tokens
    BY <1>1 DEF IsCall, PairCall, BeatCall, EventCall, Free, Request, Registry
  <2> QED BY <1>1, <1>9, <2>1, Written DEF SavePairing, Registry, registryVars
<1>10. CASE ClearPairing
  <2>1. 0 \in 0..tokens
    BY <1>1 DEF Registry
  <2> QED BY <1>1, <1>10, <2>1, Written DEF ClearPairing, Registry, registryVars
<1>11. ASSUME NEW c \in Call, SendHeartbeat(c) PROVE Registry'
  BY <1>1, <1>11, RegistryAssumption DEF SendHeartbeat, Registry, registryVars
<1>12. CASE Crash
  BY <1>1, <1>12 DEF Crash, Registry, registryVars
<1>13. CASE UNCHANGED <<registryVars, phone, pairing>>
  BY <1>1, <1>13 DEF Registry, registryVars
<1> QED BY <1>2, <1>3, <1>4, <1>5, <1>6, <1>7, <1>8, <1>9, <1>10, <1>11, <1>12, <1>13
        DEF INext, RegistryNext, Restart, Authenticate, ReceiveHeartbeat, RoundFails, Lose, EnqueueRead,
            EnqueueWrite, NothingToUpload, AcknowledgeWrite, UploadEvent, AcknowledgeRead, IngestRecord,
            IngestCreate, IngestLink, registryVars, phoneVars, rvars

\* Tokens are only added.
LEMMA TokensGrow ==
  ASSUME IInv, INext
  PROVE  tokens \in Nat /\ tokens' \in Nat /\ tokens <= tokens'
<1>1. Registry
  BY TypeParts DEF IInv
<1>2. tokens' \in {tokens, tokens + 1}
  BY DEF INext, RegistryNext, CreatePairingSession, SessionExpires, RotateToken, RevokeToken, ClearPairing,
         Restart, Pair, ConsumePairingSession, UpsertDevice, SavePairing, PairingFails, SendHeartbeat,
         Authenticate, RecordHeartbeat, ReceiveHeartbeat, RoundFails, Lose, EnqueueRead, EnqueueWrite,
         NothingToUpload, AcknowledgeWrite, Crash, UploadEvent, AcknowledgeRead, IngestRecord,
         IngestCreate, IngestLink, registryVars, rvars
<1> QED BY <1>1, <1>2 DEF Registry

LEMMA LoopingStep == IInv /\ INext => Looping'
<1> SUFFICES ASSUME IInv, INext PROVE Looping'
  OBVIOUS
<1>1. Registry /\ Looping
  BY TypeParts DEF IInv
<1>2. CASE loop' = loop
  BY <1>1, <1>2, TokensGrow DEF Looping
<1>3. CASE loop' = Idle
  BY <1>3 DEF Looping
<1>4. ASSUME NEW c \in Call, SendHeartbeat(c) \/ UploadEvent(c) PROVE Looping'
  BY <1>1, <1>4 DEF SendHeartbeat, UploadEvent, Looping, Registry, registryVars, Round, Idle
<1>5. ASSUME NEW c \in Call, ReceiveHeartbeat(c) PROVE Looping'
  BY <1>1, <1>5 DEF ReceiveHeartbeat, Looping, registryVars, Round, Idle
<1>6. ASSUME NEW c \in Call, AcknowledgeRead(c) PROVE Looping'
  BY <1>6 DEF AcknowledgeRead, Looping
<1> QED BY <1>2, <1>3, <1>4, <1>5, <1>6
        DEF INext, RegistryNext, CreatePairingSession, SessionExpires, RotateToken, RevokeToken,
            ClearPairing, Restart, Pair, ConsumePairingSession, UpsertDevice, SavePairing, PairingFails,
            Authenticate, RecordHeartbeat, RoundFails, Lose, EnqueueRead, EnqueueWrite, NothingToUpload,
            AcknowledgeWrite, Crash, IngestRecord, IngestCreate, IngestLink, phoneVars, rvars

LEMMA QueuesStep == IInv /\ INext => Queues'
<1> SUFFICES ASSUME IInv, INext PROVE Queues'
  OBVIOUS
<1>1. Queues /\ Waits
  BY TypeParts DEF IInv
<1>2. <<>> \in Seq(Event) /\ Len(<<>>) <= Capacity
  BY InboundAssumption
<1>3. CASE UNCHANGED <<queue, listener, removal>>
  BY <1>1, <1>3 DEF Queues
<1>4. ASSUME NEW e \in Event, EnqueueRead(e) PROVE Queues'
  <2>1. Append(queue, e) \in Seq(Event) /\ queue \in Seq(Event)
    BY <1>1 DEF Queues
  <2>2. listener' \in Seq(Event) /\ Len(listener') <= Capacity
    BY <1>4, <2>1, BoundedIsQueue DEF EnqueueRead
  <2> QED BY <1>1, <1>4, <2>2 DEF EnqueueRead, Queues
<1>5. CASE EnqueueWrite \/ AcknowledgeWrite \/ Crash
  <2>1. CASE EnqueueWrite
    BY <1>1, <1>2, <2>1 DEF EnqueueWrite, Queues
  <2>2. CASE AcknowledgeWrite
    BY <1>1, <1>2, <2>2 DEF AcknowledgeWrite, Queues, Removal
  <2>3. CASE Crash
    BY <1>1, <1>2, <2>3 DEF Crash, Queues, Removal
  <2> QED BY <1>5, <2>1, <2>2, <2>3
<1>6. ASSUME NEW c \in Call, AcknowledgeRead(c) PROVE Queues'
  <2>1. calls[c].arg \in Event
    <3>1. IsCall(calls[c]) /\ calls[c].kind = "event"
      BY <1>1, <1>6, TypeParts DEF IInv, Waits, AcknowledgeRead
    <3> QED BY <3>1, CallKinds DEF EventCall
  <2>2. Others(queue, calls[c].arg) \in Seq(Event) /\ Len(Others(queue, calls[c].arg)) <= Capacity
    BY <1>1, OthersIsQueue, InboundAssumption DEF Queues
  <2> QED BY <1>1, <1>6, <2>1, <2>2 DEF AcknowledgeRead, Queues, Removal
<1> QED BY <1>3, <1>4, <1>5, <1>6
        DEF INext, NothingToUpload, UploadEvent, IngestRecord, IngestCreate, IngestLink, intakeVars

LEMMA TablesStep == IInv /\ INext => Tables'
<1> SUFFICES ASSUME IInv, INext PROVE Tables'
  OBVIOUS
<1>1. Tables /\ \A x \in Call : IsCall(calls[x])
  BY TypeParts DEF IInv
<1>2. CASE UNCHANGED <<events, taskState>>
  BY <1>1, <1>2 DEF Tables
<1>3. ASSUME NEW c \in Call, IngestRecord(c) PROVE Tables'
  <2>1. calls[c].arg \in Event
    BY <1>1, <1>3, CallKinds DEF IngestRecord, At, EventCall
  <2>2. PICK r : r = Row(calls[c].arg, FALSE)
    OBVIOUS
  <2>3. r \in [payload : Event \cup {None}, linked : BOOLEAN]
    BY <2>1, <2>2 DEF Row
  <2>4. events' = events \/ events' = [events EXCEPT ![IdentityOf[calls[c].arg]] = r]
    BY <1>3, <2>2 DEF IngestRecord
  <2>5. events' \in [Task -> [payload : Event \cup {None}, linked : BOOLEAN]]
    BY <1>1, <2>3, <2>4 DEF Tables
  <2> QED BY <1>1, <1>3, <2>5 DEF IngestRecord, Tables, taskVars
<1>4. ASSUME NEW c \in Call, IngestCreate(c) PROVE Tables'
  BY <1>1, <1>4 DEF IngestCreate, CreateTask, Tables, intakeVars
<1>5. ASSUME NEW c \in Call, IngestLink(c) PROVE Tables'
  <2>1. events' \in [Task -> [payload : Event \cup {None}, linked : BOOLEAN]]
    BY <1>1, <1>5 DEF IngestLink, Tables
  <2> QED BY <1>1, <1>5, <2>1 DEF IngestLink, Tables, taskVars
<1> QED BY <1>2, <1>3, <1>4, <1>5
        DEF INext, EnqueueRead, EnqueueWrite, NothingToUpload, AcknowledgeWrite, Crash, UploadEvent,
            AcknowledgeRead, taskVars, intakeVars

-----------------------------------------------------------------------------
(***************************************************************************)
(* What a step does to a request: nothing, unless it is the request's own. *)
(***************************************************************************)
Sent(x) == (\E k \in Code : Pair(x, k)) \/ SendHeartbeat(x) \/ UploadEvent(x)
Handled(x) == \/ ConsumePairingSession(x) \/ UpsertDevice(x) \/ Authenticate(x) \/ RecordHeartbeat(x)
              \/ IngestRecord(x) \/ IngestCreate(x) \/ IngestLink(x)

LEMMA Moves ==
  ASSUME IInv, INext, NEW x \in Call
  PROVE  \/ calls'[x] = calls[x] \/ calls'[x] = Free
         \/ calls'[x] = [calls[x] EXCEPT !.pc = "refused"] /\ calls[x] # Free
         \/ Sent(x) \/ Handled(x)
<1>1. Waits
  BY DEF IInv
<1>2. ASSUME NEW k \in Code, CreatePairingSession(k) \/ SessionExpires(k) PROVE calls'[x] = calls[x]
  BY <1>2 DEF CreatePairingSession, SessionExpires
<1>3. ASSUME RotateToken \/ RevokeToken \/ ClearPairing PROVE calls'[x] = calls[x]
  BY <1>3 DEF RotateToken, RevokeToken, ClearPairing
<1>4. ASSUME Restart
      PROVE  \/ calls'[x] = calls[x] \/ calls'[x] = Free
             \/ calls'[x] = [calls[x] EXCEPT !.pc = "refused"] /\ calls[x] # Free
  BY <1>4 DEF Restart, Free, Request
<1>5. ASSUME NEW c \in Call, \/ (\E k \in Code : Pair(c, k)) \/ ConsumePairingSession(c) \/ SendHeartbeat(c)
                             \/ Authenticate(c) \/ RecordHeartbeat(c) \/ UploadEvent(c)
                             \/ IngestRecord(c) \/ IngestCreate(c) \/ IngestLink(c)
      PROVE  x = c \/ calls'[x] = calls[x]
  <2>1. \A request : Send(c, request) => x = c \/ calls'[x] = calls[x]
    BY <1>1, OneCall
  <2>2. \A pc : Proceed(c, pc) \/ Answer(c, pc) => x = c \/ calls'[x] = calls[x]
    BY <1>1, OneCall
  <2>3. CASE (\E k \in Code : Pair(c, k)) \/ SendHeartbeat(c) \/ UploadEvent(c)
    BY <2>1, <2>3 DEF Pair, SendHeartbeat, UploadEvent
  <2>4. CASE ConsumePairingSession(c) \/ Authenticate(c) \/ RecordHeartbeat(c)
    BY <2>2, <2>4 DEF ConsumePairingSession, Authenticate, RecordHeartbeat
  <2>5. CASE IngestRecord(c) \/ IngestCreate(c) \/ IngestLink(c)
    BY <2>2, <2>5 DEF IngestRecord, IngestCreate, IngestLink
  <2> QED BY <1>5, <2>3, <2>4, <2>5
<1>6. ASSUME NEW c \in Call, UpsertDevice(c)
      PROVE  x = c \/ calls'[x] = calls[x]
  BY <1>1, <1>6 DEF UpsertDevice, Waits, Table
<1>7. ASSUME NEW c \in Call, \/ SavePairing(c) \/ PairingFails(c) \/ ReceiveHeartbeat(c) \/ RoundFails(c)
                             \/ Lose(c) \/ AcknowledgeRead(c)
      PROVE  calls'[x] = calls[x] \/ calls'[x] = Free
  BY <1>1, <1>7, OneCall DEF SavePairing, PairingFails, ReceiveHeartbeat, RoundFails, Lose,
       AcknowledgeRead, Forget
<1>8. ASSUME (\E e \in Event : EnqueueRead(e)) \/ EnqueueWrite \/ NothingToUpload \/ AcknowledgeWrite
      PROVE  calls'[x] = calls[x]
  BY <1>8 DEF EnqueueRead, EnqueueWrite, NothingToUpload, AcknowledgeWrite, rvars
<1>9. ASSUME Crash PROVE calls'[x] = calls[x] \/ calls'[x] = Free
  BY <1>9 DEF Crash
<1> QED BY <1>2, <1>3, <1>4, <1>5, <1>6, <1>7, <1>8, <1>9 DEF INext, RegistryNext, Sent, Handled

\* A handler keeps what its request asks and brings.
LEMMA HandledKeeps ==
  ASSUME IInv, NEW x \in Call, Handled(x), calls'[x].kind # "none"
  PROVE  calls'[x].kind = calls[x].kind /\ calls'[x].arg = calls[x].arg
<1>1. Waits /\ IsCall(calls[x])
  BY TypeParts DEF IInv
<1>2. \A pc : [calls[x] EXCEPT !.pc = pc].kind = calls[x].kind /\ [calls[x] EXCEPT !.pc = pc].arg = calls[x].arg
  <2> TAKE pc
  <2> QED BY <1>1 DEF IsCall, PairCall, BeatCall, EventCall, Free, Request
<1>3. Free.kind = "none"
  BY DEF Free, Request
<1>4. ASSUME NEW pc, Proceed(x, pc) \/ Answer(x, pc)
      PROVE  calls'[x].kind = calls[x].kind /\ calls'[x].arg = calls[x].arg
  <2>1. calls'[x] = [calls[x] EXCEPT !.pc = pc] \/ calls'[x] = Free
    BY <1>1, <1>4, OneCall
  <2> QED BY <1>2, <1>3, <2>1
<1>5. CASE ConsumePairingSession(x) \/ Authenticate(x) \/ RecordHeartbeat(x)
  BY <1>4, <1>5 DEF ConsumePairingSession, Authenticate, RecordHeartbeat
<1>6. CASE IngestRecord(x) \/ IngestCreate(x) \/ IngestLink(x)
  BY <1>4, <1>6 DEF IngestRecord, IngestCreate, IngestLink
<1>7. CASE UpsertDevice(x)
  BY <1>1, <1>3, <1>7 DEF UpsertDevice, Waits, Table, At, Request
<1> QED BY <1>5, <1>6, <1>7 DEF Handled

LEMMA HandledGoes ==
  ASSUME NEW x \in Call, Handled(x), ~UpsertDevice(x)
  PROVE  \E pc : Going(x, pc)
<1>1. calls[x].kind # "none" => calls[x] # Free
  BY DEF Free, Request
<1>2. CASE ConsumePairingSession(x)
  BY <1>1, <1>2 DEF ConsumePairingSession, At, Going, MayGo, Served
<1>3. CASE Authenticate(x) \/ RecordHeartbeat(x)
  BY <1>1, <1>3 DEF Authenticate, RecordHeartbeat, At, Going, MayGo, Served
<1>4. CASE IngestRecord(x) \/ IngestCreate(x) \/ IngestLink(x)
  BY <1>1, <1>4 DEF IngestRecord, IngestCreate, IngestLink, At, Going, MayGo, Served
<1> QED BY <1>2, <1>3, <1>4 DEF Handled

\* Requests stay requests: one that is sent is well-formed, a handler leaves a well-formed
\* one, and tokens that are added invalidate none.
LEMMA CallsStep == IInv /\ INext => (\A x \in Call : IsCall(calls[x]))'
<1> SUFFICES ASSUME IInv, INext, NEW x \in Call, NEW k, k = calls'[x] PROVE IsCall(k)'
  OBVIOUS
<1>1. Registry /\ Looping /\ Waits /\ Queues /\ IsCall(calls[x])
  BY TypeParts DEF IInv
<1>2. ASSUME IsCall(k) PROVE IsCall(k)'
  BY <1>2, TokensGrow, CallStays
<1>3. CASE calls'[x] = calls[x] \/ calls'[x] = Free
  BY <1>1, <1>2, <1>3 DEF IsCall
<1>4. CASE calls'[x] = [calls[x] EXCEPT !.pc = "refused"] /\ calls[x] # Free
  BY <1>1, <1>2, <1>4, CallGoesOn DEF MayGo, Served
<1>5. CASE \E kk \in Code : Pair(x, kk)
  <2>1. PICK kk \in Code : calls'[x] = Request("pair", "sent", 0, kk)
    BY <1>1, <1>5, OneCall DEF Pair
  <2>2. IsCall(k)
    BY <1>1, <2>1 DEF IsCall, PairCall, Request, Registry
  <2> QED BY <1>2, <2>2
<1>6. CASE SendHeartbeat(x)
  <2>1. calls'[x] = Request("beat", "sent", phone.token, phone.sequence + 1)
    BY <1>1, <1>6, OneCall DEF SendHeartbeat
  <2>2. phone.token \in 1..tokens /\ phone.sequence + 1 \in 1..MaxBeats
    BY <1>1, <1>6, RegistryAssumption DEF SendHeartbeat, Registry
  <2>3. IsCall(k)
    BY <2>1, <2>2 DEF IsCall, BeatCall, Request
  <2> QED BY <1>2, <2>3
<1>7. CASE UploadEvent(x)
  <2>1. calls'[x] = Request("event", "sent", loop.token, Head(queue))
    BY <1>1, <1>7, OneCall DEF UploadEvent
  <2>2. loop.token \in 1..tokens /\ Head(queue) \in Event
    BY <1>1, <1>7 DEF UploadEvent, Looping, Queues, Idle, Round
  <2>3. IsCall(k)
    BY <2>1, <2>2 DEF IsCall, EventCall, Request
  <2> QED BY <1>2, <2>3
<1>8. CASE UpsertDevice(x)
  <2>1. calls'[x] = Free \/ calls'[x] = Request("pair", "answered", tokens + 1, calls[x].arg)
    BY <1>1, <1>8 DEF UpsertDevice, Waits, Table
  <2>2. calls[x].arg \in Code /\ tokens' = tokens + 1 /\ tokens + 1 \in 0..(tokens + 1)
    BY <1>1, <1>8, CallKinds, Issued DEF UpsertDevice, At, PairCall
  <2> QED BY <2>1, <2>2 DEF IsCall, PairCall, Request, Served
<1>9. CASE \E pc : Going(x, pc)
  BY <1>1, <1>2, <1>9, HandlerStep
<1> QED BY <1>3, <1>4, <1>5, <1>6, <1>7, <1>8, <1>9, HandledGoes, Moves DEF Sent, Handled

LEMMA WaitsStep == IInv /\ INext => Waits'
<1> SUFFICES ASSUME IInv, INext PROVE Waits'
  OBVIOUS
<1>1. Registry /\ Looping /\ Waits /\ \A x \in Call : IsCall(calls[x])
  BY TypeParts DEF IInv
<1>2. \A x \in Call : Awaited(x) => calls[x].kind # "none" /\ calls[x] # Free
  BY <1>1, RegistryAssumption DEF Waits, Registry, Awaited, Looping, Idle, Round, Free, Request
<1>3. ASSUME NEW c \in Call, (\E k \in Code : Pair(c, k)) \/ SendHeartbeat(c) \/ UploadEvent(c)
      PROVE  Waits'
  <2>1. PICK request : /\ calls[c] = Free
                       /\ calls' = [x \in Call |-> IF x = c THEN request ELSE calls[x]]
                       /\ \/ request.kind = "pair" /\ pairing' = c /\ loop' = loop
                          \/ /\ request.kind = "beat" /\ pairing' = pairing
                             /\ loop'.pc = "beat" /\ loop'.by = c
                          \/ /\ request.kind = "event" /\ pairing' = pairing
                             /\ loop'.pc = "upload" /\ loop'.by = c
    <3>1. \A request : Send(c, request) =>
            calls[c] = Free /\ calls' = [x \in Call |-> IF x = c THEN request ELSE calls[x]]
      BY <1>1, OneCall
    <3>2. CASE \E k \in Code : Pair(c, k)
      <4>1. PICK k \in Code : Pair(c, k)
        BY <3>2
      <4>2. Request("pair", "sent", 0, k).kind = "pair"
        BY DEF Request
      <4> QED BY <3>1, <4>1, <4>2 DEF Pair
    <3>3. CASE SendHeartbeat(c)
      <4>1. Request("beat", "sent", phone.token, phone.sequence + 1).kind = "beat"
        BY DEF Request
      <4> QED BY <3>1, <3>3, <4>1 DEF SendHeartbeat, Round
    <3>4. CASE UploadEvent(c)
      <4>1. Request("event", "sent", loop.token, Head(queue)).kind = "event"
        BY DEF Request
      <4> QED BY <3>1, <3>4, <4>1 DEF UploadEvent, Round
    <3> QED BY <1>3, <3>2, <3>3, <3>4
  <2>2. \A x \in Call : Awaited(x) => x # c /\ calls'[x] = calls[x]
    BY <1>2, <2>1
  <2>3. pairing # None => Awaited(pairing) /\ pairing \in Call
    BY <1>1 DEF Registry, Awaited
  <2>4. loop.pc \in {"beat", "upload"} => Awaited(loop.by) /\ loop.by \in Call
    BY <1>1 DEF Looping, Awaited, Idle, Round
  <2>5. Table'
    BY <2>1 DEF Table
  <2> QED BY <1>1, <2>1, <2>2, <2>3, <2>4, <2>5 DEF Waits
<1>4. ASSUME NEW c \in Call, SavePairing(c) \/ PairingFails(c) PROVE Waits'
  <2>1. /\ Table' /\ pairing = c /\ pairing' = None /\ loop' = loop
        /\ \A x \in Call : x # c => calls'[x] = calls[x]
    <3>1. (Take(c) \/ calls' = calls) /\ pairing = c /\ pairing' = None /\ loop' = loop
      BY <1>4 DEF SavePairing, PairingFails, Forget
    <3> QED BY <1>1, <3>1, OneCall DEF Waits, Table
  <2>2. \A x \in Call : x = loop.by /\ Awaited(x) => x # c
    BY <1>1, <2>1, RegistryAssumption DEF Waits, Looping, Idle, Round
  <2> QED BY <1>1, <2>1, <2>2, RegistryAssumption, WaitsKept
<1>5. ASSUME NEW c \in Call, ReceiveHeartbeat(c) \/ RoundFails(c) \/ AcknowledgeRead(c) PROVE Waits'
  <2>1. /\ Table' /\ loop.by = c /\ pairing' = pairing /\ loop'.pc \notin {"beat", "upload"}
        /\ loop'.by = None /\ \A x \in Call : x # c => calls'[x] = calls[x]
    <3>1. /\ (Take(c) \/ calls' = calls) /\ loop.by = c /\ pairing' = pairing
          /\ loop'.pc \notin {"beat", "upload"} /\ loop'.by = None
      BY <1>5 DEF ReceiveHeartbeat, RoundFails, AcknowledgeRead, Forget, Idle, Round
    <3> QED BY <1>1, <3>1, OneCall DEF Waits, Table
  <2>2. \A x \in Call : x = pairing /\ Awaited(x) => x # c
    BY <1>1, <2>1, RegistryAssumption DEF Waits, Looping, Idle, Round
  <2> QED BY <1>1, <2>1, <2>2, RegistryAssumption, WaitsKept
<1>6. ASSUME NEW c \in Call, Lose(c) PROVE Waits'
  <2>1. /\ Table' /\ ~Awaited(c) /\ pairing' = pairing /\ loop' = loop
        /\ \A x \in Call : x # c => calls'[x] = calls[x]
    BY <1>1, <1>6, OneCall DEF Lose, phoneVars
  <2> QED BY <1>1, <2>1, WaitsKept
<1>7. CASE Crash
  BY <1>7 DEF Crash, Waits, Table, Idle, Round
<1>8. CASE Restart
  <2>1. Table' /\ pairing' = pairing /\ loop' = loop
    BY <1>8 DEF Restart, Table, phoneVars
  <2>2. \A x \in Call : Awaited(x) => calls'[x] \in {calls[x], [calls[x] EXCEPT !.pc = "refused"]}
    BY <1>8 DEF Restart
  <2>3. \A x \in Call : Awaited(x) => [calls[x] EXCEPT !.pc = "refused"].kind = calls[x].kind
    BY <1>1, <1>2, CallGoesOn DEF MayGo, Served
  <2> QED BY <1>1, <2>1, <2>2, <2>3, WaitsKept
<1>9. ASSUME NEW c \in Call, Handled(c) PROVE Waits'
  <2>1. pairing' = pairing /\ loop' = loop
    BY <1>9 DEF Handled, ConsumePairingSession, UpsertDevice, Authenticate, RecordHeartbeat, IngestRecord,
         IngestCreate, IngestLink, phoneVars
  <2>2. CASE UpsertDevice(c)
    <3>1. Table'
      BY <1>1, <2>2 DEF UpsertDevice, Waits, Table
    <3>2. \A x \in Call : Awaited(x) => calls'[x].kind = calls[x].kind
      BY <1>1, <2>2 DEF UpsertDevice, Waits, Table, At, Request
    <3> QED BY <1>1, <2>1, <3>1, <3>2, WaitsKept
  <2>3. CASE ~UpsertDevice(c)
    <3>1. PICK pc : Going(c, pc)
      BY <1>9, <2>3, HandledGoes
    <3>2. Table' /\ \A x \in Call : Awaited(x) => calls'[x].kind = calls[x].kind
      BY <1>1, <3>1, HandlerStep
    <3> QED BY <1>1, <2>1, <3>2, WaitsKept
  <2> QED BY <2>2, <2>3
<1>10. CASE calls' = calls /\ pairing' = pairing /\ (loop' = loop \/ loop'.pc \notin {"beat", "upload"})
  <2>1. Table'
    BY <1>1, <1>10 DEF Waits, Table
  <2> QED BY <1>1, <1>10, <2>1, WaitsKept
<1> QED BY <1>3, <1>4, <1>5, <1>6, <1>7, <1>8, <1>9, <1>10
        DEF INext, RegistryNext, Handled, CreatePairingSession, SessionExpires, RotateToken, RevokeToken,
            ClearPairing, EnqueueRead, EnqueueWrite, NothingToUpload, AcknowledgeWrite, phoneVars, rvars,
            Idle, Round

LEMMA TypeStep == IInv /\ INext => ITypeOK' /\ Waits'
<1> SUFFICES ASSUME IInv, INext PROVE ITypeOK' /\ Waits'
  OBVIOUS
<1>1. Registry' /\ Looping' /\ Queues' /\ Tables' /\ (\A x \in Call : IsCall(calls[x]))'
  BY RegistryStep, LoopingStep, QueuesStep, TablesStep, CallsStep
<1>2. ITypeOK'
  BY <1>1 DEF ITypeOK, Registry, Looping, Queues, Tables, IsCall, PairCall, BeatCall, EventCall
<1> QED BY <1>2, WaitsStep

-----------------------------------------------------------------------------
(***************************************************************************)
(* Heartbeats.                                                             *)
(***************************************************************************)
LEMMA BeatMoves ==
  ASSUME IInv, INext, NEW x \in Call, calls'[x].kind = "beat"
  PROVE  \/ calls[x].kind = "beat" /\ calls'[x].arg = calls[x].arg
         \/ SendHeartbeat(x)
<1>1. Waits /\ IsCall(calls[x])
  BY TypeParts DEF IInv
<1>2. CASE calls'[x] = Free
  BY <1>2 DEF Free, Request
<1>3. CASE calls'[x] = [calls[x] EXCEPT !.pc = "refused"]
  BY <1>1, <1>3 DEF IsCall, PairCall, BeatCall, EventCall, Free, Request
<1>4. CASE \E k \in Code : Pair(x, k)
  BY <1>1, <1>4, OneCall DEF Pair, Request
<1>5. CASE UploadEvent(x)
  BY <1>1, <1>5, OneCall DEF UploadEvent, Request
<1> QED BY <1>2, <1>3, <1>4, <1>5, Moves, HandledKeeps DEF Sent

LEMMA NewsStep == IInv /\ INext => News'
<1> SUFFICES ASSUME IInv, INext PROVE News'
  OBVIOUS
<1>1. Registry /\ Waits /\ News /\ \A c \in Call : IsCall(calls[c])
  BY TypeParts DEF IInv
<1>2. \A c \in Call : calls[c].kind = "beat" => calls[c].arg \in Nat /\ calls[c].arg <= phone.sequence
  BY <1>1, CallKinds, RegistryAssumption DEF News, BeatCall
<1>3. phone.sequence \in Nat /\ row.sequence \in Nat /\ row.sequence <= phone.sequence
  BY <1>1, RegistryAssumption DEF News, NewsIsNew, Registry
<1>4. ASSUME NEW c \in Call, SendHeartbeat(c) PROVE News'
  <2>1. phone'.sequence = phone.sequence + 1 /\ row' = row
    BY <1>1, <1>4 DEF SendHeartbeat, registryVars, Registry
  <2>2. calls' = [x \in Call |-> IF x = c THEN Request("beat", "sent", phone.token, phone.sequence + 1)
                                 ELSE calls[x]]
    BY <1>1, <1>4, OneCall DEF SendHeartbeat
  <2>3. \A x \in Call : calls'[x].kind = "beat" =>
          IF x = c THEN calls'[x].arg = phone.sequence + 1
          ELSE calls[x].kind = "beat" /\ calls'[x].arg = calls[x].arg
    BY <2>2 DEF Request
  <2> QED BY <1>1, <1>2, <1>3, <2>1, <2>3 DEF News, NewsIsNew
<1>5. ASSUME \A c \in Call : ~SendHeartbeat(c) PROVE News'
  <2>1. \A x \in Call : calls'[x].kind = "beat" => calls[x].kind = "beat" /\ calls'[x].arg = calls[x].arg
    BY <1>5, BeatMoves
  <2>2. phone'.sequence = phone.sequence
    BY <1>1, <1>5 DEF INext, RegistryNext, CreatePairingSession, SessionExpires, RotateToken, RevokeToken,
         ClearPairing, Restart, Pair, ConsumePairingSession, UpsertDevice, SavePairing, PairingFails,
         Authenticate, RecordHeartbeat, ReceiveHeartbeat, RoundFails, Lose, EnqueueRead, EnqueueWrite,
         NothingToUpload, AcknowledgeWrite, Crash, UploadEvent, AcknowledgeRead, IngestRecord,
         IngestCreate, IngestLink, Registry, registryVars, phoneVars, rvars
  <2>3. row'.sequence \in Nat /\ row'.sequence <= phone.sequence
    <3>1. CASE \E c \in Call : RecordHeartbeat(c)
      <4>1. PICK c \in Call : RecordHeartbeat(c)
        BY <3>1
      <4>2. row'.sequence \in {row.sequence, calls[c].arg} /\ calls[c].kind = "beat"
        BY <1>1, <4>1 DEF RecordHeartbeat, At, Registry
      <4> QED BY <1>2, <1>3, <4>2
    <3>2. CASE ~\E c \in Call : RecordHeartbeat(c)
      <4>1. row'.sequence = row.sequence
        BY <1>1, <1>5, <3>2 DEF INext, RegistryNext, CreatePairingSession, SessionExpires, RotateToken, RevokeToken,
         ClearPairing, Restart, Pair, ConsumePairingSession, UpsertDevice, SavePairing, PairingFails,
         Authenticate, ReceiveHeartbeat, RoundFails, Lose, EnqueueRead, EnqueueWrite,
         NothingToUpload, AcknowledgeWrite, Crash, UploadEvent, AcknowledgeRead, IngestRecord,
         IngestCreate, IngestLink, Registry, registryVars, phoneVars, rvars
      <4> QED BY <1>3, <4>1
    <3> QED BY <3>1, <3>2
  <2> QED BY <1>1, <1>2, <1>3, <2>1, <2>2, <2>3 DEF News, NewsIsNew
<1> QED BY <1>4, <1>5

-----------------------------------------------------------------------------
(***************************************************************************)
(* Pairing codes.                                                          *)
(***************************************************************************)
LEMMA PairMoves ==
  ASSUME IInv, INext, NEW x \in Call, At(x, "pair", "consumed")'
  PROVE  \/ At(x, "pair", "consumed") /\ calls'[x].arg = calls[x].arg /\ ~UpsertDevice(x)
         \/ ConsumePairingSession(x)
<1>1. Waits /\ IsCall(calls[x]) /\ calls'[x].kind = "pair" /\ calls'[x].pc = "consumed"
  BY TypeParts DEF IInv, At
<1>2. ASSUME NEW pc, pc # "consumed"
      PROVE  calls'[x] # [calls[x] EXCEPT !.pc = pc]
  BY <1>1, <1>2 DEF IsCall, PairCall, BeatCall, EventCall, Free, Request
<1>3. CASE calls'[x] = Free
  BY <1>1, <1>3 DEF Free, Request
<1>4. ~Sent(x)
  <2>1. \A request : Send(x, request) => calls'[x] = request
    BY <1>1, OneCall
  <2>2. \A kind, token, arg : Request(kind, "sent", token, arg).pc = "sent"
    BY DEF Request
  <2> QED BY <1>1, <2>1, <2>2 DEF Sent, Pair, SendHeartbeat, UploadEvent
<1>5. ASSUME NEW pc, pc # "consumed", Proceed(x, pc) \/ Answer(x, pc)
      PROVE  FALSE
  <2>1. calls'[x] = [calls[x] EXCEPT !.pc = pc] \/ calls'[x] = Free
    BY <1>1, <1>5, OneCall
  <2>2. calls'[x] # Free
    BY <1>1 DEF Free, Request
  <2> QED BY <1>2, <1>5, <2>1, <2>2
<1>6. CASE Authenticate(x) \/ RecordHeartbeat(x)
  BY <1>5, <1>6 DEF Authenticate, RecordHeartbeat
<1>7. CASE IngestRecord(x) \/ IngestCreate(x) \/ IngestLink(x)
  BY <1>5, <1>7 DEF IngestRecord, IngestCreate, IngestLink
<1>8. ~UpsertDevice(x)
  BY <1>1 DEF UpsertDevice, Waits, Table, Request, Free
<1>9. calls'[x] # [calls[x] EXCEPT !.pc = "refused"]
  BY <1>2
<1>10. CASE calls'[x] = calls[x]
  BY <1>1, <1>8, <1>10 DEF At
<1> QED BY <1>3, <1>4, <1>6, <1>7, <1>8, <1>9, <1>10, Moves DEF Handled

\* Codes in hand that are given up are spent for nothing: the account only gets better.
LEMMA InHandFewer ==
  ASSUME Spends, Registry, Registry', Spent' = Spent, InHand' \subseteq InHand,
         \/ tokens' = tokens /\ rotations' = rotations
         \/ tokens' = tokens + 1 /\ rotations' = rotations + 1
  PROVE  /\ IsFiniteSet(Spent)' /\ (InHand \subseteq Spent)'
         /\ (tokens <= rotations + Cardinality(Spent \ InHand))'
<1>1. Spent \ InHand \subseteq Spent' \ InHand'
  OBVIOUS
<1>2. IsFiniteSet(Spent' \ InHand') /\ IsFiniteSet(Spent \ InHand)
  <2>1. IsFiniteSet(Spent)
    BY DEF Spends
  <2> QED BY <2>1, FS_Subset
<1>3. Cardinality(Spent \ InHand) <= Cardinality(Spent' \ InHand')
  BY <1>1, <1>2, FS_Subset
<1>4. Cardinality(Spent \ InHand) \in Nat /\ Cardinality(Spent' \ InHand') \in Nat
  BY <1>2, FS_CardinalityType
<1>5. tokens \in Nat /\ rotations \in Nat /\ tokens' \in Nat /\ rotations' \in Nat
  BY RegistryAssumption DEF Registry
<1> QED BY <1>2, <1>3, <1>4, <1>5 DEF Spends

LEMMA SpendsStep == IInv /\ INext => Spends'
<1> SUFFICES ASSUME IInv, INext PROVE Spends'
  OBVIOUS
<1>1. Registry /\ Waits /\ Spends /\ \A c \in Call : IsCall(calls[c])
  BY TypeParts DEF IInv
<1>2. Registry'
  BY TypeStep DEF ITypeOK, Registry
<1>3. \A x \in Call : At(x, "pair", "consumed")' =>
        \/ At(x, "pair", "consumed") /\ calls'[x].arg = calls[x].arg
        \/ ConsumePairingSession(x)
  BY PairMoves
<1>4. ASSUME NEW c \in Call, ConsumePairingSession(c), session[calls[c].arg] = "open"
      PROVE  Spends'
  <2>1. PICK k \in Code : k = calls[c].arg
    BY <1>1, <1>4, CallKinds DEF ConsumePairingSession, At, PairCall
  <2>2. /\ session[k] = "open" /\ session' = [session EXCEPT ![k] = "used"]
        /\ calls' = [x \in Call |-> IF x = c THEN [calls[c] EXCEPT !.pc = "consumed"] ELSE calls[x]]
        /\ tokens' = tokens /\ rotations' = rotations /\ At(c, "pair", "sent")
    BY <1>1, <1>4, <2>1, OneCall DEF ConsumePairingSession
  <2>3. Spent' = Spent \cup {k} /\ k \notin Spent
    BY <1>1, <2>2 DEF Spent, Registry
  <2>4. /\ At(c, "pair", "consumed")' /\ ~At(c, "pair", "consumed") /\ calls'[c].arg = k
        /\ \A x \in Call : x # c => /\ At(x, "pair", "consumed")' <=> At(x, "pair", "consumed")
                                    /\ calls'[x].arg = calls[x].arg
    BY <1>1, <2>1, <2>2, CallKinds DEF At, PairCall
  <2>5. InHand' = InHand \cup {k}
    BY <2>4 DEF InHand
  <2>6. k \notin InHand /\ InHand \subseteq Spent
    BY <1>1, <2>3 DEF Spends
  <2>7. Spent' \ InHand' = Spent \ InHand
    BY <2>3, <2>5, <2>6
  <2>8. IsFiniteSet(Spent')
    BY <1>1, <2>3, FS_AddElement DEF Spends
  <2>9. \A x \in Call : At(x, "pair", "consumed") => calls[x].arg \in InHand
    BY DEF InHand
  <2>10. \A x, y \in Call : At(x, "pair", "consumed")' /\ At(y, "pair", "consumed")'
                            /\ calls'[x].arg = calls'[y].arg => x = y
    <3> TAKE x, y \in Call
    <3> HAVE At(x, "pair", "consumed")' /\ At(y, "pair", "consumed")' /\ calls'[x].arg = calls'[y].arg
    <3>1. x # c => At(x, "pair", "consumed") /\ calls[x].arg = calls'[x].arg /\ calls'[x].arg # k
      BY <2>4, <2>6, <2>9
    <3>2. y # c => At(y, "pair", "consumed") /\ calls[y].arg = calls'[y].arg /\ calls'[y].arg # k
      BY <2>4, <2>6, <2>9
    <3>3. CASE x = c \/ y = c
      BY <2>4, <3>1, <3>2, <3>3
    <3>4. CASE x # c /\ y # c
      BY <1>1, <3>1, <3>2, <3>4 DEF Spends
    <3> QED BY <3>3, <3>4
  <2> QED BY <1>1, <2>2, <2>3, <2>5, <2>6, <2>7, <2>8, <2>10 DEF Spends
<1>5. ASSUME NEW c \in Call, UpsertDevice(c) PROVE Spends'
  <2>1. /\ At(c, "pair", "consumed") /\ tokens' = tokens + 1 /\ rotations' = rotations /\ session' = session
    BY <1>5 DEF UpsertDevice
  <2>2. \A x \in Call : At(x, "pair", "consumed")' =>
          x # c /\ At(x, "pair", "consumed") /\ calls'[x].arg = calls[x].arg
    <3>1. \A x \in Call : ~ConsumePairingSession(x)
      BY <1>1, <2>1 DEF ConsumePairingSession, Registry
    <3> QED BY <1>5, <3>1, PairMoves
  <2>3. PICK k : k = calls[c].arg
    OBVIOUS
  <2>4. Spent' = Spent /\ InHand' \subseteq InHand \ {k} /\ k \in Spent /\ k \in InHand
    BY <1>1, <2>1, <2>2, <2>3 DEF Spent, InHand, Spends
  <2>5. IsFiniteSet(Spent \ InHand) /\ IsFiniteSet(Spent' \ InHand') /\ IsFiniteSet(Spent)
    BY <1>1, <2>4, FS_Subset DEF Spends
  <2>6. IsFiniteSet((Spent \ InHand) \cup {k})
        /\ Cardinality((Spent \ InHand) \cup {k}) = Cardinality(Spent \ InHand) + 1
    BY <2>4, <2>5, FS_AddElement
  <2>7. Cardinality((Spent \ InHand) \cup {k}) <= Cardinality(Spent' \ InHand')
    <3>1. (Spent \ InHand) \cup {k} \subseteq Spent' \ InHand'
      BY <2>4
    <3> QED BY <2>5, <3>1, FS_Subset
  <2>8. Cardinality(Spent \ InHand) \in Nat /\ Cardinality(Spent' \ InHand') \in Nat
    BY <2>5, FS_CardinalityType
  <2>9. tokens' <= rotations' + Cardinality(Spent' \ InHand')
    <3>1. tokens \in Nat /\ rotations \in Nat /\ tokens <= rotations + Cardinality(Spent \ InHand)
      BY <1>1, RegistryAssumption DEF Registry, Spends
    <3> QED BY <2>1, <2>6, <2>7, <2>8, <3>1
  <2> QED BY <1>1, <2>2, <2>4, <2>5, <2>9 DEF Spends
<1>6. ASSUME \A c \in Call : ~UpsertDevice(c) /\ ~(ConsumePairingSession(c) /\ session[calls[c].arg] = "open")
      PROVE  Spends'
  <2>1. \A x \in Call : At(x, "pair", "consumed")' => At(x, "pair", "consumed") /\ calls'[x].arg = calls[x].arg
    <3>1. ASSUME NEW x \in Call, ConsumePairingSession(x) PROVE ~At(x, "pair", "consumed")'
      <4>1. Answer(x, "refused")
        BY <1>6, <3>1 DEF ConsumePairingSession
      <4>2. calls'[x] = [calls[x] EXCEPT !.pc = "refused"] \/ calls'[x] = Free
        BY <1>1, <4>1, OneCall
      <4> QED BY <1>1, <3>1, <4>2, CallKinds DEF At, ConsumePairingSession, PairCall, Free, Request
    <3> QED BY <1>3, <3>1
  <2>2. InHand' \subseteq InHand
    BY <2>1 DEF InHand
  <2>3. /\ Spent' = Spent
        /\ \/ tokens' = tokens /\ rotations' = rotations
           \/ tokens' = tokens + 1 /\ rotations' = rotations + 1
    <3>1. CASE \E k \in Code : CreatePairingSession(k) \/ SessionExpires(k)
      <4>1. PICK k \in Code : CreatePairingSession(k) \/ SessionExpires(k)
        BY <3>1
      <4>2. tokens' = tokens /\ rotations' = rotations
        BY <4>1 DEF CreatePairingSession, SessionExpires
      <4>3. \A j \in Code : session'[j] = "used" <=> session[j] = "used"
        BY <1>1, <4>1 DEF CreatePairingSession, SessionExpires, Registry
      <4> QED BY <4>2, <4>3 DEF Spent
    <3>2. CASE RotateToken
      BY <3>2 DEF RotateToken, Spent
    <3>3. CASE session' = session /\ tokens' = tokens /\ rotations' = rotations
      BY <3>3, Zenon DEF Spent
    <3> QED BY <1>6, <3>1, <3>2, <3>3 DEF INext, RegistryNext, RevokeToken,
         ClearPairing, Restart, Pair, ConsumePairingSession, SavePairing, PairingFails,
         SendHeartbeat, Authenticate, RecordHeartbeat, ReceiveHeartbeat, RoundFails, Lose, EnqueueRead,
         EnqueueWrite, NothingToUpload, AcknowledgeWrite, Crash, UploadEvent, AcknowledgeRead,
         IngestRecord, IngestCreate, IngestLink, registryVars, rvars
  <2>4. /\ IsFiniteSet(Spent)' /\ (InHand \subseteq Spent)'
        /\ (tokens <= rotations + Cardinality(Spent \ InHand))'
    BY <1>1, <1>2, <2>2, <2>3, InHandFewer
  <2> QED BY <1>1, <2>1, <2>4 DEF Spends
<1> QED BY <1>4, <1>5, <1>6

-----------------------------------------------------------------------------
(***************************************************************************)
(* Events, their rows and their tasks.                                     *)
(***************************************************************************)
Ingested(x) == IngestRecord(x) \/ IngestCreate(x) \/ IngestLink(x)

LEMMA EventMoves ==
  ASSUME IInv, INext, NEW x \in Call, calls'[x].kind = "event",
         calls'[x].pc \in {"recorded", "created", "answered"}
  PROVE  calls'[x] = calls[x] \/ Ingested(x)
<1>1. Waits /\ IsCall(calls[x])
  BY TypeParts DEF IInv
<1>2. ASSUME NEW pc, pc \notin {"recorded", "created", "answered"}
      PROVE  calls'[x] # [calls[x] EXCEPT !.pc = pc]
  BY <1>1, <1>2 DEF IsCall, PairCall, BeatCall, EventCall, Free, Request
<1>3. calls'[x] # Free
  BY DEF Free, Request
<1>4. ~Sent(x)
  <2>1. \A request : Send(x, request) => calls'[x] = request
    BY <1>1, OneCall
  <2>2. \A kind, token, arg : Request(kind, "sent", token, arg).pc = "sent"
    BY DEF Request
  <2> QED BY <1>1, <2>1, <2>2 DEF Sent, Pair, SendHeartbeat, UploadEvent
<1>5. Handled(x) => calls[x].kind = "event"
  BY HandledKeeps
<1>6. Handled(x) => Authenticate(x) \/ Ingested(x)
  BY <1>5 DEF Handled, Ingested, ConsumePairingSession, UpsertDevice, RecordHeartbeat, At
<1>7. ~Authenticate(x)
  <2>1. \A pc : Proceed(x, pc) \/ Answer(x, pc) => calls'[x] = [calls[x] EXCEPT !.pc = pc] \/ calls'[x] = Free
    BY <1>1, OneCall
  <2> QED BY <1>2, <1>3, <2>1 DEF Authenticate
<1> QED BY <1>2, <1>3, <1>4, <1>6, <1>7, Moves

\* What a handler of an event brings is an event, and its identity a task.
LEMMA EventCalls ==
  ASSUME IInv, NEW c \in Call, calls[c].kind = "event"
  PROVE  calls[c] \in EventCall /\ calls[c].arg \in Event /\ IdentityOf[calls[c].arg] \in Task
<1>1. calls[c] \in EventCall
  BY TypeParts, CallKinds DEF IInv
<1> QED BY <1>1, InboundAssumption DEF EventCall

\* The rows of events: a step writes one that was not there, or a link, or none.
LEMMA RowsStay ==
  ASSUME IInv, INext, NEW i \in Task, Recorded(i)
  PROVE  events'[i] \in {events[i], [events[i] EXCEPT !.linked = TRUE]}
<1>1. Tables
  BY TypeParts DEF IInv
<1>2. CASE events' = events
  BY <1>2
<1>3. ASSUME NEW c \in Call, IngestRecord(c), events' # events
      PROVE  events'[i] = events[i]
  <2>1. ~Recorded(IdentityOf[calls[c].arg])
    BY <1>3 DEF IngestRecord
  <2>2. events' = [events EXCEPT ![IdentityOf[calls[c].arg]] = Row(calls[c].arg, FALSE)]
    BY <1>3 DEF IngestRecord
  <2> QED BY <1>1, <2>1, <2>2 DEF Tables
<1>4. ASSUME NEW c \in Call, IngestLink(c)
      PROVE  events'[i] \in {events[i], [events[i] EXCEPT !.linked = TRUE]}
  BY <1>1, <1>4 DEF IngestLink, Tables
<1> QED BY <1>2, <1>3, <1>4 DEF INext, RegistryNext, EnqueueRead, EnqueueWrite, NothingToUpload,
       AcknowledgeWrite, Crash, UploadEvent, AcknowledgeRead, IngestCreate, intakeVars

LEMMA PayloadsStay ==
  ASSUME IInv, INext, NEW i \in Task, Recorded(i)
  PROVE  events'[i].payload = events[i].payload /\ Recorded(i)'
<1>1. events[i] \in [payload : Event \cup {None}, linked : BOOLEAN]
  BY TypeParts DEF IInv, Tables
<1>2. [events[i] EXCEPT !.linked = TRUE].payload = events[i].payload
  BY <1>1
<1> QED BY <1>1, <1>2, RowsStay DEF Recorded

LEMMA TasksStay ==
  ASSUME IInv, INext, NEW i \in Task
  PROVE  /\ taskState[i] # "NONE" => taskState'[i] # "NONE"
         /\ taskState[i] = "NONE" /\ taskState'[i] # "NONE" =>
              \E c \in Call : IngestCreate(c) /\ i = IdentityOf[calls[c].arg]
<1>1. Tables
  BY TypeParts DEF IInv
<1>2. CASE taskState' = taskState
  BY <1>2
<1>3. ASSUME NEW c \in Call, IngestCreate(c)
      PROVE  taskState' = [taskState EXCEPT ![IdentityOf[calls[c].arg]] = "RECEIVED"]
  BY <1>3 DEF IngestCreate, CreateTask
<1>4. CASE \E c \in Call : IngestCreate(c)
  BY <1>1, <1>3, <1>4 DEF Tables
<1> QED BY <1>2, <1>4 DEF INext, RegistryNext, EnqueueRead, EnqueueWrite, NothingToUpload,
       AcknowledgeWrite, Crash, UploadEvent, AcknowledgeRead, IngestRecord, IngestLink, taskVars

\* Where the steps of ingest leave the request and its row.
LEMMA Recording ==
  ASSUME IInv, NEW c \in Call, IngestRecord(c), calls'[c].kind = "event",
         calls'[c].pc \in {"recorded", "created", "answered"}
  PROVE  /\ calls[c].kind = "event" /\ calls'[c].arg = calls[c].arg
         /\ events'[IdentityOf[calls[c].arg]].payload = calls[c].arg
         /\ calls'[c].pc \in {"recorded", "created"} =>
              /\ calls'[c].pc = "recorded"
              /\ ~Recorded(IdentityOf[calls[c].arg]) /\ IdentityOf[calls[c].arg] \in Known
<1>1. Waits /\ Tables /\ calls[c].kind = "event" /\ calls'[c].arg = calls[c].arg
  BY TypeParts, HandledKeeps DEF IInv, IngestRecord, At, Handled
<1>2. calls[c] \in EventCall /\ IdentityOf[calls[c].arg] \in Task /\ calls[c].arg # None
  BY <1>1, EventCalls, InboundAssumption
<1>3. \A pc : Proceed(c, pc) \/ Answer(c, pc) =>
        calls'[c] = [calls[c] EXCEPT !.pc = pc] \/ calls'[c] = Free
  BY <1>1, OneCall
<1>4. \A pc : [calls[c] EXCEPT !.pc = pc].pc = pc
  BY <1>2 DEF EventCall
<1>5. calls'[c] # Free
  BY DEF Free, Request
<1>6. \A pc : Proceed(c, pc) \/ Answer(c, pc) => calls'[c].pc = pc
  BY <1>3, <1>4, <1>5
<1>7. CASE events[IdentityOf[calls[c].arg]].payload = calls[c].arg /\ Answer(c, "answered") /\ UNCHANGED events
  BY <1>1, <1>6, <1>7
<1>8. CASE Answer(c, "refused")
  BY <1>6, <1>8
<1>9. CASE /\ ~Recorded(IdentityOf[calls[c].arg])
           /\ events' = [events EXCEPT ![IdentityOf[calls[c].arg]] = Row(calls[c].arg, FALSE)]
           /\ \/ IdentityOf[calls[c].arg] \in Known /\ Proceed(c, "recorded")
              \/ IdentityOf[calls[c].arg] \notin Known /\ Answer(c, "answered")
  <2>1. events'[IdentityOf[calls[c].arg]] = Row(calls[c].arg, FALSE)
    BY <1>1, <1>2, <1>9 DEF Tables
  <2>2. Row(calls[c].arg, FALSE).payload = calls[c].arg
    BY DEF Row
  <2> QED BY <1>1, <1>6, <1>9, <2>1, <2>2
<1> QED BY <1>7, <1>8, <1>9 DEF IngestRecord

LEMMA Making ==
  ASSUME IInv, NEW c \in Call, IngestCreate(c) \/ IngestLink(c)
  PROVE  /\ calls[c].kind = "event" /\ calls[c].pc \in {"recorded", "created"}
         /\ calls'[c] = Free \/ (calls'[c].kind = "event" /\ calls'[c].arg = calls[c].arg)
         /\ calls'[c].pc \in {"recorded", "created"} =>
              calls'[c].pc = "created" /\ taskState'[IdentityOf[calls[c].arg]] # "NONE"
<1>1. Waits /\ Tables /\ calls[c].kind = "event" /\ calls[c].pc \in {"recorded", "created"}
  BY TypeParts DEF IInv, IngestCreate, IngestLink, At
<1>2. calls[c] \in EventCall /\ IdentityOf[calls[c].arg] \in Task
  BY <1>1, EventCalls
<1>3. \A pc : /\ [calls[c] EXCEPT !.pc = pc].pc = pc /\ [calls[c] EXCEPT !.pc = pc].kind = "event"
              /\ [calls[c] EXCEPT !.pc = pc].arg = calls[c].arg
  BY <1>2 DEF EventCall
<1>4. Free.pc = "free"
  BY DEF Free, Request
<1>5. CASE IngestCreate(c)
  <2>1. calls'[c] = [calls[c] EXCEPT !.pc = "created"]
    BY <1>1, <1>5, OneCall DEF IngestCreate
  <2>2. taskState'[IdentityOf[calls[c].arg]] = "RECEIVED"
    BY <1>1, <1>2, <1>5 DEF IngestCreate, CreateTask, Tables
  <2> QED BY <1>1, <1>3, <2>1, <2>2
<1>6. CASE IngestLink(c)
  <2>1. calls'[c] = [calls[c] EXCEPT !.pc = "answered"] \/ calls'[c] = Free
    BY <1>1, <1>6, OneCall DEF IngestLink
  <2> QED BY <1>1, <1>3, <1>4, <2>1
<1> QED BY <1>5, <1>6

LEMMA KeptStep == IInv /\ INext => Kept'
<1> SUFFICES ASSUME IInv, INext, NEW x \in Call, calls'[x].kind = "event",
                    calls'[x].pc \in {"recorded", "created", "answered"}
             PROVE  events'[IdentityOf[calls'[x].arg]].payload = calls'[x].arg
  BY DEF Kept
<1>1. ASSUME calls[x].kind = "event", calls[x].pc \in {"recorded", "created", "answered"}
      PROVE  events'[IdentityOf[calls[x].arg]].payload = calls[x].arg
  <2>1. calls[x].arg # None /\ IdentityOf[calls[x].arg] \in Task
    BY <1>1, EventCalls, InboundAssumption
  <2>2. events[IdentityOf[calls[x].arg]].payload = calls[x].arg
    BY <1>1 DEF IInv, Kept
  <2> QED BY <2>1, <2>2, PayloadsStay DEF Recorded
<1>2. CASE calls'[x] = calls[x]
  BY <1>1, <1>2
<1>3. CASE IngestRecord(x)
  BY <1>3, Recording
<1>4. CASE IngestCreate(x) \/ IngestLink(x)
  <2>1. calls[x].kind = "event" /\ calls[x].pc \in {"recorded", "created"} /\ calls'[x].arg = calls[x].arg
    BY <1>4, Making DEF Free, Request
  <2> QED BY <1>1, <2>1
<1> QED BY <1>2, <1>3, <1>4, EventMoves DEF Ingested

LEMMA AcknowledgedStep == IInv /\ INext => AcknowledgedIsStored'
<1> SUFFICES ASSUME IInv, INext, removal'.event # None
             PROVE  events'[IdentityOf[removal'.event]].payload = removal'.event
  BY DEF AcknowledgedIsStored
<1>1. Waits /\ Queues /\ AcknowledgedIsStored /\ Kept
  BY TypeParts DEF IInv
<1>2. ASSUME NEW e \in Event, events[IdentityOf[e]].payload = e
      PROVE  events'[IdentityOf[e]].payload = e
  BY <1>2, PayloadsStay, InboundAssumption DEF Recorded
<1>3. CASE removal' = removal
  BY <1>1, <1>2, <1>3 DEF AcknowledgedIsStored, Queues
<1>4. ASSUME NEW c \in Call, AcknowledgeRead(c)
      PROVE  removal'.event \in Event /\ events[IdentityOf[removal'.event]].payload = removal'.event
  <2>1. calls[c].kind = "event" /\ calls[c].pc = "answered" /\ removal'.event = calls[c].arg
    BY <1>1, <1>4 DEF AcknowledgeRead, Waits, Removal
  <2> QED BY <1>1, <2>1, EventCalls DEF Kept
<1>5. CASE AcknowledgeWrite \/ Crash
  BY <1>5 DEF AcknowledgeWrite, Crash, Removal
<1> QED BY <1>2, <1>3, <1>4, <1>5 DEF INext, RegistryNext, EnqueueRead, EnqueueWrite, NothingToUpload,
       UploadEvent, IngestRecord, IngestCreate, IngestLink, intakeVars

\* Two handlers do not record in one step.
LEMMA OnlyOne ==
  ASSUME IInv, NEW c \in Call, NEW d \in Call, IngestRecord(c), IngestRecord(d),
         calls'[d].pc \in {"recorded", "created"}
  PROVE  c = d
<1>1. Waits /\ calls[d].pc = "authenticated"
  BY DEF IInv, IngestRecord, At
<1>2. \A pc : Proceed(c, pc) \/ Answer(c, pc) => c = d \/ calls'[d] = calls[d]
  BY <1>1, OneCall
<1> QED BY <1>1, <1>2 DEF IngestRecord

LEMMA RoutesStep == IInv /\ INext => RoutedTogether' /\ Routes'
<1> SUFFICES ASSUME IInv, INext PROVE RoutedTogether' /\ Routes'
  OBVIOUS
<1>1. Waits /\ Tables /\ Kept /\ RoutedTogether /\ Routes /\ \A c \in Call : IsCall(calls[c])
  BY TypeParts DEF IInv
<1>2. \A c \in Call : calls[c].pc \in {"recorded", "created"} =>
        /\ calls[c].kind = "event" /\ calls[c].arg # None /\ IdentityOf[calls[c].arg] \in Task
        /\ Recorded(IdentityOf[calls[c].arg]) /\ IdentityOf[calls[c].arg] \in Known
  <2> SUFFICES ASSUME NEW c \in Call, calls[c].pc \in {"recorded", "created"}
               PROVE  /\ calls[c].kind = "event" /\ calls[c].arg # None
                      /\ IdentityOf[calls[c].arg] \in Task
                      /\ Recorded(IdentityOf[calls[c].arg]) /\ IdentityOf[calls[c].arg] \in Known
    OBVIOUS
  <2>1. calls[c].kind = "event"
    <3>1. PICK k : k = calls[c]
      OBVIOUS
    <3> QED BY <1>1, <3>1 DEF IsCall, PairCall, BeatCall, EventCall, Free, Request, Served
  <2>2. calls[c].arg # None /\ IdentityOf[calls[c].arg] \in Task
    BY <2>1, EventCalls, InboundAssumption
  <2> QED BY <1>1, <2>1, <2>2 DEF Kept, Routes, Recorded
\* Who holds an event after the step held it before, or has just recorded it.
<1>3. ASSUME NEW x \in Call, calls'[x].pc \in {"recorded", "created"}
      PROVE  /\ calls'[x].arg = calls[x].arg /\ IdentityOf[calls[x].arg] \in Known
             /\ calls'[x].pc = "created" => taskState'[IdentityOf[calls[x].arg]] # "NONE"
             /\ \/ calls[x].pc \in {"recorded", "created"}
                \/ IngestRecord(x) /\ ~Recorded(IdentityOf[calls[x].arg])
  <2>1. calls'[x].kind = "event"
    <3>1. PICK k : k = calls'[x]
      OBVIOUS
    <3>2. IsCall(k)'
      BY <3>1, TypeStep DEF ITypeOK, IsCall, PairCall, BeatCall, EventCall
    <3> QED BY <1>3, <3>1, <3>2 DEF IsCall, PairCall, BeatCall, EventCall, Free, Request, Served
  <2>2. CASE calls'[x] = calls[x]
    BY <1>1, <1>2, <1>3, <2>2, TasksStay DEF Routes
  <2>3. CASE IngestRecord(x)
    BY <1>3, <2>1, <2>3, Recording
  <2>4. CASE IngestCreate(x) \/ IngestLink(x)
    BY <1>2, <1>3, <2>1, <2>4, Making DEF Free, Request
  <2> QED BY <1>3, <2>1, <2>2, <2>3, <2>4, EventMoves DEF Ingested
<1>4. Routes'
  BY <1>3 DEF Routes
<1>5. \A i \in Task : taskState'[i] # "NONE" => Recorded(i)' /\ i \in Known
  <2> SUFFICES ASSUME NEW i \in Task, taskState'[i] # "NONE" PROVE Recorded(i)' /\ i \in Known
    OBVIOUS
  <2>1. CASE taskState[i] # "NONE"
    BY <1>1, <2>1, PayloadsStay DEF RoutedTogether
  <2>2. CASE taskState[i] = "NONE"
    <3>1. PICK c \in Call : IngestCreate(c) /\ i = IdentityOf[calls[c].arg]
      BY <2>2, TasksStay
    <3> QED BY <1>2, <3>1, Making, PayloadsStay
  <2> QED BY <2>1, <2>2
<1>6. \A i \in Task : events'[i].linked => taskState'[i] # "NONE"
  <2> SUFFICES ASSUME NEW i \in Task, events'[i].linked PROVE taskState'[i] # "NONE"
    OBVIOUS
  <2>1. CASE events[i].linked
    BY <1>1, <2>1, TasksStay DEF RoutedTogether
  <2>2. CASE ~events[i].linked
    <3>1. ASSUME NEW c \in Call, IngestRecord(c) PROVE events'[i] = events[i] \/ ~events'[i].linked
      BY <1>1, <3>1 DEF IngestRecord, Tables, Row
    <3>2. ASSUME NEW c \in Call, IngestLink(c) PROVE events'[i] = events[i] \/ i = IdentityOf[calls[c].arg]
      BY <1>1, <3>2 DEF IngestLink, Tables
    <3>3. events' = events \/ \E c \in Call : IngestRecord(c) \/ IngestLink(c)
      BY DEF INext, RegistryNext, EnqueueRead, EnqueueWrite, NothingToUpload,
         AcknowledgeWrite, Crash, UploadEvent, AcknowledgeRead, IngestCreate, intakeVars
    <3>4. PICK c \in Call : IngestLink(c) /\ i = IdentityOf[calls[c].arg]
      BY <2>2, <3>1, <3>2, <3>3
    <3>5. taskState[i] # "NONE"
      BY <1>1, <3>4 DEF IngestLink, At, Routes
    <3> QED BY <3>5, TasksStay
  <2> QED BY <2>1, <2>2
<1>7. ASSUME NEW c \in Call, NEW d \in Call, calls'[c].pc \in {"recorded", "created"},
             calls'[d].pc \in {"recorded", "created"},
             IdentityOf[calls'[c].arg] = IdentityOf[calls'[d].arg]
      PROVE  c = d
  <2>1. IdentityOf[calls[c].arg] = IdentityOf[calls[d].arg]
    BY <1>3, <1>7
  <2>2. CASE calls[c].pc \in {"recorded", "created"} /\ calls[d].pc \in {"recorded", "created"}
    BY <1>1, <2>1, <2>2 DEF RoutedTogether
  <2>3. CASE IngestRecord(c) /\ ~Recorded(IdentityOf[calls[c].arg])
    <3>1. IngestRecord(d)
      BY <1>2, <1>3, <1>7, <2>1, <2>3
    <3> QED BY <1>1, <1>7, <2>3, <3>1, OnlyOne
  <2>4. CASE IngestRecord(d) /\ ~Recorded(IdentityOf[calls[d].arg])
    <3>1. IngestRecord(c)
      BY <1>2, <1>3, <1>7, <2>1, <2>4
    <3> QED BY <1>1, <1>7, <2>4, <3>1, OnlyOne
  <2> QED BY <1>3, <1>7, <2>2, <2>3, <2>4
<1> QED BY <1>4, <1>5, <1>6, <1>7 DEF RoutedTogether

-----------------------------------------------------------------------------
LEMMA InitIInv == IInit => IInv
<1> SUFFICES ASSUME IInit PROVE IInv
  OBVIOUS
<1>1. /\ session = [k \in Code |-> "none"] /\ tokens = 0 /\ rotations = 0
      /\ row = [token |-> 0, valid |-> FALSE, sequence |-> 0] /\ phone = [token |-> 0, sequence |-> 0]
      /\ pairing = None /\ loop = Idle /\ calls = [c \in Call |-> Free]
  BY DEF IInit, RInit
<1>2. /\ queue = <<>> /\ listener = <<>> /\ removal = Removal(None, <<>>)
      /\ events = [i \in Task |-> [payload |-> None, linked |-> FALSE]]
      /\ taskState = [i \in Task |-> "NONE"]
  BY DEF IInit, TaskInit
<1>3. Registry /\ Looping /\ \A c \in Call : IsCall(calls[c])
  BY <1>1, RegistryAssumption DEF Registry, Looping, IsCall
<1>4. Queues /\ Tables
  <2>1. <<>> \in Seq(Event) /\ Len(<<>>) = 0
    OBVIOUS
  <2> QED BY <1>2, <2>1, InboundAssumption DEF Queues, Tables, Removal
<1>5. Waits
  BY <1>1 DEF Waits, Table, Idle, Round
<1>6. Spends
  <2>1. Spent = {} /\ InHand = {} /\ \A c \in Call : ~At(c, "pair", "consumed")
    BY <1>1 DEF Spent, InHand, At, Free, Request
  <2>2. IsFiniteSet(Spent) /\ Cardinality(Spent \ InHand) = 0
    BY <2>1, FS_EmptySet
  <2> QED BY <1>1, <2>1, <2>2 DEF Spends
<1>7. News
  BY <1>1 DEF News, NewsIsNew, Free, Request
<1>8. AcknowledgedIsStored /\ Kept
  BY <1>1, <1>2 DEF AcknowledgedIsStored, Kept, Removal, Free, Request
<1>9. RoutedTogether /\ Routes
  BY <1>1, <1>2 DEF RoutedTogether, Routes, Free, Request
<1> QED BY <1>3, <1>4, <1>5, <1>6, <1>7, <1>8, <1>9, TypeParts DEF IInv

LEMMA StutterIInv == IInv /\ UNCHANGED ivars => IInv'
<1> SUFFICES ASSUME IInv, UNCHANGED ivars PROVE IInv'
  OBVIOUS
<1>1. UNCHANGED <<session, row, tokens, rotations, phone, pairing, loop, calls,
                 taskState, taskVersion, taskEvents, queue, listener, removal, events>>
  BY DEF ivars, rvars, registryVars, phoneVars, taskVars, intakeVars
<1>2. ITypeOK' /\ Waits'
  BY <1>1 DEF IInv, ITypeOK, Waits, Table, Idle, Round, Free, Request
<1>3. Spends'
  <2>1. Spent' = Spent /\ InHand' = InHand
    BY <1>1 DEF Spent, InHand, At
  <2> QED BY <1>1, <2>1 DEF IInv, Spends, At
<1>4. News' /\ AcknowledgedIsStored' /\ Kept'
  BY <1>1 DEF IInv, News, NewsIsNew, AcknowledgedIsStored, Kept
<1>5. RoutedTogether' /\ Routes'
  BY <1>1 DEF IInv, RoutedTogether, Routes, Recorded
<1> QED BY <1>2, <1>3, <1>4, <1>5 DEF IInv

LEMMA StepIInv == IInv /\ [INext]_ivars => IInv'
BY TypeStep, SpendsStep, NewsStep, KeptStep, AcknowledgedStep, RoutesStep, StutterIInv DEF IInv

LEMMA Invariant == ISpec => []IInv
<1>1. IInit => IInv
  BY InitIInv
<1>2. IInv /\ [INext]_ivars => IInv'
  BY StepIInv
<1> QED BY <1>1, <1>2, PTL DEF ISpec

\* The tables, the phone's disk, its threads and the requests keep their types; the queue
\* never holds more than Capacity events, also between the read and the write of two threads.
THEOREM IntakeTypeCorrect == ISpec => []ITypeOK
<1>1. IInv => ITypeOK
  BY DEF IInv
<1> QED BY <1>1, Invariant, PTL

\* A pairing code pairs once, whatever is lost, repeated or cut off (README: single-use).
THEOREM CodesSpentOnce == ISpec => []CodesPairOnce
<1>1. IInv => CodesPairOnce
  <2> SUFFICES ASSUME IInv PROVE CodesPairOnce
    OBVIOUS
  <2>1. Registry /\ Spends
    BY TypeParts DEF IInv
  <2>2. IsFiniteSet(Spent) /\ IsFiniteSet(Spent \ InHand)
    BY <2>1, FS_Subset DEF Spends
  <2>3. /\ Cardinality(Spent \ InHand) <= Cardinality(Spent)
        /\ Cardinality(Spent \ InHand) \in Nat /\ Cardinality(Spent) \in Nat
    BY <2>2, FS_Subset, FS_CardinalityType
  <2>4. tokens \in Nat /\ rotations \in Nat /\ tokens <= rotations + Cardinality(Spent \ InHand)
    BY <2>1, RegistryAssumption DEF Registry, Spends
  <2>5. tokens <= rotations + Cardinality(Spent)
    BY <2>3, <2>4
  <2> QED BY <2>5 DEF CodesPairOnce, Spent
<1> QED BY <1>1, Invariant, PTL

\* The sequence record_heartbeat compares with is never ahead of the phone's, and no two
\* heartbeats bear the same one, also across pairings.
THEOREM HeartbeatsAreNews == ISpec => []NewsIsNew
<1>1. IInv => NewsIsNew
  BY DEF IInv, News
<1> QED BY <1>1, Invariant, PTL

\* The upload on whose answer the phone clears its queue is recorded with that very payload
\* (acknowledgeInboundEvent; other entries of its identity go with it, recorded or not).
THEOREM DeliveredIsStored == ISpec => []AcknowledgedIsStored
<1>1. IInv => AcknowledgedIsStored
  BY DEF IInv
<1> QED BY <1>1, Invariant, PTL

\* Every task made of an event belongs to a recorded event of a known source, a link leads
\* to a task, and no two handlers make the task of one event.
THEOREM RoutingCorrect == ISpec => []RoutedTogether
<1>1. IInv => RoutedTogether
  BY DEF IInv
<1> QED BY <1>1, Invariant, PTL

\* A late heartbeat or a new pairing does not take the phone's sequence back; a repeated
\* notification neither changes its event nor takes the task from it.
THEOREM RecordsKept == ISpec => RecordsStand
<1>1. IInv /\ INext => row'.sequence >= row.sequence
  <2> SUFFICES ASSUME IInv, INext PROVE row'.sequence >= row.sequence
    OBVIOUS
  <2>1. Registry /\ \A c \in Call : IsCall(calls[c])
    BY TypeParts DEF IInv
  <2>2. row.sequence \in Nat
    BY <2>1, RegistryAssumption DEF Registry
  <2>3. CASE \E c \in Call : RecordHeartbeat(c)
    <3>1. PICK c \in Call : RecordHeartbeat(c)
      BY <2>3
    <3>2. calls[c].arg \in Nat
      BY <2>1, <3>1, CallKinds, RegistryAssumption DEF RecordHeartbeat, At, BeatCall
    <3>3. row'.sequence = IF calls[c].arg <= row.sequence THEN row.sequence ELSE calls[c].arg
      BY <2>1, <3>1 DEF RecordHeartbeat, Registry
    <3> QED BY <2>2, <3>2, <3>3
  <2>4. CASE ~\E c \in Call : RecordHeartbeat(c)
    <3>1. row'.sequence = row.sequence
      BY <2>1, <2>4 DEF INext, RegistryNext, CreatePairingSession, SessionExpires, RotateToken, RevokeToken,
         ClearPairing, Restart, Pair, ConsumePairingSession, UpsertDevice, SavePairing, PairingFails,
         SendHeartbeat, Authenticate, ReceiveHeartbeat, RoundFails, Lose, EnqueueRead, EnqueueWrite,
         NothingToUpload, AcknowledgeWrite, Crash, UploadEvent, AcknowledgeRead, IngestRecord,
         IngestCreate, IngestLink, Registry, registryVars, phoneVars, rvars
    <3> QED BY <2>2, <3>1
  <2> QED BY <2>3, <2>4
<1>2. IInv /\ [INext]_ivars =>
        [/\ row'.sequence >= row.sequence
         /\ \A i \in Task : Recorded(i) =>
              events'[i] \in {events[i], [events[i] EXCEPT !.linked = TRUE]}]_ivars
  BY <1>1, RowsStay
<1> QED BY <1>2, Invariant, PTL DEF ISpec, RecordsStand
=============================================================================
