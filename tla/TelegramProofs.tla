--------------------------- MODULE TelegramProofs ---------------------------
(***************************************************************************)
(* Proofs about Telegram: the slots of the alerts, the shutdown, and what  *)
(* becomes of the updates of the bot, for any capacity, batch size, number *)
(* of updates and number of crashes.                                       *)
(***************************************************************************)
EXTENDS Telegram, FiniteSetTheorems, TLAPS

Classes == {"alert", "reply"}

LEMMA MostOf ==
  \A a, b \in Int : Most(a, b) \in {a, b} /\ a <= Most(a, b) /\ b <= Most(a, b)
BY DEF Most

LEMMA FirstOfRun ==
  ASSUME NEW a \in Int, NEW b \in Int, a <= b
  PROVE  First(a .. b) = a
<1>1. a \in a .. b /\ \A v \in a .. b : a <= v
  OBVIOUS
<1>2. \A u \in a .. b : (\A v \in a .. b : u <= v) => u = a
  OBVIOUS
<1> QED
  BY <1>1, <1>2 DEF First

LEMMA LastOfRun ==
  ASSUME NEW a \in Int, NEW b \in Int, a <= b
  PROVE  LastOf(a .. b) = b
<1>1. b \in a .. b /\ \A v \in a .. b : v <= b
  OBVIOUS
<1>2. \A u \in a .. b : (\A v \in a .. b : v <= u) => u = b
  OBVIOUS
<1> QED
  BY <1>1, <1>2 DEF LastOf

-----------------------------------------------------------------------------
(***************************************************************************)
(* Facts about the queue.                                                  *)
(***************************************************************************)
LEMMA PositionsFinite ==
  ASSUME NEW q \in Seq(Classes), NEW class
  PROVE  /\ Positions(q, class) \subseteq 1 .. Len(q)
         /\ IsFiniteSet(Positions(q, class)) /\ Cardinality(Positions(q, class)) \in Nat
<1>1. Positions(q, class) \subseteq 1 .. Len(q) /\ Len(q) \in Nat
  BY DEF Positions
<1>2. IsFiniteSet(1 .. Len(q))
  BY <1>1, FS_Interval
<1>3. IsFiniteSet(Positions(q, class))
  BY <1>1, <1>2, FS_Subset
<1> QED
  BY <1>1, <1>3, FS_CardinalityType

LEMMA TailPositions ==
  ASSUME NEW q \in Seq(Classes), q # <<>>, NEW class
  PROVE  Cardinality(Positions(Tail(q), class)) <= Cardinality(Positions(q, class))
<1> DEFINE S == Positions(Tail(q), class)
           T == Positions(q, class)
           f == [i \in S |-> i + 1]
<1>1. S \subseteq Int
  BY DEF Positions
<1>2. \A i \in S : i + 1 \in T
  BY DEF Positions
<1>3. f \in [S -> T]
  BY <1>2
<1>4. \A i, j \in S : f[i] = f[j] => i = j
  BY <1>1
<1>5. IsFiniteSet(T)
  BY PositionsFinite
<1> HIDE DEF S, T, f
<1>6. f \in Injection(S, T)
  BY <1>3, <1>4 DEF Injection, IsInjective
<1>7. Cardinality(S) <= Cardinality(T)
  BY <1>5, <1>6, FS_Injection
<1> QED
  BY <1>7 DEF S, T

LEMMA AlertPositions ==
  ASSUME NEW q \in Seq(Classes)
  PROVE  Positions(Append(q, "alert"), "reply") = Positions(q, "reply")
<1>1. /\ Len(Append(q, "alert")) = Len(q) + 1 /\ Len(q) \in Nat
      /\ \A i \in 1 .. Len(q) : Append(q, "alert")[i] = q[i]
      /\ Append(q, "alert")[Len(q) + 1] = "alert"
  OBVIOUS
<1>2. DOMAIN q = 1 .. Len(q) /\ DOMAIN Append(q, "alert") = 1 .. Len(q) + 1
  OBVIOUS
<1> QED
  BY <1>1, <1>2 DEF Positions

LEMMA ClassesSplit ==
  ASSUME NEW q \in Seq(Classes)
  PROVE  Cardinality(Positions(q, "alert")) + Cardinality(Positions(q, "reply")) = Len(q)
<1> DEFINE A == Positions(q, "alert")
           R == Positions(q, "reply")
<1>1. Len(q) \in Nat /\ A \union R = 1 .. Len(q) /\ A \intersect R = {}
  BY DEF Positions, Classes
<1>2. /\ IsFiniteSet(A) /\ Cardinality(A) \in Nat
      /\ IsFiniteSet(R) /\ Cardinality(R) \in Nat
  BY PositionsFinite
<1>3. Cardinality(1 .. Len(q)) = Len(q)
  <2>1. 1 \in Int /\ Len(q) \in Int /\ Len(q) >= 0
    BY <1>1
  <2>2. Cardinality(1 .. Len(q)) = IF 1 > Len(q) THEN 0 ELSE Len(q) - 1 + 1
    BY <2>1, FS_Interval
  <2> QED
    BY <2>1, <2>2
<1> HIDE DEF A, R
<1>4. Cardinality(A \union R) = Cardinality(A) + Cardinality(R) - Cardinality(A \intersect R)
  BY <1>2, FS_Union
<1>5. Cardinality(A \intersect R) = 0
  BY <1>1, FS_EmptySet
<1>6. Cardinality(A \union R) = Len(q)
  BY <1>1, <1>3
<1>7. Cardinality(A) + Cardinality(R) = Len(q)
  BY <1>1, <1>2, <1>4, <1>5, <1>6
<1> QED
  BY <1>7 DEF A, R

-----------------------------------------------------------------------------
LEMMA InvariantInit == Init => IInv
<1> SUFFICES ASSUME Init PROVE IInv
  OBVIOUS
<1>1. /\ 0 \in 0 .. MaxUpdates + 1 /\ 0 \in 0 .. MaxUpdates /\ 0 \in 0 .. MaxCrashes
      /\ 0 \in 0 .. TG_ATTEMPTS /\ 0 \in 0 .. 0 /\ TGQ_CAP \in Nat
  BY TelegramAssumption
<1>2. TypeOK
  <2>1. queue \in Seq({"alert", "reply"}) /\ Len(queue) <= TGQ_CAP
    BY <1>1 DEF Init
  <2>2. handled \in [Updates -> Nat]
    BY DEF Init
  <2>3. /\ tries \in 0 .. TG_ATTEMPTS /\ offset \in 0 .. MaxUpdates + 1
        /\ sent \in 0 .. MaxUpdates /\ crashes \in 0 .. MaxCrashes
        /\ confirmed \in 0 .. sent /\ backlog \in 0 .. sent /\ actsFrom \in 0 .. sent + 1
    BY <1>1 DEF Init
  <2> QED
    BY <2>1, <2>2, <2>3, Zenon DEF Init, TypeOK, NoBatch
<1>3. ThreadsLeave /\ RetriesLeft
  BY DEF Init, ThreadsLeave, RetriesLeft
<1>4. RepliesBounded
  <2>1. Positions(queue, "reply") = {}
    BY DEF Init, Positions
  <2> QED
    BY <2>1, FS_EmptySet, TelegramAssumption DEF RepliesBounded
<1>5. OffsetKnown /\ HandledBehind /\ NonePassedOver
  BY DEF Init, OffsetKnown, HandledBehind, NonePassedOver, PassedOver, NoBatch, Updates
<1>6. BatchFresh
  <2>1. 1 \in 1 .. MaxUpdates + 1 /\ 0 \in 0 .. sent /\ batch = 1 .. 0
    BY TelegramAssumption DEF Init, NoBatch
  <2> QED
    BY <2>1 DEF Init, BatchFresh, NoBatch
<1> QED
  BY <1>2, <1>3, <1>4, <1>5, <1>6 DEF IInv

-----------------------------------------------------------------------------
(***************************************************************************)
(* The sender: what it does is of no concern to the poller.                *)
(***************************************************************************)
updates == <<ppc, offset, primed, batch, sent, confirmed, handled, backlog, actsFrom, glut>>

UpdatesInv == OffsetKnown /\ BatchFresh /\ HandledBehind /\ NonePassedOver

LEMMA UpdatesUntouched == UpdatesInv /\ UNCHANGED updates => UpdatesInv'
BY DEF UpdatesInv, updates, OffsetKnown, BatchFresh, HandledBehind, NonePassedOver, PassedOver

LEMMA SenderStep ==
  ASSUME IInv,
         \/ \E due \in {"pending", "due"} : NotifyDetection(due)
         \/ \E kind \in Kinds : NotifyEvent(kind)
         \/ TimePasses
         \/ Worker
  PROVE  IInv'
<1>1. /\ UNCHANGED <<phase, ppc, offset, primed, batch, botapi, history>>
      /\ UpdatesInv'
  <2>1. UNCHANGED <<phase, ppc, offset, primed, batch, botapi, history>>
    BY DEF NotifyDetection, NotifyEvent, TimePasses, DebounceOver, FloorOver, StrangerFloorOver, Worker,
       TakeQueued, TakeDetection, Post, NapOver, Exit, poller
  <2> QED
    BY <2>1, UpdatesUntouched DEF IInv, UpdatesInv, updates, botapi, history
<1>2. /\ queue \in Seq(Classes) /\ Len(queue) <= TGQ_CAP /\ Len(queue) \in Nat
      /\ TGQ_CAP \in Nat /\ RESERVED_FOR_ALERTS \in Nat /\ TG_ATTEMPTS \in Nat \ {0}
      /\ tries \in 0 .. TG_ATTEMPTS
  BY TelegramAssumption DEF IInv, TypeOK, Classes
<1>3. /\ queue' \in Seq(Classes) /\ Len(queue') <= TGQ_CAP
      /\ RepliesBounded'
  <2>1. CASE \E kind \in Kinds : NotifyEvent(kind)
    <3>1. queue' = Append(queue, "alert") /\ Len(queue) < TGQ_CAP
      BY <2>1 DEF NotifyEvent, AlertRoom
    <3>2. queue' \in Seq(Classes) /\ Len(queue') <= TGQ_CAP
      BY <1>2, <3>1 DEF Classes
    <3>3. Positions(queue', "reply") = Positions(queue, "reply")
      BY <1>2, <3>1, AlertPositions
    <3> QED
      BY <3>2, <3>3 DEF IInv, RepliesBounded
  <2>2. CASE TakeQueued
    <3>1. queue # <<>> /\ queue' = Tail(queue)
      BY <2>2 DEF TakeQueued
    <3>2. queue' \in Seq(Classes) /\ Len(queue') <= TGQ_CAP
      BY <1>2, <3>1
    <3>3. Cardinality(Positions(queue', "reply")) <= Cardinality(Positions(queue, "reply"))
      BY <1>2, <3>1, TailPositions
    <3>4. /\ Cardinality(Positions(queue', "reply")) \in Nat
          /\ Cardinality(Positions(queue, "reply")) \in Nat
      BY <1>2, <3>2, PositionsFinite
    <3> QED
      BY <1>2, <3>2, <3>3, <3>4 DEF IInv, RepliesBounded
  <2>3. CASE queue' = queue
    BY <1>2, <2>3 DEF IInv, RepliesBounded
  <2> QED
    BY <2>1, <2>2, <2>3 DEF NotifyDetection, TimePasses, DebounceOver, FloorOver, StrangerFloorOver, Worker,
       TakeDetection, Post, NapOver, Exit, sender
<1>4. /\ det' \in {"none", "pending", "due"} /\ floorOver' \subseteq Kinds /\ strangerOk' \in BOOLEAN
  BY DEF IInv, TypeOK, NotifyDetection, NotifyEvent, TimePasses, DebounceOver, FloorOver,
     StrangerFloorOver, Worker, TakeQueued, TakeDetection, Post, NapOver, Exit, sender, poller
<1>5. wpc' \in {"idle", "post", "nap", "exited"} /\ tries' \in 0 .. TG_ATTEMPTS
  <2>1. CASE \E ok \in BOOLEAN : Post(ok)
    BY <1>2, <2>1 DEF Post
  <2>2. CASE NapOver
    <3>1. CASE Running
      <4>1. tries < TG_ATTEMPTS
        BY <2>2 DEF IInv, RetriesLeft, NapOver
      <4> QED
        BY <1>2, <2>2, <3>1, <4>1 DEF NapOver
    <3>2. CASE ~Running
      BY <1>2, <2>2, <3>2 DEF NapOver
    <3> QED
      BY <3>1, <3>2
  <2>3. CASE TakeQueued \/ TakeDetection \/ Exit
    BY <1>2, <2>3 DEF TakeQueued, TakeDetection, Exit
  <2>4. CASE UNCHANGED <<wpc, tries>>
    BY <2>4 DEF IInv, TypeOK
  <2> QED
    BY <2>1, <2>2, <2>3, <2>4 DEF NotifyDetection, NotifyEvent, TimePasses, DebounceOver, FloorOver,
       StrangerFloorOver, Worker, sender
<1>6. ThreadsLeave'
  <2>1. wpc' = "exited" => wpc = "exited" \/ ~Running
    BY DEF NotifyDetection, NotifyEvent, TimePasses, DebounceOver, FloorOver, StrangerFloorOver, Worker,
       TakeQueued, TakeDetection, Post, NapOver, Exit, sender
  <2>2. phase = "stopped" => UNCHANGED <<queue, det, wpc>>
    BY DEF IInv, ThreadsLeave, NotifyDetection, NotifyEvent, TimePasses, DebounceOver, FloorOver,
       StrangerFloorOver, Worker, TakeQueued, TakeDetection, Post, NapOver, Exit, Running, sender
  <2> QED
    BY <1>1, <2>1, <2>2 DEF IInv, TypeOK, ThreadsLeave, Running
<1>7. RetriesLeft'
  <2>1. CASE \E ok \in BOOLEAN : Post(ok)
    BY <1>2, <2>1 DEF Post, RetriesLeft
  <2>2. CASE NapOver \/ TakeQueued \/ TakeDetection \/ Exit
    BY <2>2 DEF RetriesLeft, NapOver, TakeQueued, TakeDetection, Exit
  <2>3. CASE UNCHANGED <<wpc, tries>>
    BY <2>3 DEF IInv, RetriesLeft
  <2> QED
    BY <2>1, <2>2, <2>3 DEF NotifyDetection, NotifyEvent, TimePasses, DebounceOver, FloorOver,
       StrangerFloorOver, Worker, sender
<1>8. TypeOK'
  BY <1>1, <1>3, <1>4, <1>5 DEF IInv, TypeOK, Classes, Updates, botapi, history
<1> QED
  BY <1>1, <1>3, <1>6, <1>7, <1>8 DEF IInv, UpdatesInv

-----------------------------------------------------------------------------
(***************************************************************************)
(* The Bot API and the poller.                                             *)
(***************************************************************************)
LEMMA PollerType ==
  ASSUME TypeOK
  PROVE  /\ MaxUpdates \in Nat /\ Batch \in Nat \ {0}
         /\ sent \in Nat /\ sent <= MaxUpdates /\ confirmed \in Nat /\ confirmed <= sent
         /\ offset \in Nat /\ backlog \in Nat /\ backlog <= sent
         /\ actsFrom \in Nat /\ actsFrom <= sent + 1
         /\ \A u \in Updates : u \in Nat /\ u >= 1 /\ handled[u] \in Nat
BY TelegramAssumption DEF TypeOK, Updates

\* What a poller's step leaves alone, except for a reply in the queue.
LEMMA SenderUntouched ==
  ASSUME IInv, UNCHANGED <<phase, wpc, tries, queue, det>>, ppc = "exited" => ppc' = "exited"
  PROVE  ThreadsLeave' /\ RetriesLeft' /\ RepliesBounded'
BY DEF IInv, ThreadsLeave, RetriesLeft, RepliesBounded

LEMMA UserSendsStep ==
  ASSUME IInv, UserSends
  PROVE  IInv'
<1>1. /\ sent' = sent + 1 /\ sent < MaxUpdates
      /\ UNCHANGED <<phase, sender, poller, confirmed, history>>
  BY DEF UserSends
<1>2. /\ sent \in Nat /\ MaxUpdates \in Nat /\ confirmed \in Nat /\ offset \in Nat
      /\ confirmed <= sent /\ backlog \in Nat /\ backlog <= sent
      /\ actsFrom \in Nat /\ actsFrom <= sent + 1
  BY PollerType DEF IInv
<1>3. TypeOK'
  <2>1. /\ sent' \in 0 .. MaxUpdates /\ confirmed' \in 0 .. sent' /\ backlog' \in 0 .. sent'
        /\ actsFrom' \in 0 .. sent' + 1
    BY <1>1, <1>2 DEF history
  <2> QED
    BY <1>1, <2>1 DEF IInv, TypeOK, Updates, sender, poller, history
<1>4. ThreadsLeave' /\ RetriesLeft' /\ RepliesBounded'
  BY <1>1, SenderUntouched DEF sender, poller
<1>5. OffsetKnown'
  BY <1>1, <1>2 DEF IInv, OffsetKnown, poller, history
<1>6. BatchFresh'
  <2>1. PICK a \in 1 .. MaxUpdates + 1, b \in 0 .. sent : batch = a .. b
    BY DEF IInv, BatchFresh
  <2>2. b \in 0 .. sent' /\ batch' = a .. b
    BY <1>1, <1>2, <2>1 DEF poller
  <2> QED
    BY <1>1, <2>1, <2>2 DEF IInv, BatchFresh, poller, history
<1>7. HandledBehind'
  BY <1>1, <1>2, PollerType DEF IInv, HandledBehind, poller, history
<1>8. NonePassedOver'
  BY <1>1 DEF IInv, NonePassedOver, PassedOver, poller, history
<1> QED
  BY <1>3, <1>4, <1>5, <1>6, <1>7, <1>8 DEF IInv

LEMMA NoBatchFresh ==
  ASSUME TypeOK', batch' = {}, ppc' # "dispatch"
  PROVE  BatchFresh'
<1>1. 1 \in 1 .. MaxUpdates + 1 /\ 0 \in 0 .. sent' /\ batch' = 1 .. 0
  BY TelegramAssumption DEF TypeOK
<1> QED
  BY <1>1 DEF BatchFresh

LEMMA PrimeStep ==
  ASSUME IInv, PrimeAnswered \/ PrimeFails
  PROVE  IInv'
<1>1. /\ ppc = "prime" /\ ppc' = "poll"
      /\ primed' = (offset' > 0)
      /\ UNCHANGED <<phase, sender, batch, strangerOk, sent, handled, backlog, glut, crashes>>
  BY DEF PrimeAnswered, PrimeFails, Prime, PrimedBy
<1>2. /\ sent \in Nat /\ MaxUpdates \in Nat /\ confirmed \in Nat /\ sent <= MaxUpdates
      /\ confirmed <= sent /\ backlog \in Nat /\ backlog <= sent /\ Batch \in Nat
  BY PollerType DEF IInv
<1>3. ConfirmedByNewest \in Nat /\ confirmed <= ConfirmedByNewest /\ ConfirmedByNewest <= sent
  BY <1>2 DEF ConfirmedByNewest, Most
<1>4. /\ offset' \in {0, sent + 1}
      /\ confirmed' \in {confirmed, ConfirmedByNewest} /\ actsFrom' \in {0, sent + 1}
      /\ offset' = sent + 1 => actsFrom' = sent + 1
  <2>1. CASE PrimeAnswered
    BY <2>1 DEF PrimeAnswered, Prime
  <2>2. CASE PrimeFails
    BY <1>2, <2>2 DEF PrimeFails, Prime
  <2> QED
    BY <2>1, <2>2
<1>5. /\ confirmed' \in Nat /\ confirmed <= confirmed' /\ confirmed' <= sent
      /\ offset' \in 0 .. MaxUpdates + 1 /\ actsFrom' \in 0 .. sent + 1
  BY <1>2, <1>3, <1>4
<1>6. batch = {}
  BY <1>1 DEF IInv, BatchFresh
<1>7. TypeOK'
  <2>1. primed' \in BOOLEAN
    BY <1>1
  <2>2. confirmed' \in 0 .. sent' /\ actsFrom' \in 0 .. sent' + 1
    BY <1>1, <1>2, <1>5
  <2> QED
    BY <1>1, <1>5, <2>1, <2>2 DEF IInv, TypeOK, Updates, sender
<1>8. ThreadsLeave' /\ RetriesLeft' /\ RepliesBounded'
  BY <1>1, SenderUntouched DEF sender
<1>13. /\ primed' => offset' = sent + 1
       /\ ~primed' => offset' = 0
  <2>1. offset' = 0 => ~(offset' > 0)
    OBVIOUS
  <2>2. offset' = sent + 1 => offset' > 0
    BY <1>2
  <2>3. primed' = (offset' > 0) /\ offset' \in {0, sent + 1}
    BY <1>1, <1>4
  <2>4. CASE offset' = 0
    BY <2>1, <2>3, <2>4
  <2>5. CASE offset' = sent + 1
    BY <1>2, <2>2, <2>3, <2>5
  <2> QED
    BY <2>3, <2>4, <2>5
<1>9. OffsetKnown'
  BY <1>1, <1>2, <1>13 DEF OffsetKnown
<1>10. BatchFresh'
  BY <1>1, <1>6, <1>7, NoBatchFresh
<1>11. HandledBehind'
  <2> SUFFICES ASSUME NEW u \in Updates
               PROVE  /\ handled'[u] <= 1
                      /\ handled'[u] > 0 => /\ u <= sent' /\ u <= confirmed' + Batch
                                            /\ primed' => u < offset' \/ u <= confirmed'
    BY DEF HandledBehind
  <2>1. handled[u] <= 1 /\ (handled[u] > 0 => u <= sent /\ u <= confirmed + Batch)
    BY DEF IInv, HandledBehind
  <2>2. u \in Nat
    BY PollerType DEF IInv
  <2>3. handled'[u] = handled[u] /\ sent' = sent
    BY <1>1
  <2>4. u <= sent => u < sent + 1
    BY <1>2, <2>2
  <2>5. u <= confirmed + Batch => u <= confirmed' + Batch
    <3>1. /\ u \in Nat /\ confirmed \in Nat /\ confirmed' \in Nat /\ Batch \in Nat
          /\ confirmed <= confirmed'
      BY <1>2, <1>5, <2>2
    <3>2. \A m, n, k, v \in Nat : m <= n /\ v <= m + k => v <= n + k
      OBVIOUS
    <3> QED
      BY <3>1, <3>2
  <2> QED
    BY <1>13, <2>1, <2>3, <2>4, <2>5
<1>12. NonePassedOver'
  <2>1. ASSUME NEW u \in Updates, u <= confirmed' \/ u < offset'
        PROVE  ~PassedOver(u)'
    <3>1. primed' => actsFrom' = sent + 1
      BY <1>4, <1>13
    <3>2. u \in Nat /\ (primed' => ~(actsFrom' <= u))
      BY <1>2, <1>5, <1>13, <2>1, <3>1, PollerType DEF IInv
    <3> QED
      BY <3>2 DEF PassedOver
  <2> QED
    BY <1>1, <1>6, <2>1 DEF NonePassedOver
<1> QED
  BY <1>7, <1>8, <1>9, <1>10, <1>11, <1>12 DEF IInv

\* A request with an offset confirms what the poller has left behind.
LEMMA Confirming ==
  ASSUME IInv
  PROVE  /\ ConfirmedBy(offset) \in Nat /\ confirmed <= ConfirmedBy(offset) /\ ConfirmedBy(offset) <= sent
         /\ offset <= ConfirmedBy(offset) + 1
         /\ \A u \in Nat : u <= ConfirmedBy(offset) => u <= confirmed \/ u < offset
<1>1. /\ sent \in Nat /\ confirmed \in Nat /\ offset \in Nat /\ confirmed <= sent /\ offset <= sent + 1
  BY PollerType DEF IInv, OffsetKnown
<1> QED
  BY <1>1 DEF ConfirmedBy, Most

\* The answer is a run of updates: the oldest that are still held.
LEMMA Answering ==
  ASSUME IInv
  PROVE  LET c == ConfirmedBy(offset)
             last == IF sent < c + Batch THEN sent ELSE c + Batch
         IN  /\ Answer(offset) = c + 1 .. last
             /\ last \in 0 .. sent /\ c + 1 \in 1 .. MaxUpdates + 1 /\ last <= c + Batch /\ c <= last
<1>1. /\ ConfirmedBy(offset) \in Nat /\ sent \in Nat /\ MaxUpdates \in Nat /\ sent <= MaxUpdates
      /\ Batch \in Nat \ {0} /\ ConfirmedBy(offset) <= sent
  BY PollerType, Confirming DEF IInv
<1> QED
  BY <1>1 DEF Answer, Held

LEMMA ConfirmedHandled ==
  ASSUME IInv, handled' = handled, sent' = sent,
         confirmed' = ConfirmedBy(offset), primed' => primed, offset' = offset
  PROVE  HandledBehind'
<1> SUFFICES ASSUME NEW u \in Updates
             PROVE  /\ handled'[u] <= 1
                    /\ handled'[u] > 0 => /\ u <= sent' /\ u <= confirmed' + Batch
                                          /\ primed' => u < offset' \/ u <= confirmed'
  BY DEF HandledBehind
<1>1. /\ handled[u] <= 1
      /\ handled[u] > 0 => /\ u <= sent /\ u <= confirmed + Batch
                           /\ primed => u < offset \/ u <= confirmed
  BY DEF IInv, HandledBehind
<1>2. u \in Nat /\ confirmed \in Nat /\ confirmed' \in Nat /\ confirmed <= confirmed' /\ Batch \in Nat
      /\ offset \in Nat
  BY PollerType, Confirming DEF IInv
<1> QED
  BY <1>1, <1>2

LEMMA PollAnsweredStep ==
  ASSUME IInv, PollAnswered
  PROVE  IInv'
<1>1. /\ ppc = "poll" /\ primed /\ ppc' = IF batch' = {} THEN "poll" ELSE "dispatch"
      /\ confirmed' = ConfirmedBy(offset) /\ batch' = Answer(offset)
      /\ UNCHANGED <<phase, sender, offset, primed, strangerOk, sent, history>>
  BY DEF PollAnswered
<1> DEFINE c == ConfirmedBy(offset)
           last == IF sent < c + Batch THEN sent ELSE c + Batch
<1>2. /\ batch' = c + 1 .. last /\ last \in 0 .. sent /\ c + 1 \in 1 .. MaxUpdates + 1
      /\ last <= c + Batch
  BY <1>1, Answering
<1>3. /\ sent \in Nat /\ MaxUpdates \in Nat /\ confirmed \in Nat /\ sent <= MaxUpdates
      /\ offset \in Nat /\ backlog \in Nat /\ backlog <= sent /\ Batch \in Nat
      /\ c \in Nat /\ confirmed <= c /\ c <= sent /\ offset <= c + 1
      /\ \A u \in Nat : u <= c => u <= confirmed \/ u < offset
  BY PollerType, Confirming DEF IInv
<1> HIDE DEF c, last
<1>4. confirmed' = c
  BY <1>1 DEF c
<1>5. TypeOK'
  <2>1. confirmed' \in 0 .. sent' /\ batch' \subseteq Updates
    BY <1>1, <1>2, <1>3, <1>4 DEF Updates
  <2> QED
    BY <1>1, <2>1 DEF IInv, TypeOK, Updates, sender, history
<1>6. ThreadsLeave' /\ RetriesLeft' /\ RepliesBounded'
  BY <1>1, SenderUntouched DEF sender
<1>7. OffsetKnown'
  BY <1>1, <1>3, <1>4 DEF IInv, OffsetKnown, history
<1>8. BatchFresh'
  <2>1. ASSUME NEW u \in batch'
        PROVE  /\ offset' <= u /\ confirmed' < u /\ u <= confirmed' + Batch
               /\ handled'[u] = 0
               /\ u > backlog' \/ glut'
    <3>1. u \in Nat /\ u > c /\ u <= c + Batch /\ u \in Updates
      BY <1>2, <1>3 DEF Updates
    <3>2. handled[u] \in Nat
      BY <3>1, PollerType DEF IInv
    <3>3. ~(u < offset) /\ ~(u <= confirmed)
      BY <1>3, <3>1
    <3>4. handled[u] = 0
      BY <1>1, <3>1, <3>2, <3>3 DEF IInv, HandledBehind
    <3>5. u > backlog \/ glut
      BY <1>1, <1>3, <3>1 DEF IInv, OffsetKnown
    <3> QED
      BY <1>1, <1>3, <1>4, <3>1, <3>3, <3>4, <3>5 DEF history
  <2>2. last \in 0 .. sent'
    BY <1>1, <1>2
  <2>3. batch' # {} <=> ppc' = "dispatch"
    BY <1>1
  <2> QED
    BY <1>2, <2>1, <2>2, <2>3 DEF BatchFresh
<1>9. HandledBehind'
  BY <1>1, ConfirmedHandled DEF history
<1>10. NonePassedOver'
  <2>1. \A u \in Updates : u <= c => ~PassedOver(u)
    BY <1>3, PollerType DEF IInv, NonePassedOver
  <2>2. \A u \in Updates : u < offset => u <= c
    BY <1>3, PollerType DEF IInv
  <2>3. \A v \in batch' : \A u \in 1 .. v - 1 : u \in Updates /\ (u \in batch' \/ u <= c)
    BY <1>2, <1>3 DEF Updates
  <2>4. \A u \in Updates : PassedOver(u)' = PassedOver(u)
    BY <1>1 DEF PassedOver, history
  <2> QED
    BY <1>1, <1>4, <2>1, <2>2, <2>3, <2>4 DEF NonePassedOver
<1> QED
  BY <1>5, <1>6, <1>7, <1>8, <1>9, <1>10 DEF IInv

\* An unprimed poller learns its offset: all that was handled, and all that was
\* sent before it started, lies at or before the end of the batch it drops.
LEMMA BacklogDropped ==
  ASSUME IInv, ppc = "poll", ~primed, primed' = TRUE,
         UNCHANGED <<phase, sender, ppc, batch, strangerOk, sent, handled, backlog, crashes>>,
         confirmed' = confirmed, glut' \in BOOLEAN,
         NEW last \in Nat, last <= sent, confirmed <= last,
         last = sent \/ last = confirmed + Batch,
         actsFrom' = Most(offset', confirmed' + 1),
         \/ offset' = last + 1 /\ (glut' \/ last >= backlog)
         \/ offset' = 0 /\ last = confirmed /\ last = sent
  PROVE  IInv'
<1>1. /\ sent \in Nat /\ MaxUpdates \in Nat /\ confirmed \in Nat /\ sent <= MaxUpdates
      /\ confirmed <= sent /\ backlog \in Nat /\ backlog <= sent /\ Batch \in Nat \ {0}
      /\ offset' \in 0 .. sent + 1
  BY PollerType DEF IInv
<1>9. /\ actsFrom' \in 0 .. sent + 1 /\ offset' <= actsFrom' /\ confirmed + 1 <= actsFrom'
  BY <1>1 DEF Most
<1>2. batch = {}
  BY DEF IInv, BatchFresh
<1>3. TypeOK'
  <2>1. offset' \in 0 .. MaxUpdates + 1 /\ confirmed' \in 0 .. sent' /\ actsFrom' \in 0 .. sent' + 1
    BY <1>1, <1>9
  <2> QED
    BY <2>1 DEF IInv, TypeOK, Updates, sender
<1>4. ThreadsLeave' /\ RetriesLeft' /\ RepliesBounded'
  BY SenderUntouched DEF sender
<1>5. OffsetKnown'
  <2>1. offset' <= sent' + 1
    BY <1>1
  <2>2. glut' \/ offset' > backlog' \/ confirmed' >= backlog'
    BY <1>1
  <2> QED
    BY <2>1, <2>2 DEF OffsetKnown
<1>6. BatchFresh'
  BY <1>2, <1>3, NoBatchFresh
<1>7. HandledBehind'
  <2> SUFFICES ASSUME NEW u \in Updates
               PROVE  /\ handled'[u] <= 1
                      /\ handled'[u] > 0 => /\ u <= sent' /\ u <= confirmed' + Batch
                                            /\ primed' => u < offset' \/ u <= confirmed'
    BY DEF HandledBehind
  <2>1. handled[u] <= 1 /\ (handled[u] > 0 => u <= sent /\ u <= confirmed + Batch)
    BY DEF IInv, HandledBehind
  <2>2. u \in Nat
    BY PollerType DEF IInv
  <2>3. u <= sent /\ u <= confirmed + Batch => u <= last
    BY <1>1, <2>2
  <2>4. u <= last => u < offset' \/ u <= confirmed
    BY <1>1, <2>2
  <2> QED
    BY <2>1, <2>3, <2>4
<1>8. NonePassedOver'
  <2>1. ASSUME NEW u \in Updates, u <= confirmed' \/ u < offset'
        PROVE  ~PassedOver(u)'
    <3>1. u \in Nat
      BY PollerType DEF IInv
    <3>2. ~(actsFrom' <= u)
      BY <1>1, <1>9, <2>1, <3>1
    <3> QED
      BY <3>2 DEF PassedOver
  <2> QED
    BY <1>2, <2>1 DEF NonePassedOver
<1> QED
  BY <1>3, <1>4, <1>5, <1>6, <1>7, <1>8 DEF IInv

LEMMA BacklogAnsweredStep ==
  ASSUME IInv, BacklogAnswered
  PROVE  IInv'
<1> DEFINE stale == Answer(offset)
           last == IF sent < confirmed + Batch THEN sent ELSE confirmed + Batch
<1>1. /\ ppc = "poll" /\ ~primed /\ primed' = TRUE
      /\ offset' = IF stale = {} THEN offset ELSE OffsetPast(LastOf(stale))
      /\ glut' = (stale # {} /\ LastOf(stale) < backlog)
      /\ confirmed' = ConfirmedBy(offset) /\ actsFrom' = Most(offset', confirmed' + 1)
      /\ UNCHANGED <<phase, sender, ppc, batch, strangerOk, sent, handled, backlog, crashes>>
  BY DEF BacklogAnswered
<1>2. /\ sent \in Nat /\ MaxUpdates \in Nat /\ confirmed \in Nat /\ sent <= MaxUpdates
      /\ confirmed <= sent /\ offset \in Nat
      /\ backlog \in Nat /\ backlog <= sent /\ Batch \in Nat \ {0}
  BY PollerType DEF IInv
<1>3. offset = 0
  BY <1>1 DEF IInv, OffsetKnown
<1>4. ConfirmedBy(offset) = confirmed
  BY <1>2, <1>3 DEF ConfirmedBy, Most
<1>5. stale = confirmed + 1 .. last /\ confirmed <= last /\ last \in Nat /\ last <= sent
  BY <1>2, <1>4, Answering
<1>6. CASE stale = {}
  <2>3. ~(confirmed + 1 <= last)
    <3>1. confirmed + 1 <= last => confirmed + 1 \in confirmed + 1 .. last
      BY <1>2, <1>5
    <3> QED
      BY <1>5, <1>6, <3>1
  <2>1. last = confirmed /\ sent = confirmed
    BY <1>2, <1>5, <2>3
  <2>2. offset' = 0 /\ glut' = FALSE /\ confirmed' = confirmed
    BY <1>1, <1>3, <1>4, <1>6
  <2> QED
    BY <1>1, <1>2, <1>5, <2>1, <2>2, BacklogDropped
<1>7. CASE stale # {}
  <2>1. confirmed + 1 <= last
    BY <1>2, <1>5, <1>7
  <2>2. LastOf(stale) = last
    BY <1>2, <1>5, <2>1, LastOfRun
  <2>3. offset' = last + 1
    BY <1>1, <1>2, <1>3, <1>5, <1>7, <2>2 DEF OffsetPast, Most
  <2>5. glut' = (last < backlog) /\ confirmed' = confirmed
    BY <1>1, <1>4, <1>7, <2>2
  <2>6. glut' \in BOOLEAN /\ (glut' \/ last >= backlog)
    <3>1. last < backlog \/ last >= backlog
      BY <1>2, <1>5
    <3>2. glut' \in BOOLEAN
      BY <2>5
    <3> QED
      BY <2>5, <3>1, <3>2, Zenon
  <2> QED
    BY <1>1, <1>2, <1>5, <2>3, <2>5, <2>6, BacklogDropped
<1> QED
  BY <1>6, <1>7

LEMMA PollFailsStep ==
  ASSUME IInv, PollFails
  PROVE  IInv'
<1>1. /\ ppc = "poll" /\ ppc' = "poll" /\ confirmed' = ConfirmedBy(offset)
      /\ UNCHANGED <<phase, sender, offset, primed, batch, strangerOk, sent, history>>
  BY DEF PollFails, AfterFailure
<1>2. /\ sent \in Nat /\ confirmed \in Nat /\ confirmed' \in Nat /\ confirmed <= confirmed'
      /\ confirmed' <= sent /\ backlog \in Nat /\ offset \in Nat
      /\ \A u \in Nat : u <= confirmed' => u <= confirmed \/ u < offset
  BY <1>1, PollerType, Confirming DEF IInv
<1>3. batch = {}
  BY <1>1 DEF IInv, BatchFresh
<1>4. TypeOK'
  <2>1. confirmed' \in 0 .. sent'
    BY <1>1, <1>2
  <2> QED
    BY <1>1, <2>1 DEF IInv, TypeOK, Updates, sender, history
<1>5. ThreadsLeave' /\ RetriesLeft' /\ RepliesBounded'
  BY <1>1, SenderUntouched DEF sender
<1>6. OffsetKnown'
  BY <1>1, <1>2 DEF IInv, OffsetKnown, history
<1>7. BatchFresh'
  BY <1>1, <1>3, <1>4, NoBatchFresh
<1>8. HandledBehind'
  BY <1>1, ConfirmedHandled DEF history
<1>9. NonePassedOver'
  <2>1. \A u \in Updates : u <= confirmed' \/ u < offset => ~PassedOver(u)
    BY <1>2, PollerType DEF IInv, NonePassedOver
  <2>2. \A u \in Updates : PassedOver(u)' = PassedOver(u)
    BY <1>1 DEF PassedOver, history
  <2> QED
    BY <1>1, <1>3, <2>1, <2>2 DEF NonePassedOver
<1> QED
  BY <1>4, <1>5, <1>6, <1>7, <1>8, <1>9 DEF IInv

\* A reply takes a slot only while the slots of the alerts stay free.
LEMMA ReplyBounded ==
  ASSUME IInv, EnqueueReply \/ UNCHANGED queue
  PROVE  queue' \in Seq(Classes) /\ Len(queue') <= TGQ_CAP /\ RepliesBounded'
<1>1. /\ queue \in Seq(Classes) /\ Len(queue) <= TGQ_CAP /\ Len(queue) \in Nat
      /\ TGQ_CAP \in Nat /\ RESERVED_FOR_ALERTS \in Nat
  BY TelegramAssumption DEF IInv, TypeOK, Classes
<1>2. CASE UNCHANGED queue
  BY <1>1, <1>2 DEF IInv, RepliesBounded
<1>3. CASE ReplyRoom /\ queue' = Append(queue, "reply")
  <2>1. queue' \in Seq(Classes) /\ Len(queue') = Len(queue) + 1
    BY <1>1, <1>3 DEF Classes
  <2>2. Len(queue') <= TGQ_CAP - RESERVED_FOR_ALERTS
    BY <1>1, <1>3, <2>1 DEF ReplyRoom
  <2>3. Cardinality(Positions(queue', "reply")) + Cardinality(Positions(queue', "alert")) = Len(queue')
    BY <2>1, ClassesSplit, PositionsFinite
  <2>4. /\ Cardinality(Positions(queue', "reply")) \in Nat
        /\ Cardinality(Positions(queue', "alert")) \in Nat
    BY <2>1, PositionsFinite
  <2>5. Cardinality(Positions(queue', "reply")) <= TGQ_CAP - RESERVED_FOR_ALERTS
    BY <1>1, <2>1, <2>2, <2>3, <2>4
  <2> QED
    BY <1>1, <2>1, <2>2, <2>5 DEF RepliesBounded
<1> QED
  BY <1>2, <1>3 DEF EnqueueReply

LEMMA DispatchStep ==
  ASSUME IInv, DispatchAny
  PROVE  IInv'
<1> DEFINE u == First(batch)
<1>1. /\ ppc = "dispatch"
      /\ handled' = [handled EXCEPT ![u] = @ + 1]
      /\ offset' = OffsetPast(u) /\ batch' = batch \ {u}
      /\ ppc' = IF batch' = {} THEN "poll" ELSE "dispatch"
      /\ EnqueueReply \/ UNCHANGED queue
      /\ strangerOk' \in {FALSE, strangerOk}
      /\ UNCHANGED <<phase, det, floorOver, wpc, tries, primed, botapi, backlog, actsFrom, glut, crashes>>
  BY DEF DispatchAny, Dispatch, Handle
<1>2. PICK a \in 1 .. MaxUpdates + 1, b \in 0 .. sent : batch = a .. b
  BY DEF IInv, BatchFresh
<1>3. /\ sent \in Nat /\ MaxUpdates \in Nat /\ confirmed \in Nat /\ sent <= MaxUpdates
      /\ confirmed <= sent /\ offset \in Nat /\ offset <= sent + 1
      /\ backlog \in Nat /\ backlog <= sent /\ Batch \in Nat
      /\ a \in Nat /\ a >= 1 /\ b \in Nat /\ b <= sent
  BY <1>2, PollerType DEF IInv, OffsetKnown
<1>4. batch # {} /\ a <= b
  <2>1. batch # {}
    BY <1>1 DEF IInv, BatchFresh
  <2> QED
    BY <1>2, <1>3, <2>1
<1>5. u = a
  BY <1>2, <1>3, <1>4, FirstOfRun
<1> HIDE DEF u
<1>6. /\ u \in batch /\ u \in Updates
      /\ offset <= u /\ confirmed < u /\ u <= confirmed + Batch /\ handled[u] = 0
      /\ u > backlog \/ glut
  <2>1. u \in batch /\ u \in Updates
    BY <1>2, <1>3, <1>4, <1>5 DEF Updates
  <2> QED
    BY <2>1 DEF IInv, BatchFresh
<1>7. offset' = u + 1 /\ batch' = a + 1 .. b
  <2>1. batch' = a + 1 .. b
    BY <1>1, <1>2, <1>3, <1>5
  <2> QED
    BY <1>1, <1>3, <1>5, <1>6, <2>1 DEF OffsetPast, Most
<1>8. /\ handled' \in [Updates -> Nat] /\ handled'[u] = 1
      /\ \A v \in Updates : v # u => handled'[v] = handled[v]
  BY <1>1, <1>6 DEF IInv, TypeOK
<1>9. queue' \in Seq(Classes) /\ Len(queue') <= TGQ_CAP /\ RepliesBounded'
  BY <1>1, ReplyBounded
<1>10. TypeOK'
  <2>1. offset' \in 0 .. MaxUpdates + 1 /\ batch' \subseteq Updates
    BY <1>3, <1>4, <1>5, <1>7 DEF Updates
  <2>2. strangerOk' \in BOOLEAN /\ ppc' \in {"poll", "dispatch"}
    BY <1>1 DEF IInv, TypeOK
  <2>3. queue' \in Seq({"alert", "reply"})
    BY <1>9 DEF Classes
  <2> QED
    BY <1>1, <1>8, <1>9, <2>1, <2>2, <2>3 DEF IInv, TypeOK, botapi
<1>11. ThreadsLeave' /\ RetriesLeft'
  BY <1>1 DEF IInv, ThreadsLeave, RetriesLeft
<1>12. primed /\ OffsetKnown'
  <2>1. primed
    BY <1>1 DEF IInv, OffsetKnown
  <2>2. offset' <= sent' + 1
    BY <1>1, <1>3, <1>4, <1>5, <1>7 DEF botapi
  <2>3. glut \/ offset' > backlog \/ confirmed >= backlog
    BY <1>3, <1>5, <1>6, <1>7
  <2> QED
    BY <1>1, <2>1, <2>2, <2>3 DEF OffsetKnown, botapi
<1>13. BatchFresh'
  <2>1. ASSUME NEW v \in batch'
        PROVE  /\ offset' <= v /\ confirmed' < v /\ v <= confirmed' + Batch
               /\ handled'[v] = 0
               /\ v > backlog' \/ glut'
    <3>1. v \in batch /\ v \in Updates /\ u + 1 <= v /\ v # u
      BY <1>2, <1>3, <1>5, <1>7 DEF Updates
    <3>2. confirmed < v /\ v <= confirmed + Batch /\ handled[v] = 0 /\ (v > backlog \/ glut)
      BY <3>1 DEF IInv, BatchFresh
    <3> QED
      BY <1>1, <1>7, <1>8, <3>1, <3>2 DEF botapi
  <2>2. CASE a < MaxUpdates + 1
    <3>1. a + 1 \in 1 .. MaxUpdates + 1 /\ b \in 0 .. sent'
      BY <1>1, <1>2, <1>3, <2>2 DEF botapi
    <3> QED
      BY <1>1, <1>7, <2>1, <3>1 DEF BatchFresh
  <2>3. CASE ~(a < MaxUpdates + 1)
    BY <1>3, <1>4, <2>3
  <2> QED
    BY <2>2, <2>3
<1>14. HandledBehind'
  <2> SUFFICES ASSUME NEW v \in Updates
               PROVE  /\ handled'[v] <= 1
                      /\ handled'[v] > 0 => /\ v <= sent' /\ v <= confirmed' + Batch
                                            /\ primed' => v < offset' \/ v <= confirmed'
    BY DEF HandledBehind
  <2>1. sent' = sent /\ confirmed' = confirmed /\ v \in Nat
    BY <1>1, PollerType DEF botapi, IInv
  <2>2. CASE v = u
    BY <1>3, <1>4, <1>5, <1>6, <1>7, <1>8, <2>1, <2>2
  <2>3. CASE v # u
    <3>1. /\ handled[v] <= 1
          /\ handled[v] > 0 => /\ v <= sent /\ v <= confirmed + Batch
                               /\ v < offset \/ v <= confirmed
      BY <1>12 DEF IInv, HandledBehind
    <3>2. v < offset => v < offset'
      BY <1>3, <1>5, <1>6, <1>7, <2>1
    <3> QED
      BY <1>8, <2>1, <2>3, <3>1, <3>2
  <2> QED
    BY <2>2, <2>3
<1>15. NonePassedOver'
  <2>1. \A v \in Updates : PassedOver(v)' => PassedOver(v) /\ v # u
    BY <1>1, <1>8 DEF PassedOver
  <2>2. ASSUME NEW v \in Updates, v <= confirmed' \/ v < offset'
        PROVE  ~PassedOver(v)'
    <3>1. v \in Nat /\ v >= 1 /\ confirmed' = confirmed
      BY <1>1, PollerType DEF botapi, IInv
    <3>2. CASE v = u
      BY <2>1, <3>2
    <3>3. CASE v <= confirmed
      BY <2>1, <3>3 DEF IInv, NonePassedOver
    <3>4. CASE v < u
      <4>1. v \in 1 .. u - 1 /\ v \notin batch
        BY <1>2, <1>3, <1>5, <3>1, <3>4
      <4> QED
        BY <1>6, <2>1, <4>1 DEF IInv, NonePassedOver
    <3> QED
      BY <1>3, <1>5, <1>7, <2>2, <3>1, <3>2, <3>3, <3>4
  <2>3. ASSUME NEW w \in batch', NEW v \in 1 .. w - 1
        PROVE  v \in batch' \/ ~PassedOver(v)'
    <3>1. w \in batch /\ v \in Updates
      BY <1>2, <1>3, <1>7 DEF Updates
    <3>2. v \in batch \/ ~PassedOver(v)
      BY <3>1 DEF IInv, NonePassedOver
    <3> QED
      BY <1>1, <2>1, <3>1, <3>2
  <2> QED
    BY <2>2, <2>3 DEF NonePassedOver
<1> QED
  BY <1>9, <1>10, <1>11, <1>12, <1>13, <1>14, <1>15 DEF IInv

-----------------------------------------------------------------------------
(***************************************************************************)
(* The shutdown, and the crash.                                            *)
(***************************************************************************)
LEMMA EmptyQueue ==
  ASSUME queue' = <<>>
  PROVE  queue' \in Seq(Classes) /\ Len(queue') <= TGQ_CAP /\ RepliesBounded'
<1>1. TGQ_CAP \in Nat /\ TGQ_CAP - RESERVED_FOR_ALERTS >= 0
  BY TelegramAssumption
<1>2. Positions(queue', "reply") = {}
  BY DEF Positions
<1>3. Cardinality(Positions(queue', "reply")) = 0
  BY <1>2, FS_EmptySet
<1> QED
  BY <1>1, <1>3 DEF RepliesBounded

LEMMA PollerExitsStep ==
  ASSUME IInv, PollerExits
  PROVE  IInv'
<1>1. /\ ppc = "poll" /\ ppc' = "exited" /\ offset' = 0 /\ primed' = FALSE
      /\ UNCHANGED <<phase, sender, batch, strangerOk, botapi, history>>
  BY DEF PollerExits
<1>2. batch = {}
  BY <1>1 DEF IInv, BatchFresh
<1>3. sent \in Nat /\ MaxUpdates \in Nat
  BY PollerType DEF IInv
<1>4. TypeOK'
  <2>1. offset' \in 0 .. MaxUpdates + 1
    BY <1>1, <1>3
  <2> QED
    BY <1>1, <2>1 DEF IInv, TypeOK, Updates, sender, botapi, history
<1>5. ThreadsLeave' /\ RetriesLeft' /\ RepliesBounded'
  BY <1>1, SenderUntouched DEF sender
<1>6. OffsetKnown'
  BY <1>1, <1>3 DEF OffsetKnown, botapi
<1>7. BatchFresh'
  BY <1>1, <1>2, <1>4, NoBatchFresh
<1>8. HandledBehind'
  BY <1>1 DEF IInv, HandledBehind, botapi, history
<1>9. NonePassedOver'
  BY <1>1, <1>2 DEF NonePassedOver, PassedOver
<1> QED
  BY <1>4, <1>5, <1>6, <1>7, <1>8, <1>9 DEF IInv

LEMMA ShutdownStep ==
  ASSUME IInv, Stop \/ PollerJoined \/ Drain
  PROVE  IInv'
<1>1. UpdatesInv'
  <2>1. UNCHANGED updates
    BY DEF Stop, PollerJoined, Drain, updates, poller, botapi, history
  <2> QED
    BY <2>1, UpdatesUntouched DEF IInv, UpdatesInv
<1>2. CASE Stop \/ PollerJoined
  <2>1. /\ UNCHANGED <<sender, poller, botapi, history>>
        /\ \/ phase = "running" /\ phase' = "pollstop"
           \/ phase = "pollstop" /\ phase' = "stopping" /\ ppc = "exited"
    BY <1>2 DEF Stop, PollerJoined, PollerGone
  <2>2. TypeOK'
    BY <2>1 DEF IInv, TypeOK, Updates, sender, poller, botapi, history
  <2>3. ThreadsLeave' /\ RetriesLeft' /\ RepliesBounded'
    BY <2>1 DEF IInv, ThreadsLeave, RetriesLeft, RepliesBounded, sender, poller
  <2> QED
    BY <1>1, <2>2, <2>3 DEF IInv, UpdatesInv
<1>3. CASE Drain
  <2>1. /\ phase = "stopping" /\ wpc = "exited" /\ phase' = "stopped" /\ queue' = <<>> /\ det' = "none"
        /\ UNCHANGED <<floorOver, wpc, tries, poller, botapi, history>>
    BY <1>3 DEF Drain
  <2>2. queue' \in Seq(Classes) /\ Len(queue') <= TGQ_CAP /\ RepliesBounded'
    BY <2>1, EmptyQueue
  <2>3. TypeOK'
    BY <2>1, <2>2 DEF IInv, TypeOK, Classes, Updates, poller, botapi, history
  <2>4. ThreadsLeave' /\ RetriesLeft'
    BY <2>1 DEF IInv, ThreadsLeave, RetriesLeft, poller
  <2> QED
    BY <1>1, <2>2, <2>3, <2>4 DEF IInv, UpdatesInv
<1> QED
  BY <1>2, <1>3

\* What was handled before a crash lies within one batch of what is confirmed,
\* and the poller of the new process drops that much before it is primed.
LEMMA CrashStep ==
  ASSUME IInv, Crash
  PROVE  IInv'
<1>1. /\ phase' = "running" /\ crashes < MaxCrashes /\ crashes' = crashes + 1
      /\ queue' = <<>> /\ det' = "none" /\ floorOver' = Kinds
      /\ wpc' = "idle" /\ tries' = 0
      /\ ppc' = "prime" /\ offset' = 0 /\ primed' = FALSE /\ batch' = {}
      /\ strangerOk' = TRUE
      /\ backlog' = sent /\ actsFrom' = 0 /\ glut' = FALSE
      /\ UNCHANGED <<botapi, handled>>
  BY DEF Crash, NoBatch
<1>2. queue' \in Seq(Classes) /\ Len(queue') <= TGQ_CAP /\ RepliesBounded'
  BY <1>1, EmptyQueue
<1>3. /\ sent \in Nat /\ MaxUpdates \in Nat /\ MaxCrashes \in Nat /\ TG_ATTEMPTS \in Nat
      /\ crashes \in 0 .. MaxCrashes
  BY PollerType, TelegramAssumption DEF IInv, TypeOK
<1>4. TypeOK'
  <2>1. /\ tries' \in 0 .. TG_ATTEMPTS /\ offset' \in 0 .. MaxUpdates + 1
        /\ backlog' \in 0 .. sent' /\ actsFrom' \in 0 .. sent' + 1 /\ crashes' \in 0 .. MaxCrashes
    BY <1>1, <1>3 DEF botapi
  <2>2. queue' \in Seq({"alert", "reply"})
    BY <1>2 DEF Classes
  <2> QED
    BY <1>1, <1>2, <2>1, <2>2 DEF IInv, TypeOK, Updates, botapi
<1>5. ThreadsLeave' /\ RetriesLeft'
  BY <1>1 DEF ThreadsLeave, RetriesLeft
<1>6. OffsetKnown'
  BY <1>1, <1>3 DEF OffsetKnown, botapi
<1>7. BatchFresh'
  BY <1>1, <1>4, NoBatchFresh
<1>8. HandledBehind'
  BY <1>1 DEF IInv, HandledBehind, botapi
<1>9. NonePassedOver'
  BY <1>1 DEF NonePassedOver, PassedOver
<1> QED
  BY <1>2, <1>4, <1>5, <1>6, <1>7, <1>8, <1>9 DEF IInv

LEMMA InvariantStep == IInv /\ [Next]_vars => IInv'
<1> SUFFICES ASSUME IInv, [Next]_vars PROVE IInv'
  OBVIOUS
<1>1. CASE UNCHANGED vars
  <2>1. TypeOK' /\ ThreadsLeave' /\ RetriesLeft' /\ RepliesBounded'
    BY <1>1 DEF IInv, TypeOK, ThreadsLeave, RetriesLeft, RepliesBounded, Updates,
       vars, sender, poller, botapi, history
  <2>2. UNCHANGED updates
    BY <1>1 DEF updates, vars, poller, botapi, history
  <2> QED
    BY <2>1, <2>2, UpdatesUntouched DEF IInv, UpdatesInv
<1>2. CASE \/ \E due \in {"pending", "due"} : NotifyDetection(due)
           \/ \E kind \in Kinds : NotifyEvent(kind)
           \/ TimePasses
           \/ Worker
  BY <1>2, SenderStep
<1>3. CASE UserSends
  BY <1>3, UserSendsStep
<1>4. CASE Poller
  BY <1>4, PrimeStep, PollAnsweredStep, BacklogAnsweredStep, PollFailsStep, DispatchStep,
     PollerExitsStep DEF Poller, Answered
<1>5. CASE Stop \/ PollerJoined \/ Drain
  BY <1>5, ShutdownStep
<1>6. CASE Crash
  BY <1>6, CrashStep
<1> QED
  BY <1>1, <1>2, <1>3, <1>4, <1>5, <1>6 DEF Next

LEMMA Invariance == Spec => []IInv
BY InvariantInit, InvariantStep, PTL DEF Spec

-----------------------------------------------------------------------------
(***************************************************************************)
(* The theorems.                                                           *)
(***************************************************************************)
\* Every variable of the Telegram channel keeps its type: the ring never holds
\* more than TGQ_CAP messages (telegram.c:541-545, 577-594), and what the Bot API
\* has forgotten was sent.
THEOREM TypeCorrect == Spec => []TypeOK
BY Invariance, PTL DEF IInv

\* A full queue holds RESERVED_FOR_ALERTS alerts at least, whatever replies
\* were asked for: tg_enqueue leaves those slots to them (telegram.c:566-577).
THEOREM AlertsFindRoom == Spec => []AlertsKeepRoom
<1>1. IInv => AlertsKeepRoom
  <2> SUFFICES ASSUME IInv, Len(queue) >= TGQ_CAP
               PROVE  Cardinality(Positions(queue, "alert")) >= RESERVED_FOR_ALERTS
    BY DEF AlertsKeepRoom, Positions
  <2>1. queue \in Seq(Classes) /\ Len(queue) \in Nat /\ TGQ_CAP \in Nat /\ RESERVED_FOR_ALERTS \in Nat
    BY TelegramAssumption DEF IInv, TypeOK, Classes
  <2>2. /\ Cardinality(Positions(queue, "alert")) \in Nat
        /\ Cardinality(Positions(queue, "reply")) \in Nat
        /\ Cardinality(Positions(queue, "alert")) + Cardinality(Positions(queue, "reply")) = Len(queue)
    BY <2>1, PositionsFinite, ClassesSplit
  <2> QED
    BY <2>1, <2>2 DEF IInv, RepliesBounded
<1> QED
  BY <1>1, Invariance, PTL

\* process_updates hands no update to handle_message a second time, however
\* answers are lost and wherever in a batch the daemon crashes.
THEOREM HandledAtMostOnce == Spec => []AtMostOnce
<1>1. IInv => AtMostOnce
  BY DEF IInv, HandledBehind, AtMostOnce
<1> QED
  BY <1>1, Invariance, PTL

\* The offset never runs ahead of process_updates: of what follows the backlog,
\* a poller passes nothing, and makes the Bot API forget nothing, before it was
\* handled.
THEOREM NoneForgotten == Spec => []ActsOnAll
<1>1. IInv => ActsOnAll
  <2> SUFFICES ASSUME IInv, primed,
                      NEW u \in Updates, actsFrom <= u, u < offset \/ u <= confirmed
               PROVE  handled[u] > 0
    BY DEF ActsOnAll
  <2>1. handled[u] # 0
    BY DEF IInv, NonePassedOver, PassedOver
  <2> QED
    BY <2>1, PollerType DEF IInv
<1> QED
  BY <1>1, Invariance, PTL

\* Only process_updates acts on an update, on the first of its batch.
LEMMA ActsOnFirst ==
  ASSUME IInv, [Next]_vars, NEW u \in Updates, handled'[u] > handled[u]
  PROVE  ppc = "dispatch" /\ u \in batch
<1>1. handled[u] \in Nat
  BY PollerType DEF IInv
<1>2. handled' # handled
  BY <1>1
<1>3. DispatchAny
  BY <1>2 DEF Next, vars, history, NotifyDetection, NotifyEvent, TimePasses, DebounceOver, FloorOver,
     StrangerFloorOver, Worker, TakeQueued, TakeDetection, Post, NapOver, Exit, UserSends,
     Poller, PrimeAnswered, PrimeFails, Prime, Answered, PollAnswered, BacklogAnswered, PollFails,
     PollerExits, Stop, PollerJoined, Drain, Crash
<1>4. ppc = "dispatch" /\ handled' = [handled EXCEPT ![First(batch)] = @ + 1]
  BY <1>3 DEF DispatchAny, Dispatch
<1>5. u = First(batch)
  BY <1>1, <1>4 DEF IInv, TypeOK
<1>6. batch # {}
  BY <1>4 DEF IInv, BatchFresh
<1>7. PICK a \in 1 .. MaxUpdates + 1, b \in 0 .. sent : batch = a .. b
  BY DEF IInv, BatchFresh
<1>8. a \in Int /\ b \in Int /\ a <= b
  BY <1>6, <1>7, PollerType DEF IInv
<1>9. First(batch) = a
  BY <1>7, <1>8, FirstOfRun
<1> QED
  BY <1>4, <1>5, <1>7, <1>8, <1>9

\* The priming of the poller (telegram.c:1045-1063, 1090-1097) keeps commands
\* from before its start from being carried out, short of a failed priming
\* call and a backlog of more than one batch.
THEOREM BacklogIsSkipped == Spec => StaleSkipped
<1>1. IInv /\ [Next]_vars =>
        [\A u \in Updates : handled'[u] > handled[u] => u > backlog \/ glut]_vars
  <2> SUFFICES ASSUME IInv, [Next]_vars, NEW u \in Updates, handled'[u] > handled[u]
               PROVE  u > backlog \/ glut
    OBVIOUS
  <2> QED
    BY ActsOnFirst DEF IInv, BatchFresh
<1> QED
  BY <1>1, Invariance, PTL DEF Spec, StaleSkipped

\* process_updates acts on updates in the order they were sent: when it hands
\* one to handle_message, neither that one nor a later one was acted on before,
\* whatever was lost, and in whichever earlier life of the daemon.
THEOREM ActedOnInOrder == Spec => HandledInOrder
<1>1. IInv /\ [Next]_vars =>
        [\A u \in Updates : handled'[u] > handled[u] =>
           \A v \in Updates : v >= u => handled[v] = 0]_vars
  <2> SUFFICES ASSUME IInv, [Next]_vars, NEW u \in Updates, handled'[u] > handled[u],
                      NEW v \in Updates, v >= u
               PROVE  handled[v] = 0
    OBVIOUS
  <2>1. ppc = "dispatch" /\ u \in batch
    BY ActsOnFirst
  <2>2. primed
    BY <2>1 DEF IInv, OffsetKnown
  <2>3. offset <= u /\ confirmed < u
    BY <2>1 DEF IInv, BatchFresh
  <2>4. handled[v] > 0 => v < offset \/ v <= confirmed
    BY <2>2 DEF IInv, HandledBehind
  <2>5. ~(v < offset) /\ ~(v <= confirmed)
    BY <2>3, PollerType DEF IInv
  <2> QED
    BY <2>4, <2>5, PollerType DEF IInv
<1> QED
  BY <1>1, Invariance, PTL DEF Spec, HandledInOrder

\* telegram_stop joins the poller before it tells the worker, so that no reply
\* is queued behind the drain (telegram.c:433-454).
THEOREM StopsEmpty == Spec => []StoppedIsEmpty
<1>1. IInv => StoppedIsEmpty
  BY DEF IInv, ThreadsLeave, StoppedIsEmpty
<1> QED
  BY <1>1, Invariance, PTL
=============================================================================
