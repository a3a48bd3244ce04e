---------------------------- MODULE MailerProofs ----------------------------
(***************************************************************************)
(* Proofs about Mailer: the debounce interval and the ownership of the     *)
(* attachments, for every capacity, debounce and floor.                    *)
(***************************************************************************)
EXTENDS Mailer, SequenceTheorems, TLAPS

\* What is queued after Append and Tail: the blocks, and that they are distinct.
LEMMA AppendBlocks ==
  ASSUME NEW S, NEW q \in Seq(S), NEW e \in S
  PROVE  /\ BlocksOf(Append(q, e)) = BlocksOf(q) \union ({e} \ {NULL})
         /\ Distinct(q) /\ e \notin BlocksOf(q) => Distinct(Append(q, e))
<1> DEFINE p == Append(q, e)
<1>1. /\ p \in Seq(S) /\ Len(p) = Len(q) + 1
      /\ DOMAIN p = 1 .. Len(q) + 1 /\ DOMAIN q = 1 .. Len(q) /\ Len(q) \in Nat
      /\ \A i \in 1 .. Len(q) : p[i] = q[i]
      /\ p[Len(q) + 1] = e
  BY AppendProperties
<1> HIDE DEF p
<1>2. \A i \in DOMAIN p : i \in DOMAIN q \/ i = Len(q) + 1
  BY <1>1
<1>3. DOMAIN q \subseteq DOMAIN p /\ Len(q) + 1 \in DOMAIN p
  BY <1>1
<1>4. {p[i] : i \in DOMAIN p} = {q[i] : i \in DOMAIN q} \union {e}
  BY <1>1, <1>2, <1>3
<1>5. BlocksOf(p) = BlocksOf(q) \union ({e} \ {NULL})
  BY <1>4 DEF BlocksOf
<1>6. ASSUME Distinct(q), e \notin BlocksOf(q) PROVE Distinct(p)
  <2> SUFFICES ASSUME NEW i \in DOMAIN p, NEW j \in DOMAIN p,
                      p[i] = p[j], p[i] # NULL
               PROVE  i = j
    BY DEF Distinct
  <2>1. \A k \in DOMAIN q : p[k] = q[k] /\ (p[k] # NULL => p[k] # e)
    BY <1>1, <1>6 DEF BlocksOf
  <2> QED
    BY <1>1, <1>2, <1>6, <2>1 DEF Distinct
<1> QED
  BY <1>5, <1>6 DEF p

LEMMA TailBlocks ==
  ASSUME NEW S, NEW q \in Seq(S), q # <<>>
  PROVE  /\ BlocksOf(q) = BlocksOf(Tail(q)) \union ({Head(q)} \ {NULL})
         /\ Distinct(q) => Distinct(Tail(q)) /\ Head(q) \notin BlocksOf(Tail(q))
<1> DEFINE t == Tail(q)
<1>1. /\ t \in Seq(S) /\ Len(q) \in Nat \ {0} /\ Len(t) = Len(q) - 1
      /\ DOMAIN t = 1 .. Len(q) - 1 /\ DOMAIN q = 1 .. Len(q)
      /\ \A i \in 1 .. Len(q) - 1 : t[i] = q[i + 1]
      /\ Head(q) = q[1]
  BY HeadTailProperties, EmptySeq, LenProperties
<1> HIDE DEF t
<1>2. 1 \in DOMAIN q /\ \A i \in DOMAIN t : i + 1 \in DOMAIN q /\ t[i] = q[i + 1] /\ i + 1 # 1
  BY <1>1
<1>3. \A i \in DOMAIN q : i = 1 \/ (i - 1 \in DOMAIN t /\ t[i - 1] = q[i])
  BY <1>1
<1>4. {q[i] : i \in DOMAIN q} = {t[i] : i \in DOMAIN t} \union {Head(q)}
  BY <1>1, <1>2, <1>3
<1>5. BlocksOf(q) = BlocksOf(t) \union ({Head(q)} \ {NULL})
  BY <1>4 DEF BlocksOf
<1>6. ASSUME Distinct(q) PROVE Distinct(t) /\ Head(q) \notin BlocksOf(t)
  <2>1. \A i, j \in DOMAIN t : i + 1 = j + 1 => i = j
    BY <1>1
  <2>2. Distinct(t)
    BY <1>2, <1>6, <2>1 DEF Distinct
  <2>3. Head(q) \notin BlocksOf(t)
    BY <1>1, <1>2, <1>6 DEF Distinct, BlocksOf
  <2> QED
    BY <2>2, <2>3
<1> QED
  BY <1>5, <1>6 DEF t

LEMMA EmptyBlocks == BlocksOf(<<>>) = {} /\ Distinct(<<>>)
BY DEF BlocksOf, Distinct

LEMMA DebounceBounds ==
  /\ \A g \in BOOLEAN : DebounceOf(g) \in Nat /\ DebounceOf(g) <= Debounce
  /\ \A a, b \in Nat : /\ Minus(a, b) \in Nat /\ b + Minus(a, b) >= a
                       /\ Least(a, b) \in Nat /\ Most(a, b) \in Nat
BY MailerAssumption DEF DebounceOf, Minus, Least, Most

LEMMA PendingIsMail ==
  ASSUME TypeOK, det # NoMail
  PROVE  det \in Mails /\ det.guard \in BOOLEAN
BY DEF TypeOK, Mails

LEMMA DetJpeg == TypeOK => det.jpeg \in Blocks \union {NULL}
BY DEF TypeOK, Mails, NoMail

\* A new detection is a message, and its block is not in use.
LEMMA NewMail ==
  ASSUME NEW p \in 1 .. MaxPersons, NEW g \in BOOLEAN, NEW j \in Jpegs
  PROVE  /\ [persons |-> p, guard |-> g, jpeg |-> j] \in Mails
         /\ [persons |-> p, guard |-> g, jpeg |-> j] # NoMail
         /\ j \in Blocks \union {NULL} /\ j \notin live \ {NULL}
         /\ p \in Nat
<1>1. j \in Blocks \union {NULL} /\ j \notin live \ {NULL}
  BY DEF Jpegs
<1>2. p \in Nat /\ p # 0
  BY MailerAssumption
<1> QED
  BY <1>1, <1>2 DEF Mails, NoMail

LEMMA NullIsNoBlock == NULL \notin Blocks
BY DEF NULL, Blocks

LEMMA BroadcastType ==
  ASSUME TypeOK, Broadcast
  PROVE  /\ wpc' \in {"check", "wait", "timed", "send", "exited"}
         /\ wpc' = "send" <=> wpc = "send"
BY DEF TypeOK, Broadcast, Waiting

-----------------------------------------------------------------------------
(***************************************************************************)
(* One lemma per group of actions: the invariant is kept.                  *)
(***************************************************************************)
LEMMA NotifyDetectionStep ==
  ASSUME IInv, NEW p \in 1 .. MaxPersons, NEW g \in BOOLEAN, NEW j \in Jpegs,
         NotifyDetection(p, g, j)
  PROVE  IInv'
<1> DEFINE m == [persons |-> p, guard |-> g, jpeg |-> j]
<1>1. m \in Mails /\ m # NoMail /\ j \in Blocks \union {NULL} /\ j \notin live \ {NULL} /\ p \in Nat
  BY NewMail
<1>2. m.guard = g /\ m.jpeg = j
  OBVIOUS
<1>3. det' = m
  BY DEF NotifyDetection
<1> HIDE DEF m
<1>4. TypeOK'
  <2>1. dueIn' \in Nat /\ worst' \in Nat
    BY <1>1, DebounceBounds DEF IInv, TypeOK, NotifyDetection, DueOf
  <2>2. live' \in SUBSET Blocks
    BY <1>1 DEF IInv, TypeOK, NotifyDetection, ReplaceDetJpeg
  <2> QED
    BY <1>1, <1>3, <2>1, <2>2, BroadcastType DEF IInv, TypeOK, NotifyDetection
<1>5. DueAfterDebounce'
  BY <1>2, <1>3, DebounceBounds DEF IInv, TypeOK, DueAfterDebounce, NotifyDetection, DueOf
<1>6. JpegsOwned'
  BY <1>1, <1>2, <1>3 DEF IInv, TypeOK, JpegsOwned, NotifyDetection, ReplaceDetJpeg, BlocksOf
<1>7. wpc' # "send" => job' = NULL
  BY BroadcastType DEF IInv, NotifyDetection
<1> QED
  BY <1>4, <1>5, <1>6, <1>7 DEF IInv

LEMMA NotifyEventStep ==
  ASSUME IInv, NEW k \in Kinds, NEW j \in Jpegs, NotifyEvent(k, j)
  PROVE  IInv'
<1>1. j \in Blocks \union {NULL} /\ j \notin live \ {NULL}
  BY DEF Jpegs
<1>2. queue \in Seq(Blocks \union {NULL})
  BY DEF IInv, TypeOK
<1>3. /\ queue' \in Seq(Blocks \union {NULL})
      /\ BlocksOf(queue') = BlocksOf(queue) \union ({j} \ {NULL})
      /\ j \notin BlocksOf(queue) => Distinct(queue')
  BY <1>1, <1>2, AppendProperties, AppendBlocks DEF NotifyEvent, IInv, JpegsOwned
<1>4. j \notin BlocksOf(queue)
  BY <1>1 DEF IInv, JpegsOwned, BlocksOf
<1>5. TypeOK'
  BY <1>1, <1>3, BroadcastType DEF IInv, TypeOK, NotifyEvent
<1>6. DueAfterDebounce'
  BY DEF IInv, DueAfterDebounce, NotifyEvent
<1>7. JpegsOwned'
  BY <1>1, <1>3, <1>4, DetJpeg DEF IInv, TypeOK, JpegsOwned, NotifyEvent
<1>8. wpc' # "send" => job' = NULL
  BY BroadcastType DEF IInv, NotifyEvent
<1> QED
  BY <1>5, <1>6, <1>7, <1>8 DEF IInv

LEMMA TakeEventStep ==
  ASSUME IInv, TakeEvent
  PROVE  IInv'
<1>1. /\ queue \in Seq(Blocks \union {NULL}) /\ queue # <<>> /\ job = NULL
      /\ queue' = Tail(queue) /\ job' = Head(queue)
  BY DEF IInv, TypeOK, TakeEvent
<1>2. /\ queue' \in Seq(Blocks \union {NULL})
      /\ job' \in Blocks \union {NULL}
      /\ BlocksOf(queue) = BlocksOf(queue') \union ({job'} \ {NULL})
      /\ Distinct(queue') /\ job' \notin BlocksOf(queue')
  BY <1>1, HeadTailProperties, TailBlocks DEF IInv, JpegsOwned
<1>3. TypeOK'
  BY <1>2 DEF IInv, TypeOK, TakeEvent
<1>4. DueAfterDebounce'
  BY DEF IInv, DueAfterDebounce, TakeEvent
<1>5. JpegsOwned'
  BY <1>1, <1>2 DEF IInv, JpegsOwned, TakeEvent
<1> QED
  BY <1>3, <1>4, <1>5 DEF IInv, TakeEvent

LEMMA TakeDetectionStep ==
  ASSUME IInv, TakeDetection
  PROVE  IInv'
<1>1. det' = NoMail /\ NoMail.jpeg = NULL /\ job' = det.jpeg /\ job = NULL
  BY DEF IInv, TakeDetection, NoMail
<1>2. TypeOK'
  BY <1>1, DetJpeg DEF IInv, TypeOK, TakeDetection
<1>3. DueAfterDebounce'
  BY <1>1 DEF DueAfterDebounce
<1>4. JpegsOwned'
  BY <1>1 DEF IInv, JpegsOwned, TakeDetection, BlocksOf
<1> QED
  BY <1>2, <1>3, <1>4 DEF IInv, TakeDetection

\* The worker's steps that move no message, and mailer_stop up to the join.
LEMMA WaitingStep ==
  ASSUME IInv, Wait \/ WaitOver \/ Exit \/ Stop
  PROVE  IInv'
<1>1. /\ UNCHANGED <<queue, det, dueIn, sinceDet, sinceKind, busy, job, live, worst>>
      /\ phase' \in {phase, "stopping"}
  BY DEF Wait, WaitOver, Exit, Stop, clock
<1>2. /\ wpc' \in {"check", "wait", "timed", "send", "exited"}
      /\ wpc' # "send" => job' = NULL
  BY BroadcastType DEF IInv, TypeOK, Wait, WaitOver, Exit, Stop, clock, Waiting
<1> QED
  BY <1>1, <1>2 DEF IInv, TypeOK, DueAfterDebounce, JpegsOwned

LEMMA SentStep ==
  ASSUME IInv, Sent
  PROVE  IInv'
<1>1. TypeOK' /\ DueAfterDebounce'
  BY DEF IInv, TypeOK, DueAfterDebounce, Sent
<1>2. JpegsOwned'
  BY DEF IInv, JpegsOwned, Sent, BlocksOf
<1> QED
  BY <1>1, <1>2 DEF IInv, Sent

LEMMA DrainStep ==
  ASSUME IInv, Drain
  PROVE  IInv'
<1>1. det' = NoMail /\ NoMail.jpeg = NULL /\ queue' = <<>> /\ job = NULL
      /\ UNCHANGED <<dueIn, sinceDet, sinceKind, busy, wpc, job, worst>>
  BY DEF IInv, Drain, NoMail, clock
<1>2. TypeOK'
  BY <1>1, EmptySeq DEF IInv, TypeOK, Drain
<1>3. DueAfterDebounce'
  BY <1>1 DEF DueAfterDebounce
<1>4. JpegsOwned'
  BY <1>1, EmptyBlocks DEF IInv, JpegsOwned, Drain
<1> QED
  BY <1>1, <1>2, <1>3, <1>4 DEF IInv

LEMMA TickStep ==
  ASSUME IInv, Tick
  PROVE  IInv'
<1>1. /\ dueIn' \in Nat /\ sinceDet' \in Nat /\ busy' \in Nat
      /\ sinceKind' \in [Kinds -> Nat]
      /\ dueIn' = Minus(dueIn, 1) /\ sinceDet' = Least(sinceDet + 1, Debounce)
      /\ dueIn \in Nat /\ sinceDet \in Nat
      /\ UNCHANGED <<phase, queue, det, wpc, job, live, worst>>
  <2>1. /\ dueIn \in Nat /\ sinceDet \in Nat /\ busy \in Nat
        /\ sinceKind \in [Kinds -> Nat] /\ Debounce \in Nat /\ KIND_FLOOR \in Nat
    BY MailerAssumption DEF IInv, TypeOK
  <2>2. \A a, b \in Nat : Minus(a, b) \in Nat /\ Least(a + 1, b) \in Nat
    BY DEF Minus, Least
  <2>3. sinceKind' \in [Kinds -> Nat]
    BY <2>1, <2>2 DEF Tick
  <2>4. dueIn' \in Nat
    <3>1. 1 \in Nat /\ dueIn' = Minus(dueIn, 1)
      BY DEF Tick
    <3> QED
      BY <2>1, <2>2, <3>1
  <2>5. sinceDet' \in Nat
    BY <2>1, <2>2 DEF Tick
  <2>6. busy' \in Nat
    BY <2>1 DEF Tick
  <2> QED
    BY <2>1, <2>3, <2>4, <2>5, <2>6 DEF Tick
<1>2. TypeOK' /\ JpegsOwned' /\ (wpc' # "send" => job' = NULL)
  BY <1>1 DEF IInv, TypeOK, JpegsOwned
<1>3. ASSUME det # NoMail
      PROVE  sinceDet' + dueIn' >= DebounceOf(det.guard)
  <2>1. /\ DebounceOf(det.guard) \in Nat /\ DebounceOf(det.guard) <= Debounce
        /\ Debounce \in Nat
    BY <1>3, PendingIsMail, DebounceBounds, MailerAssumption DEF IInv
  <2>2. sinceDet + dueIn >= DebounceOf(det.guard)
    BY <1>3 DEF IInv, DueAfterDebounce
  <2> QED
    BY <1>1, <2>1, <2>2 DEF Minus, Least
<1>4. DueAfterDebounce'
  BY <1>1, <1>3 DEF DueAfterDebounce
<1> QED
  BY <1>2, <1>4 DEF IInv

LEMMA InvariantInit == Init => IInv
<1> SUFFICES ASSUME Init PROVE IInv
  OBVIOUS
<1>1. TypeOK
  BY EmptySeq, MailerAssumption DEF Init, TypeOK
<1>2. JpegsOwned
  BY EmptyBlocks DEF Init, JpegsOwned, NoMail
<1> QED
  BY <1>1, <1>2 DEF Init, IInv, DueAfterDebounce

LEMMA InvariantStep == IInv /\ [Next]_vars => IInv'
<1> SUFFICES ASSUME IInv, [Next]_vars PROVE IInv'
  OBVIOUS
<1>1. CASE Producers
  BY <1>1, NotifyDetectionStep, NotifyEventStep DEF Producers
<1>2. CASE TakeEvent
  BY <1>2, TakeEventStep
<1>3. CASE TakeDetection
  BY <1>3, TakeDetectionStep
<1>4. CASE Wait \/ WaitOver \/ Exit \/ Stop
  BY <1>4, WaitingStep
<1>5. CASE Sent
  BY <1>5, SentStep
<1>6. CASE Drain
  BY <1>6, DrainStep
<1>7. CASE Tick
  BY <1>7, TickStep
<1>8. CASE UNCHANGED vars
  BY <1>8 DEF vars, clock, IInv, TypeOK, DueAfterDebounce, JpegsOwned
<1> QED
  BY <1>1, <1>2, <1>3, <1>4, <1>5, <1>6, <1>7, <1>8 DEF Next, Worker

-----------------------------------------------------------------------------
\* In every reachable state the pending message is not early and the blocks
\* have one owner each.
THEOREM Invariance == Spec => []IInv
BY InvariantInit, InvariantStep, PTL DEF Spec

\* Every variable keeps its type.
THEOREM TypeCorrect == Spec => []TypeOK
<1>1. IInv => TypeOK
  BY DEF IInv
<1> QED
  BY <1>1, Invariance, PTL

\* No attachment leaks, is freed twice or is sent after it was freed, for any
\* capacity of the FIFO (mailer.c, outgoing_free and the moves of M.det).
THEOREM AttachmentsOwned == Spec => []JpegsOwned
<1>1. IInv => JpegsOwned
  BY DEF IInv
<1> QED
  BY <1>1, Invariance, PTL

\* The interval guarantee of mailer.h:23, for any pair of debounces.
THEOREM IntervalKept == Spec => DebounceKept
<1>1. ASSUME IInv, [Next]_vars,
             wpc = "check", det # NoMail, det' = NoMail
      PROVE  sinceDet >= DebounceOf(det.guard)
  <2>1. CASE TakeDetection
    <3>1. sinceDet + dueIn >= DebounceOf(det.guard) /\ dueIn = 0 /\ sinceDet \in Nat
      BY <1>1, <2>1 DEF IInv, TypeOK, DueAfterDebounce, TakeDetection
    <3> QED
      BY <3>1
  <2>2. ~TakeDetection => FALSE
    <3>1. ASSUME NEW p \in 1 .. MaxPersons, NEW g \in BOOLEAN, NEW j \in Jpegs,
                 NotifyDetection(p, g, j)
          PROVE  FALSE
      BY <1>1, <3>1, NewMail DEF NotifyDetection
    <3>2. CASE \E k \in Kinds, j \in Jpegs : NotifyEvent(k, j)
      BY <1>1, <3>2 DEF NotifyEvent
    <3>3. CASE TakeEvent \/ Wait \/ WaitOver \/ Sent \/ Exit \/ Stop \/ Drain \/ Tick \/ UNCHANGED vars
      BY <1>1, <3>3
      DEF TakeEvent, Wait, WaitOver, Sent, Exit, Stop, Drain, Tick, vars
    <3> QED
      BY <1>1, <3>1, <3>2, <3>3 DEF Next, Producers, Worker
  <2> QED
    BY <2>1, <2>2
<1>2. IInv /\ [Next]_vars
        => [wpc = "check" /\ det # NoMail /\ det' = NoMail
              => sinceDet >= DebounceOf(det.guard)]_vars
  BY <1>1
<1> QED
  BY <1>2, Invariance, PTL DEF Spec, DebounceKept

\* Producers and mailer_stop change what the worker waits for under its mutex
\* and broadcast there, so that the worker never sleeps on what it should do,
\* for any capacity and any durations.
THEOREM SleepsWithoutWork == Spec => []NoLostWakeup
<1>1. Init => NoLostWakeup
  BY DEF Init, NoLostWakeup, Waiting
<1>2. NoLostWakeup /\ [Next]_vars => NoLostWakeup'
  <2> SUFFICES ASSUME NoLostWakeup, [Next]_vars PROVE NoLostWakeup'
    OBVIOUS
  <2>1. CASE Producers \/ Stop
    <3>1. /\ wpc' \notin {"wait", "timed"} /\ (wpc' = "exited" => wpc = "exited")
          /\ phase' \in {phase, "stopping"}
      BY <2>1 DEF Producers, NotifyDetection, NotifyEvent, Stop, Broadcast, Waiting
    <3> QED
      BY <3>1 DEF NoLostWakeup, Waiting
  <2>2. CASE Wait
    BY <2>2 DEF Wait, NoLostWakeup, Waiting
  <2>3. CASE TakeEvent \/ TakeDetection \/ WaitOver \/ Sent \/ Exit
    BY <2>3 DEF TakeEvent, TakeDetection, WaitOver, Sent, Exit, NoLostWakeup, Waiting
  <2>4. CASE Drain
    BY <2>4 DEF Drain, NoLostWakeup, Waiting
  <2>5. CASE Tick \/ UNCHANGED vars
    BY <2>5 DEF Tick, vars, NoLostWakeup, Waiting
  <2> QED
    BY <2>1, <2>2, <2>3, <2>4, <2>5 DEF Next, Worker
<1> QED
  BY <1>1, <1>2, PTL DEF Spec
=============================================================================
