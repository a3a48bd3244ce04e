------------------------------- MODULE Mailer -------------------------------
(***************************************************************************)
(* The mailer (mailer.c): producer threads offer messages under one mutex, *)
(* a worker thread takes them and sends them outside it.  Operational      *)
(* alerts wait in a small FIFO and are limited per kind; detections share  *)
(* a single pending slot whose message goes out when the debounce window   *)
(* of its mode opens.                                                      *)
(*                                                                         *)
(* Time is kept as distances from now, in ticks: how long ago something    *)
(* happened (no further back than matters) and how long until it is due.   *)
(* A message is the heap block that holds its JPEG, NULL if it has none;   *)
(* a pending detection also has its person count and the guard mode.       *)
(***************************************************************************)
EXTENDS Integers, Sequences

CONSTANTS
  Kinds,          \* mail_kind_t of the operational alerts
  MAILQ_CAP,      \* capacity of the FIFO
  Debounce,       \* mail_debounce_sec
  GuardDebounce,  \* mail_guard_debounce_sec
  KIND_FLOOR,     \* least distance between two alerts of one kind
  SendTimeout,    \* the longest that smtp_send takes (CURLOPT_TIMEOUT)
  MaxPersons      \* bound: persons in a frame

ASSUME MailerAssumption ==
  /\ MAILQ_CAP \in Nat \ {0}
  /\ Debounce \in Nat /\ GuardDebounce \in Nat
  /\ GuardDebounce <= Debounce
  /\ KIND_FLOOR \in Nat
  /\ SendTimeout \in Nat
  /\ MaxPersons \in Nat \ {0}

VARIABLES
  phase,      \* main(): "running", "stopping" (joining), "stopped"
  queue,      \* the FIFO, its messages' blocks
  det,        \* the pending slot, NoMail when empty
  dueIn,      \* det_due - now, 0 once it has passed
  sinceDet,   \* now - last_det_send
  sinceKind,  \* now - last_kind_send[kind]
  wpc,        \* the worker: "check" (has the lock), "wait", "timed", "send", "exited"
  job,        \* the block of the message being sent
  busy,       \* how long smtp_send has been running
  live,       \* the heap blocks that are allocated
  worst       \* history: the most persons offered since the last detection mail

clock == <<dueIn, sinceDet, sinceKind, busy>>
vars == <<phase, queue, det, clock, wpc, job, live, worst>>

NULL == 0
Blocks == 1 .. MAILQ_CAP + 3    \* never more than the FIFO, the slot, the job, a new one
NoMail == [persons |-> 0, guard |-> FALSE, jpeg |-> NULL]
Mails == [persons : 1 .. MaxPersons, guard : BOOLEAN, jpeg : Blocks \union {NULL}]

\* The blocks of a sequence of messages, and that no two messages share one.
BlocksOf(q) == {q[i] : i \in DOMAIN q} \ {NULL}
Distinct(q) == \A i, j \in DOMAIN q : q[i] = q[j] /\ q[i] # NULL => i = j

DebounceOf(guard) == IF guard THEN GuardDebounce ELSE Debounce

Least(a, b) == IF a < b THEN a ELSE b
Most(a, b) == IF a > b THEN a ELSE b
Minus(a, b) == IF a > b THEN a - b ELSE 0

\* The JPEG of a new message: the lowest free block stands for whichever
\* malloc returns, NULL for a frame without a JPEG or a malloc that fails.
Jpegs == {NULL} \union {b \in Blocks \ live : \A c \in Blocks \ live : b <= c}

Waiting == wpc \in {"wait", "timed"}

\* Mutant: nobody is woken.
NoBroadcast == UNCHANGED wpc

Broadcast == wpc' = IF Waiting THEN "check" ELSE wpc

-----------------------------------------------------------------------------
(***************************************************************************)
(* mailer_notify_detection                                                 *)
(***************************************************************************)

\* Mutant: a replaced message hands its due time on.
DueKept(guard) == IF det # NoMail THEN dueIn ELSE Minus(DebounceOf(guard), sinceDet)
\* Mutant: the due time may lie in the past.
DueUnclamped(guard) == DebounceOf(guard) - sinceDet

DueOf(guard) == Minus(DebounceOf(guard), sinceDet)

\* Mutant: the message that is replaced keeps its JPEG.
ReplaceWithoutFree(jpeg) == live \union ({jpeg} \ {NULL})

ReplaceDetJpeg(jpeg) == (live \ {det.jpeg}) \union ({jpeg} \ {NULL})

NotifyDetection(persons, guard, jpeg) ==
  /\ phase = "running"
  /\ det' = [persons |-> persons, guard |-> guard, jpeg |-> jpeg]
  /\ dueIn' = DueOf(guard)
  /\ live' = ReplaceDetJpeg(jpeg)
  /\ worst' = Most(worst, persons)
  /\ Broadcast
  /\ UNCHANGED <<phase, queue, sinceDet, sinceKind, job, busy>>

(***************************************************************************)
(* mailer_notify_event; the alerts that the floor or a full queue turns    *)
(* away change nothing (their counter and log line are left out).          *)
(***************************************************************************)
NotifyEvent(kind, jpeg) ==
  /\ phase = "running"
  /\ sinceKind[kind] >= KIND_FLOOR
  /\ Len(queue) < MAILQ_CAP
  /\ sinceKind' = [sinceKind EXCEPT ![kind] = 0]
  /\ queue' = Append(queue, jpeg)
  /\ live' = live \union ({jpeg} \ {NULL})
  /\ Broadcast
  /\ UNCHANGED <<phase, det, dueIn, sinceDet, job, busy, worst>>

(***************************************************************************)
(* worker                                                                  *)
(***************************************************************************)
TakeEvent ==
  /\ wpc = "check"
  /\ phase = "running"
  /\ queue # <<>>
  /\ job' = Head(queue)
  /\ queue' = Tail(queue)
  /\ wpc' = "send"
  /\ busy' = 0
  /\ UNCHANGED <<phase, det, dueIn, sinceDet, sinceKind, live, worst>>

TakeDetection ==
  /\ wpc = "check"
  /\ phase = "running"
  /\ queue = <<>>
  /\ det # NoMail /\ dueIn = 0
  /\ job' = det.jpeg
  /\ det' = NoMail
  /\ sinceDet' = 0
  /\ worst' = 0
  /\ wpc' = "send"
  /\ busy' = 0
  /\ UNCHANGED <<phase, queue, dueIn, sinceKind, live>>

Wait ==
  /\ wpc = "check"
  /\ phase = "running"
  /\ queue = <<>>
  /\ det = NoMail \/ dueIn > 0
  /\ wpc' = IF det = NoMail THEN "wait" ELSE "timed"
  /\ UNCHANGED <<phase, queue, det, clock, job, live, worst>>

\* pthread_cond_timedwait ends when the slot is due, or early: CLOCK_REALTIME
\* may be stepped forward, and any wait may end spuriously.
WaitOver ==
  /\ Waiting
  /\ wpc' = "check"
  /\ UNCHANGED <<phase, queue, det, clock, job, live, worst>>

\* smtp_send returns, delivered or not, and the message is freed.
Sent ==
  /\ wpc = "send"
  /\ live' = live \ {job}
  /\ job' = NULL
  /\ wpc' = "check"
  /\ busy' = 0
  /\ UNCHANGED <<phase, queue, det, dueIn, sinceDet, sinceKind, worst>>

Exit ==
  /\ wpc = "check"
  /\ phase # "running"
  /\ wpc' = "exited"
  /\ UNCHANGED <<phase, queue, det, clock, job, live, worst>>

(***************************************************************************)
(* mailer_stop, called by main() after the producers are gone.             *)
(***************************************************************************)

Stop ==
  /\ phase = "running"
  /\ phase' = "stopping"
  /\ Broadcast
  /\ UNCHANGED <<queue, det, clock, job, live, worst>>

\* The join returned: what nobody sent is freed (qcount is left at -1, which
\* nothing reads any more).
Drain ==
  /\ phase = "stopping"
  /\ wpc = "exited"
  /\ phase' = "stopped"
  /\ live' = live \ ({det.jpeg} \union BlocksOf(queue))
  /\ det' = NoMail
  /\ queue' = <<>>
  /\ UNCHANGED <<clock, wpc, job, worst>>

(***************************************************************************)
(* Time.  The steps of the worker under the lock take none, a timed wait   *)
(* ends when it is due, and curl gives up after SendTimeout.               *)
(***************************************************************************)
Tick ==
  /\ phase # "stopped"
  /\ wpc # "check"
  /\ ~(wpc = "timed" /\ dueIn = 0)
  /\ wpc = "send" => busy < SendTimeout
  /\ busy' = IF wpc = "send" THEN busy + 1 ELSE busy
  /\ dueIn' = Minus(dueIn, 1)
  /\ sinceDet' = Least(sinceDet + 1, Debounce)
  /\ sinceKind' = [k \in Kinds |-> Least(sinceKind[k] + 1, KIND_FLOOR)]
  /\ UNCHANGED <<phase, queue, det, wpc, job, live, worst>>

-----------------------------------------------------------------------------
\* mailer_start: every window is open, "now_mono() - 3600.0".
Init ==
  /\ phase = "running"
  /\ queue = <<>>
  /\ det = NoMail
  /\ dueIn = 0 /\ sinceDet = Debounce
  /\ sinceKind = [k \in Kinds |-> KIND_FLOOR]
  /\ wpc = "check" /\ job = NULL /\ busy = 0
  /\ live = {}
  /\ worst = 0

Producers ==
  \/ \E p \in 1 .. MaxPersons, g \in BOOLEAN, j \in Jpegs : NotifyDetection(p, g, j)
  \/ \E k \in Kinds, j \in Jpegs : NotifyEvent(k, j)

Worker == TakeEvent \/ TakeDetection \/ Wait \/ WaitOver \/ Sent \/ Exit

Next == Producers \/ Worker \/ Stop \/ Drain \/ Tick

\* A wait is only sure to end when it is a timed one.
TimedWaitOver == wpc = "timed" /\ dueIn = 0 /\ WaitOver

Fairness ==
  /\ WF_vars(TakeEvent \/ TakeDetection \/ Wait \/ Sent \/ Exit)
  /\ WF_vars(TimedWaitOver)
  /\ WF_vars(Drain)
  /\ SF_vars(Tick)      \* time goes on, however often the mailer is called

Spec == Init /\ [][Next]_vars /\ Fairness

-----------------------------------------------------------------------------
\* Every variable has its type.
TypeOK ==
  /\ phase \in {"running", "stopping", "stopped"}
  /\ queue \in Seq(Blocks \union {NULL})
  /\ det \in Mails \union {NoMail}
  /\ dueIn \in Nat /\ sinceDet \in Nat
  /\ sinceKind \in [Kinds -> Nat]
  /\ wpc \in {"check", "wait", "timed", "send", "exited"}
  /\ job \in Blocks \union {NULL}
  /\ busy \in Nat
  /\ live \in SUBSET Blocks
  /\ worst \in Nat

\* The JPEGs on the heap are exactly those of the queued, the pending and the
\* outgoing messages, and no two messages share one: nothing leaks, nothing is
\* freed twice or sent after it was freed, through replacement and shutdown.
JpegsOwned ==
  /\ live = BlocksOf(queue) \union ({det.jpeg, job} \ {NULL})
  /\ Distinct(queue)
  /\ {det.jpeg, job} \intersect BlocksOf(queue) = {}
  /\ det.jpeg = job => job = NULL

\* "Never more than one message per debounce interval" (mailer.h:23): when a
\* detection mail leaves, the last one left at least the debounce of the new
\* one's own mode ago, whatever observations replaced each other meanwhile.
DebounceKept ==
  [][wpc = "check" /\ det # NoMail /\ det' = NoMail
       => sinceDet >= DebounceOf(det.guard)]_vars

\* The message that goes out "always carries the *worst* observation from that
\* interval rather than the first" (mailer.h:24-25).
WorstObservationSent ==
  [][wpc = "check" /\ det # NoMail /\ det' = NoMail => det.persons >= worst]_vars

\* No wakeup is lost: a worker that sleeps (mailer.c:262-275) has nothing
\* to do, neither an alert to send nor a shutdown to see, and without a time
\* limit it sleeps only while no detection is pending; it leaves only when told.
NoLostWakeup ==
  /\ Waiting => phase = "running" /\ queue = <<>>
  /\ wpc = "wait" => det = NoMail
  /\ wpc = "exited" => phase # "running"

\* "Overwrite the single pending slot ... and let the worker fire it the instant
\* the window opens" (mailer.h:19-21): a pending detection goes out, unless the
\* daemon stops, whatever else there is to send.  It does not: the FIFO is served
\* first (mailer.c:249).
DetectionGoesOut == det # NoMail ~> det = NoMail \/ phase # "running"

\* What the code does keep: once no more alerts arrive, a pending detection goes
\* out, although observations go on replacing it and the guard mode, and with it
\* the window, goes on changing.  No wakeup of mailer.c:262-275 is lost.
DetectionLeaves ==
  <>[](queue = <<>>) => (det # NoMail ~> det = NoMail \/ phase # "running")

\* The shutdown does not hang in the join.
StopCompletes == phase = "stopping" ~> phase = "stopped"

-----------------------------------------------------------------------------
\* What DebounceKept rests on: the pending message is not due before the
\* debounce of its mode has passed since the last detection mail.
DueAfterDebounce == det # NoMail => sinceDet + dueIn >= DebounceOf(det.guard)

IInv ==
  /\ TypeOK
  /\ DueAfterDebounce
  /\ JpegsOwned
  /\ wpc # "send" => job = NULL
=============================================================================
