------------------------------ MODULE Telegram ------------------------------
(***************************************************************************)
(* The Telegram channel (telegram.c): a send worker that serves alerts,    *)
(* command replies and one pending detection, and a poller that learns     *)
(* where the backlog of the bot ends, takes updates in batches and answers *)
(* commands.  The Bot API keeps updates until a later request confirms     *)
(* them; answers and requests get lost, and the daemon may crash.          *)
(*                                                                         *)
(* Time is a choice: a debounce or a floor that is not over can be over in *)
(* the next step.  Updates are numbered in the order they were sent.  The  *)
(* condition variable is the guard of the worker's step; the ownership of  *)
(* JPEGs and the waits are as in Mailer, the health record is left out.    *)
(***************************************************************************)
EXTENDS Integers, Sequences, FiniteSets

CONSTANTS
  Kinds,                \* mail_kind_t of the alerts
  TGQ_CAP,              \* capacity of the queue
  RESERVED_FOR_ALERTS,  \* slots that replies must leave free
  TG_ATTEMPTS,          \* attempts to send a message
  Batch,                \* the "limit" of getUpdates
  MaxUpdates,           \* bound: updates ever sent to the bot
  MaxCrashes            \* bound: crashes of the daemon

ASSUME TelegramAssumption ==
  /\ TGQ_CAP \in Nat /\ RESERVED_FOR_ALERTS \in 0 .. TGQ_CAP
  /\ TG_ATTEMPTS \in Nat \ {0} /\ Batch \in Nat \ {0}
  /\ MaxUpdates \in Nat /\ MaxCrashes \in Nat

VARIABLES
  phase,      \* "running", "pollstop" (joining the poller), "stopping" (the worker), "stopped"
  queue,      \* the ring: "alert" and "reply"
  det,        \* the pending detection: "none", "pending" (det_due is ahead), "due"
  floorOver,  \* the kinds whose last alert is KIND_FLOOR old
  wpc,        \* the worker: "idle", "post", "nap" (before a retry), "exited"
  tries,      \* attempts made for the message at hand
  ppc,        \* the poller: "prime", "poll", "dispatch", "exited"
  offset,     \* what it asks for next
  primed,     \* it knows where the backlog ends
  batch,      \* the updates of the answer that are still to be processed
  strangerOk, \* TG_UNAUTH_FLOOR is over
  sent,       \* Bot API: the newest update
  confirmed,  \* Bot API: updates up to this one are forgotten
  handled,    \* history: how often handle_message saw an update
  backlog,    \* history: the newest update when this poller started
  actsFrom,   \* history: the first update after the priming call (or the stale batch), 0 before
  glut,       \* history: the batch dropped as stale did not reach the backlog's end
  crashes

sender == <<queue, det, floorOver, wpc, tries>>
poller == <<ppc, offset, primed, batch, strangerOk>>
botapi == <<sent, confirmed>>
history == <<handled, backlog, actsFrom, glut, crashes>>
vars == <<phase, sender, poller, botapi, history>>

Updates == 1 .. MaxUpdates
Running == phase \in {"running", "pollstop"}    \* T.running
NoBatch == {}

Most(a, b) == IF a > b THEN a ELSE b
First(S) == CHOOSE u \in S : \A v \in S : u <= v
LastOf(S) == CHOOSE u \in S : \A v \in S : v <= u

-----------------------------------------------------------------------------
(***************************************************************************)
(* The producers, gone before telegram_stop.  Alerts that the floor or a   *)
(* full queue turns away change nothing.                                   *)
(***************************************************************************)
\* telegram_notify_detection: the new observation replaces the old one; its
\* due time is now or ahead, by the debounce of its mode.
NotifyDetection(due) ==
  /\ phase = "running"
  /\ det' = due
  /\ UNCHANGED <<phase, queue, floorOver, wpc, tries, poller, botapi, history>>

\* Mutant: qcount > TGQ_CAP.
AlertRoomOffByOne == Len(queue) <= TGQ_CAP

AlertRoom == Len(queue) < TGQ_CAP

NotifyEvent(kind) ==
  /\ phase = "running"
  /\ kind \in floorOver
  /\ AlertRoom
  /\ floorOver' = floorOver \ {kind}
  /\ queue' = Append(queue, "alert")
  /\ UNCHANGED <<phase, det, wpc, tries, poller, botapi, history>>

\* Time matters until the worker is told to stop.
DebounceOver ==
  /\ Running
  /\ det = "pending" /\ det' = "due"
  /\ UNCHANGED <<phase, queue, floorOver, wpc, tries, poller, botapi, history>>

FloorOver(kind) ==
  /\ Running
  /\ floorOver' = floorOver \union {kind}
  /\ UNCHANGED <<phase, queue, det, wpc, tries, poller, botapi, history>>

StrangerFloorOver ==
  /\ Running
  /\ strangerOk' = TRUE
  /\ UNCHANGED <<phase, sender, ppc, offset, primed, batch, botapi, history>>

TimePasses == DebounceOver \/ (\E kind \in Kinds : FloorOver(kind)) \/ StrangerFloorOver

-----------------------------------------------------------------------------
(***************************************************************************)
(* worker: the queue first, then a detection that is due.                  *)
(***************************************************************************)
TakeQueued ==
  /\ wpc = "idle" /\ Running
  /\ queue # <<>>
  /\ queue' = Tail(queue)
  /\ wpc' = "post" /\ tries' = 1
  /\ UNCHANGED <<phase, det, floorOver, poller, botapi, history>>

TakeDetection ==
  /\ wpc = "idle" /\ Running
  /\ queue = <<>> /\ det = "due"
  /\ det' = "none"
  /\ wpc' = "post" /\ tries' = 1
  /\ UNCHANGED <<phase, queue, floorOver, poller, botapi, history>>

\* tg_post fails when the transfer does or when the answer is not 200; the
\* message may have arrived all the same.
Post(ok) ==
  /\ wpc = "post"
  /\ wpc' = IF ok \/ tries = TG_ATTEMPTS THEN "idle" ELSE "nap"
  /\ tries' = IF wpc' = "idle" THEN 0 ELSE tries
  /\ UNCHANGED <<phase, queue, det, floorOver, poller, botapi, history>>

\* retry_nap, cut short by a shutdown, which gives the message up.
NapOver ==
  /\ wpc = "nap"
  /\ wpc' = IF Running THEN "post" ELSE "idle"
  /\ tries' = IF Running THEN tries + 1 ELSE 0
  /\ UNCHANGED <<phase, queue, det, floorOver, poller, botapi, history>>

Exit ==
  /\ wpc = "idle" /\ ~Running
  /\ wpc' = "exited"
  /\ UNCHANGED <<phase, queue, det, floorOver, tries, poller, botapi, history>>

Worker == TakeQueued \/ TakeDetection \/ (\E ok \in BOOLEAN : Post(ok)) \/ NapOver \/ Exit

-----------------------------------------------------------------------------
(***************************************************************************)
(* The Bot API.  A request with an offset confirms what lies before it and *)
(* returns the oldest of the rest; an offset of -1 returns the newest and  *)
(* forgets all before it.                                                  *)
(***************************************************************************)
UserSends ==
  /\ Running
  /\ sent < MaxUpdates
  /\ sent' = sent + 1
  /\ UNCHANGED <<phase, sender, poller, confirmed, history>>

Held(upto) == upto + 1 .. sent
ConfirmedBy(off) == Most(confirmed, off - 1)
ConfirmedByNewest == Most(confirmed, sent - 1)
Answer(off) == {u \in Held(ConfirmedBy(off)) : u <= ConfirmedBy(off) + Batch}

-----------------------------------------------------------------------------
(***************************************************************************)
(* poll_worker.  A request that fails may have reached the server.         *)
(***************************************************************************)
\* Mutant: a failed or empty priming call counts as success.
PrimedAnyway(off) == TRUE

PrimedBy(off) == off > 0

Prime(off, conf, from) ==
  /\ ppc = "prime"
  /\ ppc' = "poll"
  /\ offset' = off /\ primed' = PrimedBy(off)
  /\ confirmed' = conf
  /\ actsFrom' = from
  /\ UNCHANGED <<phase, sender, batch, strangerOk, sent, handled, backlog, glut, crashes>>

PrimeAnswered ==
  Prime(IF Held(confirmed) = {} THEN 0 ELSE sent + 1, ConfirmedByNewest, sent + 1)

PrimeFails ==
  \/ Prime(0, confirmed, 0)
  \/ Prime(0, ConfirmedByNewest, 0)

\* Mutant: the offset stays on the update.
OffsetNotPast(u) == Most(offset, u)
\* Mutant: the offset is advanced twice.
OffsetTooFar(u) == Most(offset, u + 2)

OffsetPast(u) == Most(offset, u + 1)

\* An answer that comes while a stop begins is worked through like this one:
\* nothing looks at poll_run in between, so it is this step and then Stop.
PollAnswered ==
  /\ ppc = "poll" /\ phase = "running"
  /\ primed
  /\ confirmed' = ConfirmedBy(offset)
  /\ batch' = Answer(offset)
  /\ ppc' = IF batch' = {} THEN "poll" ELSE "dispatch"
  /\ UNCHANGED <<phase, sender, offset, primed, strangerOk, sent, history>>

\* The first batch of an unprimed poller is only used for its offset.
BacklogAnswered ==
  /\ ppc = "poll" /\ phase = "running"
  /\ ~primed
  /\ LET stale == Answer(offset) IN
     /\ offset' = IF stale = {} THEN offset ELSE OffsetPast(LastOf(stale))
     /\ glut' = (stale # {} /\ LastOf(stale) < backlog)
  /\ primed' = TRUE
  /\ confirmed' = ConfirmedBy(offset)
  /\ actsFrom' = Most(offset', confirmed' + 1)
  /\ UNCHANGED <<phase, sender, ppc, batch, strangerOk, sent, handled, backlog, crashes>>

\* Mutant: the loop is left instead of continued.
LeaveLoop == "exited"

\* poll_nap, then the next request.
AfterFailure == "poll"

\* The request arrived or not (which changes nothing); no answer came back.
PollFails ==
  /\ ppc = "poll" /\ phase = "running"
  /\ ppc' = AfterFailure
  /\ confirmed' = ConfirmedBy(offset)
  /\ UNCHANGED <<phase, sender, offset, primed, batch, strangerOk, sent, history>>

\* Mutant: replies may take the slots of the alerts.
ReplyRoomAll == Len(queue) < TGQ_CAP

ReplyRoom == Len(queue) < TGQ_CAP - RESERVED_FOR_ALERTS

\* tg_enqueue_reply drops the reply when the queue is busy.
EnqueueReply == queue' = IF ReplyRoom THEN Append(queue, "reply") ELSE queue

\* handle_message: a stranger is told at most once per TG_UNAUTH_FLOOR, a
\* command is answered with one reply (a preview within its cooldown and an
\* unknown command too), chatter is ignored.
Handle(from) ==
  CASE from = "stranger" -> /\ IF strangerOk THEN EnqueueReply ELSE UNCHANGED queue
                            /\ strangerOk' = FALSE
    [] from = "command" -> EnqueueReply /\ UNCHANGED strangerOk
    [] from = "chatter" -> UNCHANGED <<queue, strangerOk>>

\* process_updates works through the batch also when a stop has begun.
Dispatch(from) ==
  /\ ppc = "dispatch"
  /\ LET u == First(batch) IN
     /\ handled' = [handled EXCEPT ![u] = @ + 1]
     /\ offset' = OffsetPast(u)
     /\ batch' = batch \ {u}
  /\ ppc' = IF batch' = {} THEN "poll" ELSE "dispatch"
  /\ Handle(from)
  /\ UNCHANGED <<phase, det, floorOver, wpc, tries, primed, botapi, backlog, actsFrom, glut, crashes>>

\* Mutant: the loop does not look at poll_run.
NeverTold == FALSE

PollerTold == phase # "running"

\* poll_run is false: the long poll is aborted and the thread ends.
PollerExits ==
  /\ ppc = "poll" /\ PollerTold
  /\ ppc' = "exited" /\ offset' = 0 /\ primed' = FALSE
  /\ UNCHANGED <<phase, sender, batch, strangerOk, botapi, history>>

Answered == PollAnswered \/ BacklogAnswered
DispatchAny == \E from \in {"stranger", "command", "chatter"} : Dispatch(from)
Poller == PrimeAnswered \/ PrimeFails \/ Answered \/ PollFails \/ DispatchAny \/ PollerExits

-----------------------------------------------------------------------------
(***************************************************************************)
(* telegram_stop: the poller is joined before the worker is told.          *)
(***************************************************************************)
Stop ==
  /\ phase = "running"
  /\ phase' = "pollstop"
  /\ UNCHANGED <<sender, poller, botapi, history>>

\* Mutant: the poller is not joined.
PollerLeft == TRUE

PollerGone == ppc = "exited"

PollerJoined ==
  /\ phase = "pollstop"
  /\ PollerGone
  /\ phase' = "stopping"
  /\ UNCHANGED <<sender, poller, botapi, history>>

\* The worker is joined, and what is left is freed.
Drain ==
  /\ phase = "stopping"
  /\ wpc = "exited"
  /\ phase' = "stopped"
  /\ queue' = <<>> /\ det' = "none"
  /\ UNCHANGED <<floorOver, wpc, tries, poller, botapi, history>>

\* The process dies, also in the middle of telegram_stop, and is started again:
\* only the Bot API remembers.
Crash ==
  /\ phase # "stopped"
  /\ phase' = "running"
  /\ crashes < MaxCrashes
  /\ crashes' = crashes + 1
  /\ queue' = <<>> /\ det' = "none" /\ floorOver' = Kinds
  /\ wpc' = "idle" /\ tries' = 0
  /\ ppc' = "prime" /\ offset' = 0 /\ primed' = FALSE /\ batch' = NoBatch
  /\ strangerOk' = TRUE
  /\ backlog' = sent /\ actsFrom' = 0 /\ glut' = FALSE
  /\ UNCHANGED <<botapi, handled>>

\* telegram_start; the poller's thread or its buffers may be missing.
Init ==
  /\ phase = "running"
  /\ queue = <<>> /\ det = "none" /\ floorOver = Kinds
  /\ wpc = "idle" /\ tries = 0
  /\ ppc \in {"prime", "exited"} /\ offset = 0 /\ primed = FALSE /\ batch = NoBatch
  /\ strangerOk = TRUE
  /\ sent = 0 /\ confirmed = 0
  /\ handled = [u \in Updates |-> 0]
  /\ backlog = 0 /\ actsFrom = 0 /\ glut = FALSE
  /\ crashes = 0

Next ==
  \/ \E due \in {"pending", "due"} : NotifyDetection(due)
  \/ \E kind \in Kinds : NotifyEvent(kind)
  \/ TimePasses
  \/ Worker
  \/ UserSends
  \/ Poller
  \/ Stop \/ PollerJoined \/ Drain
  \/ Crash

\* The threads run, every request ends, and one of those that are repeated is
\* answered in the end.
Fairness ==
  /\ WF_vars(Worker)
  /\ WF_vars(PrimeAnswered \/ PrimeFails)
  /\ WF_vars(DispatchAny) /\ WF_vars(PollerExits)
  /\ SF_vars(Answered)
  /\ WF_vars(PollerJoined) /\ WF_vars(Drain)

Spec == Init /\ [][Next]_vars /\ Fairness

-----------------------------------------------------------------------------
(***************************************************************************)
(* Properties.                                                             *)
(***************************************************************************)
\* Every variable has its type; the queue never outgrows its ring, and the Bot
\* API never forgets an update before it was sent.
TypeOK ==
  /\ phase \in {"running", "pollstop", "stopping", "stopped"}
  /\ queue \in Seq({"alert", "reply"}) /\ Len(queue) <= TGQ_CAP
  /\ det \in {"none", "pending", "due"} /\ floorOver \subseteq Kinds
  /\ wpc \in {"idle", "post", "nap", "exited"} /\ tries \in 0 .. TG_ATTEMPTS
  /\ ppc \in {"prime", "poll", "dispatch", "exited"}
  /\ offset \in 0 .. MaxUpdates + 1 /\ primed \in BOOLEAN
  /\ batch \subseteq Updates /\ strangerOk \in BOOLEAN
  /\ sent \in 0 .. MaxUpdates /\ confirmed \in 0 .. sent
  /\ handled \in [Updates -> Nat]
  /\ backlog \in 0 .. sent /\ actsFrom \in 0 .. sent + 1 /\ glut \in BOOLEAN
  /\ crashes \in 0 .. MaxCrashes

\* "Two queue slots are held back for alerts ... Alerts always win"
\* (telegram.c:566-570): when an alert finds the queue full, at least that
\* many alerts are already in it, whatever replies were asked for.
AlertsKeepRoom ==
  Len(queue) >= TGQ_CAP =>
    Cardinality({i \in DOMAIN queue : queue[i] = "alert"}) >= RESERVED_FOR_ALERTS

\* No update is acted on twice: not after a lost answer, nor after a crash in
\* the middle of a batch whose updates were not yet confirmed.
AtMostOnce == \A u \in Updates : handled[u] <= 1

\* Updates are acted on in the order they were sent, and none a second time,
\* however answers are lost and wherever in a batch the daemon crashes: the
\* answers in the chat follow the questions.
HandledInOrder ==
  [][\A u \in Updates : handled'[u] > handled[u] =>
       \A v \in Updates : v >= u => handled[v] = 0]_vars

\* A command that was sent before the poller started is not answered "as
\* though it had just arrived" (telegram.c:995-997), unless the priming call
\* failed and a whole batch did not reach the end of the backlog.
StaleSkipped ==
  [][\A u \in Updates : handled'[u] > handled[u] => u > backlog \/ glut]_vars

\* A poller that has found the end of the backlog moves past no later update,
\* and lets Telegram forget none, before it has acted on it: "The offset advances
\* only past updates we have finished with" (telegram.c:990-991), whatever is lost.
ActsOnAll ==
  primed => \A u \in Updates :
              actsFrom <= u /\ (u < offset \/ u <= confirmed) => handled[u] > 0

\* "... so a crash mid-batch replays them rather than losing them"
\* (telegram.c:991-992): what an answer brought is acted on, by this process or the
\* next, unless the daemon is stopped.  It is not: the priming call of the next
\* process (telegram.c:1050) makes Telegram forget the rest of the batch.
ReplayedAfterCrash == \A u \in Updates : u \in batch ~> handled[u] > 0 \/ phase # "running"

\* "If priming failed, the first batch back is whatever Telegram had queued --
\* consume it for its offset only" (telegram.c:1090-1091): no update is dropped as
\* stale that was sent after the priming call was answered.  One is, when that
\* answer was empty: the offset stays 0, which counts as failed (telegram.c:1063).
FreshNotDropped ==
  [][ppc = "poll" /\ ~primed /\ primed' =>
       \A u \in Updates : actsFrom \in 1 .. u => offset' <= u]_vars

\* After telegram_stop nothing is queued or pending: no reply slips in behind
\* the drain ("could leave a message allocated after the free",
\* telegram.c:433-436), and no thread is left.
StoppedIsEmpty ==
  phase = "stopped" => queue = <<>> /\ det = "none" /\ wpc = "exited" /\ ppc = "exited"

\* A command that waits for a primed poller is acted on, unless the daemon
\* crashes or stops first.
CommandHandled ==
  \A u \in Updates :
    primed /\ offset <= u /\ u \in Held(confirmed)
      ~> handled[u] > 0 \/ ~primed \/ phase # "running"

\* telegram_stop returns, in whatever state the two threads are, unless the
\* process dies (and is started again) first.
StopCompletes == phase = "pollstop" ~> phase \in {"stopped", "running"}

-----------------------------------------------------------------------------
(***************************************************************************)
(* The inductive invariant behind the safety properties.                   *)
(***************************************************************************)
\* Who has left, in which phase.
ThreadsLeave ==
  /\ wpc = "exited" => phase \in {"stopping", "stopped"}
  /\ phase \in {"stopping", "stopped"} => ppc = "exited"
  /\ phase = "stopped" => queue = <<>> /\ det = "none" /\ wpc = "exited"

RetriesLeft == wpc = "nap" => tries < TG_ATTEMPTS

Positions(q, class) == {i \in DOMAIN q : q[i] = class}

RepliesBounded == Cardinality(Positions(queue, "reply")) <= TGQ_CAP - RESERVED_FOR_ALERTS

\* A poller that is not primed asks for everything, and none asks for more
\* than one past the newest update.
OffsetKnown ==
  /\ offset <= sent + 1
  /\ ~primed => offset = 0
  /\ ppc = "dispatch" => primed
  /\ primed => glut \/ offset > backlog \/ confirmed >= backlog

\* A batch is a run of updates that are neither handled nor confirmed, and
\* newer than the backlog.
BatchFresh ==
  /\ \E a \in 1 .. MaxUpdates + 1, b \in 0 .. sent : batch = a .. b
  /\ batch # {} <=> ppc = "dispatch"
  /\ \A u \in batch :
       /\ offset <= u /\ confirmed < u /\ u <= confirmed + Batch
       /\ handled[u] = 0
       /\ u > backlog \/ glut

\* What was handled lies within one batch of the confirmed updates: that is
\* as much as an unprimed poller drops.
HandledBehind ==
  \A u \in Updates :
    /\ handled[u] <= 1
    /\ handled[u] > 0 => /\ u <= sent /\ u <= confirmed + Batch
                         /\ primed => u < offset \/ u <= confirmed

\* No update that is to be acted on is passed over.
PassedOver(u) == primed /\ actsFrom <= u /\ handled[u] = 0

NonePassedOver ==
  /\ \A u \in Updates : u <= confirmed \/ u < offset => ~PassedOver(u)
  /\ \A v \in batch : \A u \in 1 .. v - 1 : u \in batch \/ ~PassedOver(u)

IInv ==
  /\ TypeOK /\ ThreadsLeave /\ RetriesLeft /\ RepliesBounded
  /\ OffsetKnown /\ BatchFresh /\ HandledBehind /\ NonePassedOver
=============================================================================
