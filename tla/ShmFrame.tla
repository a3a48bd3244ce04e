------------------------------ MODULE ShmFrame ------------------------------
(***************************************************************************)
(* The shared-memory frame transport: one writer (the detector,            *)
(* vision/shmframe.py) and any number of readers (threads of the C daemon, *)
(* shmframe.c) over a double buffer of seqlock slots.                      *)
(*                                                                         *)
(* A frame is a number: its CLOCK_MONOTONIC capture time, which grows from *)
(* frame to frame and over restarts of the detector.  A slot holds its     *)
(* sequence number and two parts, the header fields (`head`) and the       *)
(* detection list with the JPEG (`body`); each part is the number of the   *)
(* frame whose bytes it holds, so that a torn slot is head # body.  Every  *)
(* access to shared memory that the code makes separately is a step.       *)
(***************************************************************************)
EXTENDS Integers

CONSTANTS
  Readers,      \* the reading threads of the daemon
  MaxAttempts,  \* read_slot's retries (8 in the code)
  MaxFrames,    \* bound: frames the detector publishes
  MaxCrashes    \* bound: restarts of the detector and of the daemon

ASSUME ShmAssumption ==
  /\ MaxAttempts \in Nat \ {0}
  /\ MaxFrames \in Nat
  /\ MaxCrashes \in Nat

VARIABLES
  seg,      \* how far shmframe_open came: "absent", "magic", "ready"
  active,   \* index of the newest completed slot, NoSlot before the first
  slot,     \* slot[i].seq, .head, .body
  frame,    \* the frame the detector captured last
  total,    \* frames_total
  lastReal, \* last_real_ts, 0 before the first real frame
  wpc,      \* the detector inside publish(), or "down"
  wslot,    \* ShmWriter._slot
  wseq,     \* ShmWriter._seq
  pc,       \* each reader inside last_ts/read_slot
  rd,       \* each reader's locals
  seen,     \* a polling reader's last_seen_ts / last_ts, NeverPolls for the others
  crashes,  \* restarts so far
  newest,   \* history: the frame published last
  sealed    \* history: the frames whose slot was marked complete

shm == <<seg, active, slot, total, lastReal>>
writer == <<frame, wpc, wslot, wseq, newest, sealed>>
locals == <<pc, rd, seen>>
vars == <<shm, writer, locals, crashes>>

Slots == {0, 1}
NoSlot == 2     \* the code stores (uint32_t)-1 and tests idx >= NSLOTS
Odd(n) == n % 2 = 1

\* A reader's locals: the slot it loaded, s1, the copied parts, the attempt.
\* `floor` and `exposed` are history: the frame that was published last when
\* `active` was loaded, and whether a restarted detector began to reuse the
\* slot's sequence numbers during the read.
NoRead == [idx |-> 0, s1 |-> 0, head |-> 0, body |-> 0, tries |-> 0,
           floor |-> 0, exposed |-> FALSE]

Holding(r) == pc[r] \in {"head", "body", "check"}

(***************************************************************************)
(* The segment: shmframe_open(true) of a segment that has no magic yet.    *)
(* The detector attaches as soon as it sees the magic; the daemon starts   *)
(* its readers after the whole of shmframe_open.                           *)
(***************************************************************************)
WriteMagic ==
  /\ seg = "absent"
  /\ seg' = "magic"
  /\ UNCHANGED <<active, slot, total, lastReal, writer, locals, crashes>>

MarkUnpublished ==
  /\ seg = "magic"
  /\ seg' = "ready"
  /\ active' = NoSlot
  /\ UNCHANGED <<slot, total, lastReal, writer, locals, crashes>>

(***************************************************************************)
(* The detector: ShmWriter.__init__ and ShmWriter.publish.                 *)
(***************************************************************************)
target == 1 - wslot     \* "write into the slot nobody is reading"

\* Mutant: a new detector continues from the sequence numbers it finds, odd
\* after a crash in the middle of a write.
AttachResumesSeq ==
  /\ wpc = "down"
  /\ seg # "absent"
  /\ wpc' = "idle"
  /\ wslot' = 0
  /\ wseq' = [i \in Slots |-> slot[i].seq]
  /\ UNCHANGED <<shm, frame, newest, sealed, locals, crashes>>

Attach ==
  /\ wpc = "down"
  /\ seg # "absent"
  /\ wpc' = "idle"
  /\ wslot' = 0
  /\ wseq' = [i \in Slots |-> 0]
  /\ UNCHANGED <<shm, frame, newest, sealed, locals, crashes>>

\* Readers that hold a sequence number of slot i which the detector is about
\* to overwrite with one that does not follow it.
Expose(i) ==
  rd' = [r \in Readers |->
           IF Holding(r) /\ rd[r].idx = i /\ slot[i].seq # wseq[i]
           THEN [rd[r] EXCEPT !.exposed = TRUE]
           ELSE rd[r]]

BeginWrite ==
  /\ wpc = "idle"
  /\ frame < MaxFrames
  /\ frame' = frame + 1
  /\ wseq' = [wseq EXCEPT ![target] = @ + 1]
  /\ slot' = [slot EXCEPT ![target].seq = wseq[target] + 1]
  /\ Expose(target)
  /\ wpc' = "head"
  /\ UNCHANGED <<seg, active, total, lastReal, wslot, newest, sealed, pc, seen, crashes>>

\* Mutant: last_real_ts is stored with the other header fields.
WriteHeadAndRealTs ==
  /\ wpc = "head"
  /\ slot' = [slot EXCEPT ![target].head = frame]
  /\ lastReal' = frame
  /\ wpc' = "body"
  /\ UNCHANGED <<seg, active, total, frame, wslot, wseq, newest, sealed, locals, crashes>>

WriteHead ==
  /\ wpc = "head"
  /\ slot' = [slot EXCEPT ![target].head = frame]
  /\ wpc' = "body"
  /\ UNCHANGED <<seg, active, total, lastReal, frame, wslot, wseq, newest, sealed, locals, crashes>>

WriteBody ==
  /\ wpc = "body"
  /\ slot' = [slot EXCEPT ![target].body = frame]
  /\ wpc' = "seal"
  /\ UNCHANGED <<seg, active, total, lastReal, frame, wslot, wseq, newest, sealed, locals, crashes>>

Seal ==
  /\ wpc = "seal"
  /\ wseq' = [wseq EXCEPT ![target] = @ + 1]
  /\ slot' = [slot EXCEPT ![target].seq = wseq[target] + 1]
  /\ sealed' = sealed \union {frame}
  /\ wpc' = "flip"
  /\ UNCHANGED <<seg, active, total, lastReal, frame, wslot, newest, locals, crashes>>

\* Mutant: the flip names the slot that was published before.
FlipToOldSlot ==
  /\ wpc = "flip"
  /\ active' = wslot
  /\ wslot' = target
  /\ newest' = frame
  /\ wpc' = "account"
  /\ UNCHANGED <<seg, slot, total, lastReal, frame, wseq, sealed, locals, crashes>>

Flip ==
  /\ wpc = "flip"
  /\ active' = target
  /\ wslot' = target
  /\ newest' = frame
  /\ wpc' = "account"
  /\ UNCHANGED <<seg, slot, total, lastReal, frame, wseq, sealed, locals, crashes>>

\* frames_total, then last_real_ts unless the frame is a placeholder.
Account(synthetic) ==
  /\ wpc = "account"
  /\ total' = total + 1
  /\ lastReal' = IF synthetic THEN lastReal ELSE frame
  /\ wpc' = "idle"
  /\ UNCHANGED <<seg, active, slot, frame, wslot, wseq, newest, sealed, locals, crashes>>

\* The detector dies anywhere in publish(); systemd starts it again (Attach).
Crash ==
  /\ wpc # "down"
  /\ crashes < MaxCrashes
  /\ frame < MaxFrames
  /\ wpc' = "down"
  /\ crashes' = crashes + 1
  /\ UNCHANGED <<shm, frame, wslot, wseq, newest, sealed, locals>>

(***************************************************************************)
(* A reader: shmframe_last_ts as detect_loop and mjpeg_cb poll it, then    *)
(* shmframe_read.                                                          *)
(***************************************************************************)
Goto(r, label) == pc' = [pc EXCEPT ![r] = label]

\* The detection thread and the MJPEG handler poll shmframe_last_ts before
\* they read; the API and Telegram's preview do not and keep no timestamp.
NeverPolls == -1
NewReaders == [Readers -> {0, NeverPolls}]

\* Mutant: shmframe_last_ts without the idx >= NSLOTS test.
PollUnpublished(r) ==
  /\ seen[r] # NeverPolls
  /\ pc[r] = "idle"
  /\ seg = "ready"
  /\ rd' = [rd EXCEPT ![r].idx = active]
  /\ Goto(r, "poll")
  /\ UNCHANGED <<shm, writer, seen, crashes>>

Poll(r) ==
  /\ seen[r] # NeverPolls
  /\ pc[r] = "idle"
  /\ seg = "ready"
  /\ active \in Slots
  /\ rd' = [rd EXCEPT ![r].idx = active]
  /\ Goto(r, "poll")
  /\ UNCHANGED <<shm, writer, seen, crashes>>

\* Mutant: the consumer reads whenever some frame is published.
PollTsUngated(r) ==
  /\ pc[r] = "poll"
  /\ Goto(r, "load")
  /\ rd' = [rd EXCEPT ![r] = NoRead]
  /\ UNCHANGED <<shm, writer, seen, crashes>>

PollTs(r) ==
  /\ pc[r] = "poll"
  /\ Goto(r, IF slot[rd[r].idx].head > seen[r] THEN "load" ELSE "idle")
  /\ rd' = [rd EXCEPT ![r] = NoRead]
  /\ UNCHANGED <<shm, writer, seen, crashes>>

StartRead(r) ==
  /\ seen[r] = NeverPolls
  /\ pc[r] = "idle"
  /\ seg = "ready"
  /\ Goto(r, "load")
  /\ UNCHANGED <<shm, writer, seen, rd, crashes>>

\* One more attempt, or give up and return false.
Retry(r) ==
  IF rd[r].tries + 1 < MaxAttempts
  THEN /\ Goto(r, "load")
       /\ rd' = [rd EXCEPT ![r] = [NoRead EXCEPT !.tries = rd[r].tries + 1]]
  ELSE /\ Goto(r, "idle")
       /\ rd' = [rd EXCEPT ![r] = NoRead]

LoadActive(r) ==
  /\ pc[r] = "load"
  /\ IF active \in Slots
     THEN /\ Goto(r, "seq")
          /\ rd' = [rd EXCEPT ![r].idx = active, ![r].floor = newest]
     ELSE /\ Goto(r, "idle")
          /\ rd' = [rd EXCEPT ![r] = NoRead]
  /\ UNCHANGED <<shm, writer, seen, crashes>>

LoadSeq(r) ==
  /\ pc[r] = "seq"
  /\ LET s == slot[rd[r].idx].seq
     IN IF Odd(s)
        THEN Retry(r)
        ELSE /\ Goto(r, "head")
             /\ rd' = [rd EXCEPT ![r].s1 = s]
  /\ UNCHANGED <<shm, writer, seen, crashes>>

CopyHead(r) ==
  /\ pc[r] = "head"
  /\ rd' = [rd EXCEPT ![r].head = slot[rd[r].idx].head]
  /\ Goto(r, "body")
  /\ UNCHANGED <<shm, writer, seen, crashes>>

CopyBody(r) ==
  /\ pc[r] = "body"
  /\ rd' = [rd EXCEPT ![r].body = slot[rd[r].idx].body]
  /\ Goto(r, "check")
  /\ UNCHANGED <<shm, writer, seen, crashes>>

\* Mutant: the copy is returned without the second look at the sequence.
CheckNothing(r) ==
  /\ pc[r] = "check"
  /\ Goto(r, "done")
  /\ UNCHANGED <<shm, writer, seen, rd, crashes>>

Check(r) ==
  /\ pc[r] = "check"
  /\ IF slot[rd[r].idx].seq = rd[r].s1
     THEN Goto(r, "done") /\ UNCHANGED rd
     ELSE Retry(r)
  /\ UNCHANGED <<shm, writer, seen, crashes>>

\* The caller has its snapshot; a polling caller remembers its timestamp.
Consume(r) ==
  /\ pc[r] = "done"
  /\ Goto(r, "idle")
  /\ rd' = [rd EXCEPT ![r] = NoRead]
  /\ seen' = [seen EXCEPT ![r] = IF @ = NeverPolls THEN @ ELSE rd[r].head]
  /\ UNCHANGED <<shm, writer, crashes>>

\* The daemon restarts: its threads and their locals are gone, the segment
\* and its contents stay (shmframe_open finds the magic and changes nothing,
\* also if the daemon died before it had marked the segment as unpublished).
DaemonRestart ==
  /\ seg # "absent"
  /\ crashes < MaxCrashes
  /\ crashes' = crashes + 1
  /\ seg' = "ready"
  /\ pc' = [r \in Readers |-> "idle"]
  /\ rd' = [r \in Readers |-> NoRead]
  /\ seen' \in NewReaders
  /\ UNCHANGED <<active, slot, total, lastReal, writer>>

-----------------------------------------------------------------------------
Init ==
  /\ seg = "absent"
  /\ active = 0
  /\ slot = [i \in Slots |-> [seq |-> 0, head |-> 0, body |-> 0]]
  /\ frame = 0 /\ total = 0 /\ lastReal = 0
  /\ wpc = "down" /\ wslot = 0 /\ wseq = [i \in Slots |-> 0]
  /\ pc = [r \in Readers |-> "idle"]
  /\ rd = [r \in Readers |-> NoRead]
  /\ seen \in NewReaders
  /\ crashes = 0
  /\ newest = 0
  /\ sealed = {}

Open == WriteMagic \/ MarkUnpublished

Detector ==
  \/ Attach \/ BeginWrite \/ WriteHead \/ WriteBody \/ Seal \/ Flip
  \/ \E synthetic \in BOOLEAN : Account(synthetic)

Reader(r) ==
  \/ Poll(r) \/ PollTs(r) \/ StartRead(r)
  \/ LoadActive(r) \/ LoadSeq(r) \/ CopyHead(r) \/ CopyBody(r) \/ Check(r)
  \/ Consume(r)

Next ==
  \/ Open
  \/ Detector
  \/ Crash
  \/ \E r \in Readers : Reader(r)
  \/ DaemonRestart

\* The detector process is scheduled and restarted (Restart=always), the
\* daemon finishes shmframe_open; nothing is assumed of the readers.
Spec == Init /\ [][Next]_vars /\ WF_vars(Open) /\ WF_vars(Detector)

-----------------------------------------------------------------------------
Labels == {"idle", "poll", "load", "seq", "head", "body", "check", "done"}

ReadLocals == [idx : Slots, s1 : Nat, head : Nat, body : Nat, tries : Nat,
               floor : Nat, exposed : BOOLEAN]

\* Every variable has its type.
TypeOK ==
  /\ seg \in {"absent", "magic", "ready"}
  /\ active \in Slots \union {NoSlot}
  /\ slot \in [Slots -> [seq : Nat, head : Nat, body : Nat]]
  /\ frame \in Nat /\ total \in Nat /\ lastReal \in Nat
  /\ wpc \in {"down", "idle", "head", "body", "seal", "flip", "account"}
  /\ wslot \in Slots
  /\ wseq \in [Slots -> Nat]
  /\ pc \in [Readers -> Labels]
  /\ rd \in [Readers -> ReadLocals]
  /\ seen \in [Readers -> Nat \union {NeverPolls}]
  /\ crashes \in Nat
  /\ newest \in Nat
  /\ sealed \subseteq Nat

\* Every snapshot shmframe_read returns is one frame, unless the detector was
\* restarted and began to reuse the slot's sequence numbers during the copy.
NoTornSnapshot ==
  \A r \in Readers :
    pc[r] = "done" /\ ~rd[r].exposed => rd[r].head = rd[r].body

\* What shmframe.h:19-20 promises without that exception: a reader that
\* observes a torn slot retries, so no returned snapshot is torn.
NeverTorn ==
  \A r \in Readers : pc[r] = "done" => rd[r].head = rd[r].body

\* A snapshot is at least as new as the frame that was published when the
\* reader loaded `active`, torn or not, whatever restarts in between.
FreshSnapshot ==
  \A r \in Readers :
    pc[r] = "done" => /\ rd[r].head >= rd[r].floor
                      /\ rd[r].body >= rd[r].floor

\* A polling consumer never steps back in time: the snapshot it acts on is no
\* older than the one it acted on before (it may be the same one again).
NeverOlder ==
  \A r \in Readers : pc[r] = "done" => rd[r].head >= seen[r]

\* What the confirmation window of detect_loop needs (events.c:76-77, "two
\* consecutive agreeing frames"): a frame is consumed at most once.
ConsumedOnce ==
  \A r \in Readers : pc[r] = "done" => rd[r].head > seen[r]

\* The watchdog's clock never runs ahead of what the readers can see: only a
\* published frame counts as real input.
RealInputIsPublished == lastReal <= newest

\* A detector that dies while it rewrites the active slot leaves it odd, and
\* every read fails; the next detector makes the active slot readable again.
ReadableAgain ==
  (active \in Slots /\ Odd(slot[active].seq))
    ~> (active \in Slots /\ ~Odd(slot[active].seq))

-----------------------------------------------------------------------------
(***************************************************************************)
(* The inductive invariant behind NoTornSnapshot and FreshSnapshot.        *)
(***************************************************************************)
Writing == wpc \in {"head", "body", "seal"}

\* The detector's private counters agree with the slot it is writing, and
\* what it has stored so far is the current frame.
WriterInv ==
  /\ wpc # "down" => \A i \in Slots : Odd(wseq[i]) <=> (Writing /\ i = target)
  /\ Writing => slot[target].seq = wseq[target]
  /\ wpc \in {"body", "seal", "flip"} => slot[target].head = frame
  /\ wpc \in {"seal", "flip"} => slot[target].body = frame

\* An even sequence number marks a slot that holds one whole frame.
SealedIsWhole == \A i \in Slots : ~Odd(slot[i].seq) => slot[i].head = slot[i].body

\* Frames only grow, and the active slot is never behind the published frame.
FramesOrdered ==
  /\ newest <= frame
  /\ \A i \in Slots : slot[i].head <= frame /\ slot[i].body <= frame
  /\ active \in Slots => newest <= slot[active].head /\ newest <= slot[active].body

\* What a reader's locals say of the slot it reads.
ReaderInv(r) ==
  LET L == rd[r]
      s == slot[L.idx]
  IN /\ pc[r] \in {"seq", "head", "body", "check"} => L.floor <= s.head /\ L.floor <= s.body
     /\ pc[r] \in {"body", "check", "done"} => L.floor <= L.head
     /\ pc[r] \in {"check", "done"} => L.floor <= L.body
     /\ Holding(r) /\ ~L.exposed => ~Odd(L.s1) /\ L.s1 <= s.seq
     /\ pc[r] \in {"body", "check"} /\ ~L.exposed /\ s.seq = L.s1 => L.head = s.head
     /\ pc[r] = "check" /\ ~L.exposed /\ s.seq = L.s1 => L.body = s.body
     /\ pc[r] = "done" /\ ~L.exposed => L.head = L.body

IInv ==
  /\ TypeOK
  /\ WriterInv
  /\ SealedIsWhole
  /\ FramesOrdered
  /\ \A r \in Readers : ReaderInv(r)

\* Behind RealInputIsPublished: the clock is set from the frame that was
\* published, not from the one that comes next.
ClockInv ==
  /\ lastReal <= newest
  /\ wpc = "account" => newest = frame

\* Behind NeverOlder: once a reader has passed the gate, or can pass it with a
\* slot that is not the active one any more, the active slot is not older than
\* what the reader saw before.
GateInv(r) ==
  LET L == rd[r]
  IN /\ seen[r] <= frame
     /\ active \in Slots /\ pc[r] = "poll" => L.idx = active \/ seen[r] <= slot[active].head
     /\ active \in Slots /\ pc[r] \in {"load", "seq", "head", "body", "check"}
          => seen[r] <= slot[active].head
     /\ pc[r] \in {"seq", "head"} => seen[r] <= slot[L.idx].head
     /\ pc[r] \in {"body", "check", "done"} => seen[r] <= L.head /\ L.head <= frame

GatesInv == ClockInv /\ \A r \in Readers : GateInv(r)

-----------------------------------------------------------------------------
(***************************************************************************)
(* The transport implements FrameChannel: a frame is begun when its slot   *)
(* becomes odd, complete when it is sealed and published when `active`     *)
(* flips; an attempt starts when `active` is loaded.                       *)
(***************************************************************************)
Stage == CASE Writing -> "writing" [] wpc = "flip" -> "complete" [] OTHER -> "idle"

Phase(r) ==
  CASE pc[r] \in {"seq", "head", "body", "check"} -> "reading"
    [] pc[r] = "done" -> "done"
    [] OTHER -> "idle"

Held(r) ==
  IF pc[r] = "done" THEN [head |-> rd[r].head, body |-> rd[r].body]
                    ELSE [head |-> 0, body |-> 0]

\* The slots whose next write does not follow the number that is in them: a
\* detector that has to start again will count from zero.
Numbers(i) == IF wpc = "down" THEN 0 ELSE wseq[i]
OutOfStep(i) == IF slot[i].seq # Numbers(i) THEN 1 ELSE 0

\* Until `active` is set, by the daemon or by a flip, it names a slot of zeros.
Prepared == active = NoSlot \/ newest > 0

Channel == INSTANCE FrameChannel WITH
             begun <- frame,
             stage <- Stage,
             completed <- sealed,
             prepared <- Prepared,
             unnoticed <- OutOfStep(0) + OutOfStep(1),
             phase <- [r \in Readers |-> Phase(r)],
             floor <- [r \in Readers |-> rd[r].floor],
             exposed <- {r \in Readers : rd[r].exposed},
             snap <- [r \in Readers |-> Held(r)]

\* Every step of the slots, the sequence numbers and the retries, and every
\* restart, is a step of the abstract channel or none.
ImplementsChannel == Channel!Spec

\* The invariant behind it: a slot with an even number holds a completed frame
\* or none yet.
WholeIsSealed ==
  /\ \A i \in Slots : ~Odd(slot[i].seq) => slot[i].head \in sealed \union {0}
  /\ Writing \/ wpc = "flip" => frame > 0

\* A reader outside an attempt has no floor and is not exposed; what it holds
\* of a frame was captured.
AttemptInv(r) ==
  /\ pc[r] \in {"idle", "poll", "load"} => rd[r].floor = 0
  /\ pc[r] \in {"idle", "poll", "load", "seq"} => ~rd[r].exposed
  /\ pc[r] \in {"body", "check"} => rd[r].head <= frame
  /\ pc[r] = "check" => rd[r].body <= frame

ChannelInv == WholeIsSealed /\ \A r \in Readers : AttemptInv(r)
=============================================================================
