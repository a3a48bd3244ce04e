--------------------------- MODULE ShmFrameRefines ---------------------------
(***************************************************************************)
(* The transport implements FrameChannel, for any set of readers, any      *)
(* number of attempts and any bound on frames and restarts.                *)
(***************************************************************************)
EXTENDS ShmFrameProofs

LEMMA ChannelInvInit == Init => ChannelInv
<1> SUFFICES ASSUME Init PROVE ChannelInv
  OBVIOUS
<1>1. WholeIsSealed
  BY DEF Init, WholeIsSealed, Writing
<1>2. \A r \in Readers : AttemptInv(r)
  BY DEF Init, AttemptInv, NoRead
<1> QED
  BY <1>1, <1>2 DEF ChannelInv

\* Readers do not touch what the detector and the segment are.
LEMMA WholeAside ==
  ASSUME WholeIsSealed, UNCHANGED <<slot, writer>>
  PROVE  WholeIsSealed'
BY DEF WholeIsSealed, writer, Writing

LEMMA AttemptAside ==
  ASSUME TypeOK, frame' \in Nat, NEW r \in Readers, AttemptInv(r), pc'[r] = pc[r], rd'[r] = rd[r],
         frame' >= frame
  PROVE  AttemptInv(r)'
<1>1. frame \in Nat /\ rd[r].head \in Nat /\ rd[r].body \in Nat
  BY ReaderTypes DEF TypeOK
<1> QED
  BY <1>1 DEF AttemptInv

\* The detector's steps and those that set up the segment.
LEMMA WholeStep ==
  ASSUME IInv, WholeIsSealed, Open \/ Detector \/ Crash
  PROVE  WholeIsSealed'
<1>0. /\ TypeOK /\ target \in Slots /\ target # wslot /\ wslot \in Slots
      /\ frame \in Nat
      /\ \A i \in Slots : slot[i].seq \in Nat /\ wseq[i] \in Nat
  BY TargetIsSlot, SlotTypes DEF IInv, TypeOK
<1>1. CASE Open
  BY <1>1, WholeAside DEF Open, WriteMagic, MarkUnpublished
<1>2. CASE Attach \/ Crash \/ \E b \in BOOLEAN : Account(b)
  <2>1. UNCHANGED <<slot, frame, sealed>> /\ wpc' \in {"idle", "down"}
    BY <1>2 DEF Attach, Crash, Account, shm
  <2> QED
    BY <2>1 DEF WholeIsSealed, Writing
<1>3. CASE BeginWrite
  <2>1. /\ frame' = frame + 1 /\ wpc = "idle" /\ sealed' = sealed
        /\ \A i \in Slots : slot'[i].head = slot[i].head
        /\ \A i \in Slots : i # target => slot'[i].seq = slot[i].seq
        /\ slot'[target].seq = wseq[target] + 1
    BY <1>0, <1>3 DEF BeginWrite, TypeOK
  <2>2. Odd(slot'[target].seq)
    BY <1>0, <2>1, Parity DEF IInv, WriterInv, Writing
  <2>3. frame' > 0
    BY <1>0, <2>1
  <2> QED
    BY <2>1, <2>2, <2>3 DEF WholeIsSealed
<1>4. CASE WriteHead \/ WriteBody
  <2>1. /\ UNCHANGED <<frame, sealed>> /\ Writing
        /\ \A i \in Slots : slot'[i].seq = slot[i].seq
        /\ \A i \in Slots : i # target => slot'[i].head = slot[i].head
    BY <1>0, <1>4 DEF WriteHead, WriteBody, Writing, TypeOK
  <2>2. Odd(slot[target].seq)
    BY <1>0, <2>1 DEF IInv, WriterInv, Writing
  <2> QED
    BY <2>1, <2>2 DEF WholeIsSealed
<1>5. CASE Seal
  <2>1. /\ frame' = frame /\ wpc = "seal"
        /\ sealed' = sealed \union {frame}
        /\ \A i \in Slots : slot'[i].head = slot[i].head
        /\ \A i \in Slots : i # target => slot'[i].seq = slot[i].seq
    BY <1>0, <1>5 DEF Seal, TypeOK
  <2>2. slot[target].head = frame
    BY <2>1 DEF IInv, WriterInv
  <2> QED
    BY <2>1, <2>2 DEF WholeIsSealed, Writing
<1>6. CASE Flip
  BY <1>6 DEF Flip, WholeIsSealed, Writing
<1> QED
  BY <1>1, <1>2, <1>3, <1>4, <1>5, <1>6 DEF Detector

\* What the detector does to a reader: nothing, or it exposes a reader that is
\* copying.
LEMMA DetectorLeaves ==
  ASSUME TypeOK, NEW r \in Readers, Open \/ Detector \/ Crash
  PROVE  /\ pc' = pc
         /\ frame' \in Nat /\ frame' >= frame
         /\ \/ rd'[r] = rd[r]
            \/ Holding(r) /\ rd'[r] = [rd[r] EXCEPT !.exposed = TRUE]
<1>1. frame \in Nat
  BY DEF TypeOK
<1>2. CASE BeginWrite
  BY <1>1, <1>2 DEF BeginWrite, Expose
<1>3. CASE ~BeginWrite
  <2>1. UNCHANGED <<pc, rd, frame>>
    BY <1>3 DEF Open, Detector, WriteMagic, MarkUnpublished, Attach, WriteHead, WriteBody, Seal, Flip,
                Account, Crash, locals, writer
  <2> QED
    BY <1>1, <2>1
<1> QED
  BY <1>2, <1>3

LEMMA AttemptStep ==
  ASSUME TypeOK, NEW r \in Readers, AttemptInv(r), Open \/ Detector \/ Crash
  PROVE  AttemptInv(r)'
<1>1. rd[r] \in ReadLocals /\ frame \in Nat /\ rd[r].head \in Nat /\ rd[r].body \in Nat
  BY ReaderTypes DEF TypeOK
<1>0. pc' = pc /\ frame' \in Nat /\ frame' >= frame
  BY DetectorLeaves
<1>2. CASE rd'[r] = rd[r]
  BY <1>0, <1>1, <1>2 DEF AttemptInv
<1>3. CASE Holding(r) /\ rd'[r] = [rd[r] EXCEPT !.exposed = TRUE]
  <2>1. rd'[r].floor = rd[r].floor /\ rd'[r].head = rd[r].head /\ rd'[r].body = rd[r].body
    BY <1>1, <1>3 DEF ReadLocals
  <2> QED
    BY <1>0, <1>1, <1>3, <2>1 DEF AttemptInv, Holding
<1> QED
  BY <1>2, <1>3, DetectorLeaves

LEMMA AttemptReaderStep ==
  ASSUME IInv, WholeIsSealed, NEW r \in Readers, AttemptInv(r), Reader(r)
  PROVE  AttemptInv(r)'
<1> DEFINE L == rd[r]
<1>0. /\ TypeOK /\ L \in ReadLocals /\ L.idx \in Slots /\ frame' = frame
      /\ pc \in [Readers -> Labels] /\ rd \in [Readers -> ReadLocals]
      /\ ~NoRead.exposed /\ NoRead.floor = 0 /\ NoRead \in ReadLocals
      /\ frame \in Nat /\ \A i \in Slots : slot[i].head <= frame /\ slot[i].body <= frame
  BY ReaderTypes, ReaderFrame, NoReadType DEF IInv, TypeOK, writer, NoRead, FramesOrdered
<1>1. ASSUME Retry(r) PROVE AttemptInv(r)'
  <2>1. rd'[r].floor = 0 /\ ~rd'[r].exposed /\ pc'[r] \in {"load", "idle"}
    BY <1>0, <1>1 DEF Retry, Goto, NoRead
  <2> QED
    BY <1>0, <1>1, <2>1 DEF AttemptInv
<1>2. CASE Poll(r)
  <2>1. pc[r] = "idle" /\ pc'[r] = "poll" /\ rd'[r] = [L EXCEPT !.idx = active]
    BY <1>0, <1>2 DEF Poll, Goto
  <2>2. rd'[r].floor = L.floor /\ rd'[r].exposed = L.exposed
    BY <1>0, <2>1 DEF ReadLocals
  <2> QED
    BY <1>0, <2>1, <2>2 DEF AttemptInv
<1>3. CASE PollTs(r) \/ Consume(r)
  <2>1. rd'[r] = NoRead /\ pc[r] # "idle" /\ pc'[r] \in {"load", "idle"}
    BY <1>0, <1>3 DEF PollTs, Consume, Goto
  <2> QED
    BY <1>0, <2>1 DEF AttemptInv
<1>4. CASE StartRead(r)
  BY <1>0, <1>4 DEF StartRead, Goto, AttemptInv
<1>5. CASE LoadActive(r)
  <2>1. CASE active \in Slots
    <3>1. pc[r] = "load" /\ pc'[r] = "seq" /\ rd'[r] = [L EXCEPT !.idx = active, !.floor = newest]
      BY <1>0, <1>5, <2>1 DEF LoadActive, Goto
    <3>2. rd'[r].exposed = L.exposed /\ rd'[r].floor = newest
      BY <1>0, <3>1 DEF ReadLocals
    <3> QED
      BY <1>0, <3>1, <3>2 DEF AttemptInv
  <2>2. CASE active \notin Slots
    BY <1>0, <1>5, <2>2 DEF LoadActive, Goto, AttemptInv
  <2> QED
    BY <2>1, <2>2
<1>6. CASE LoadSeq(r)
  <2> DEFINE s == slot[L.idx].seq
  <2>1. pc[r] = "seq"
    BY <1>6 DEF LoadSeq
  <2>2. CASE Odd(s)
    BY <1>1, <1>6, <2>2 DEF LoadSeq
  <2>3. CASE ~Odd(s)
    <3>1. pc'[r] = "head" /\ rd'[r] = [L EXCEPT !.s1 = s]
      BY <1>0, <1>6, <2>3 DEF LoadSeq, Goto
    <3>2. rd'[r].floor = L.floor
      BY <1>0, <3>1 DEF ReadLocals
    <3> QED
      BY <1>0, <2>1, <3>1, <3>2 DEF AttemptInv
  <2> QED
    BY <2>2, <2>3
<1>7. CASE CopyHead(r)
  <2>1. pc[r] = "head" /\ pc'[r] = "body" /\ rd'[r] = [L EXCEPT !.head = slot[L.idx].head]
    BY <1>0, <1>7 DEF CopyHead, Goto
  <2>2. rd'[r].floor = L.floor /\ rd'[r].head = slot[L.idx].head
    BY <1>0, <2>1 DEF ReadLocals
  <2> QED
    BY <1>0, <2>1, <2>2 DEF AttemptInv
<1>8. CASE CopyBody(r)
  <2>1. pc[r] = "body" /\ pc'[r] = "check" /\ rd'[r] = [L EXCEPT !.body = slot[L.idx].body]
    BY <1>0, <1>8 DEF CopyBody, Goto
  <2>2. rd'[r].floor = L.floor /\ rd'[r].head = L.head /\ rd'[r].body = slot[L.idx].body
    BY <1>0, <2>1 DEF ReadLocals
  <2> QED
    BY <1>0, <2>1, <2>2 DEF AttemptInv
<1>9. CASE Check(r)
  <2>1. pc[r] = "check"
    BY <1>9 DEF Check
  <2>2. CASE slot[L.idx].seq = L.s1
    BY <1>0, <1>9, <2>1, <2>2 DEF Check, Goto, AttemptInv
  <2>3. CASE slot[L.idx].seq # L.s1
    BY <1>1, <1>9, <2>3 DEF Check
  <2> QED
    BY <2>2, <2>3
<1> QED
  BY <1>2, <1>3, <1>4, <1>5, <1>6, <1>7, <1>8, <1>9 DEF Reader

LEMMA ChannelInvStep ==
  ASSUME IInv, ChannelInv, [Next]_vars
  PROVE  ChannelInv'
<1>0. TypeOK
  BY DEF IInv
<1>1. CASE Open \/ Detector \/ Crash
  BY <1>0, <1>1, WholeStep, AttemptStep DEF ChannelInv
<1>2. ASSUME NEW q \in Readers, Reader(q) PROVE ChannelInv'
  <2>1. UNCHANGED <<shm, writer, crashes>>
    BY <1>2, ReaderFrame DEF IInv
  <2>2. WholeIsSealed'
    BY <2>1, WholeAside DEF ChannelInv, shm
  <2>3. ASSUME NEW r \in Readers PROVE AttemptInv(r)'
    <3>1. CASE r = q
      BY <1>2, <3>1, AttemptReaderStep DEF ChannelInv
    <3>2. CASE r # q
      <4>1. pc'[r] = pc[r] /\ rd'[r] = rd[r] /\ frame' = frame /\ frame \in Nat
        BY <1>0, <1>2, <2>1, <3>2, ReaderFrame DEF IInv, writer, TypeOK
      <4> QED
        BY <1>0, <4>1, AttemptAside DEF ChannelInv
    <3> QED
      BY <3>1, <3>2
  <2> QED
    BY <2>2, <2>3 DEF ChannelInv
<1>3. CASE DaemonRestart
  <2>1. UNCHANGED <<slot, writer>> /\ \A r \in Readers : pc'[r] = "idle" /\ rd'[r] = NoRead
    BY <1>3 DEF DaemonRestart
  <2>2. WholeIsSealed'
    BY <2>1, WholeAside DEF ChannelInv
  <2>3. \A r \in Readers : AttemptInv(r)'
    BY <2>1 DEF AttemptInv, NoRead
  <2> QED
    BY <2>2, <2>3 DEF ChannelInv
<1>4. CASE UNCHANGED vars
  BY <1>4 DEF vars, shm, writer, locals, ChannelInv, WholeIsSealed, AttemptInv, Writing
<1> QED
  BY <1>1, <1>2, <1>3, <1>4 DEF Next

-----------------------------------------------------------------------------
(***************************************************************************)
(* Every step is one of the channel's or a stutter.                        *)
(***************************************************************************)
LEMMA ChannelInit == Init => Channel!Init
<1> SUFFICES ASSUME Init PROVE Channel!Init
  OBVIOUS
<1>1. /\ frame = 0 /\ Stage = "idle" /\ newest = 0 /\ sealed = {} /\ Prepared = FALSE
      /\ OutOfStep(0) + OutOfStep(1) = 0
  BY DEF Init, Stage, Writing, OutOfStep, Numbers, Slots, Prepared, NoSlot
<1>2. \A r \in Readers : /\ Phase(r) = "idle" /\ rd[r].floor = 0 /\ ~rd[r].exposed
                         /\ Held(r) = [head |-> 0, body |-> 0]
  BY DEF Init, Phase, Held, NoRead
<1> QED
  BY <1>1, <1>2 DEF Channel!Init, Channel!Nothing

\* The channel's view of a reader that stands still.
LEMMA ReadersShow ==
  ASSUME NEW r \in Readers, pc'[r] = pc[r], rd'[r] = rd[r]
  PROVE  Phase(r)' = Phase(r) /\ (rd[r].floor)' = rd[r].floor /\ Held(r)' = Held(r)
BY DEF Phase, Held

\* The channel's view of the readers while the detector exposes some of them.
LEMMA ViewsStay ==
  ASSUME TypeOK, Open \/ Detector \/ Crash
  PROVE  /\ [r \in Readers |-> Phase(r)]' = [r \in Readers |-> Phase(r)]
         /\ [r \in Readers |-> rd[r].floor]' = [r \in Readers |-> rd[r].floor]
         /\ [r \in Readers |-> Held(r)]' = [r \in Readers |-> Held(r)]
<1>1. ASSUME NEW r \in Readers
      PROVE  Phase(r)' = Phase(r) /\ (rd[r].floor)' = rd[r].floor /\ Held(r)' = Held(r)
  <2>1. CASE rd'[r] = rd[r]
    BY <2>1, DetectorLeaves, ReadersShow
  <2>2. CASE Holding(r) /\ rd'[r] = [rd[r] EXCEPT !.exposed = TRUE]
    <3>1. rd'[r].floor = rd[r].floor /\ pc' = pc /\ pc[r] # "done"
      BY <2>2, ReaderTypes, DetectorLeaves DEF ReadLocals, Holding
    <3> QED
      BY <3>1 DEF Phase, Held
  <2> QED
    BY <2>1, <2>2, DetectorLeaves
<1> QED
  BY <1>1

\* How many slots are out of step.
LEMMA OutOfStepCount ==
  /\ OutOfStep(0) \in {0, 1} /\ OutOfStep(1) \in {0, 1}
  /\ OutOfStep(0) + OutOfStep(1) \in 0 .. 2
<1>1. \A i \in Slots : OutOfStep(i) \in {0, 1}
  BY DEF OutOfStep
<1> QED
  BY <1>1 DEF Slots

LEMMA DetectorSimulates ==
  ASSUME IInv, ChannelInv, Open \/ Detector \/ Crash
  PROVE  [Channel!Next]_(Channel!vars)
<1> DEFINE exposed == {r \in Readers : rd[r].exposed}
           unnoticed == OutOfStep(0) + OutOfStep(1)
<1>0. /\ TypeOK /\ frame \in Nat /\ newest \in Nat
      /\ target \in Slots /\ target # wslot /\ wslot \in Slots
      /\ \A i \in Slots : slot[i].seq \in Nat /\ wseq[i] \in Nat
      /\ rd \in [Readers -> ReadLocals] /\ 0 \in Slots /\ 1 \in Slots
  BY TargetIsSlot, SlotTypes DEF IInv, TypeOK, Slots
<1>1. /\ [r \in Readers |-> Phase(r)]' = [r \in Readers |-> Phase(r)]
      /\ [r \in Readers |-> rd[r].floor]' = [r \in Readers |-> rd[r].floor]
      /\ [r \in Readers |-> Held(r)]' = [r \in Readers |-> Held(r)]
  BY <1>0, ViewsStay
<1>2. ASSUME ~BeginWrite PROVE exposed' = exposed
  <2>1. rd' = rd
    BY <1>2 DEF Open, Detector, WriteMagic, MarkUnpublished, Attach, WriteHead, WriteBody, Seal, Flip,
                Account, Crash, locals
  <2> QED
    BY <2>1
<1>8. ASSUME UNCHANGED <<active, newest>> PROVE Prepared' = Prepared
  BY <1>8 DEF Prepared
<1>3. CASE BeginWrite
  <2>0. Prepared' = Prepared
    BY <1>3, <1>8 DEF BeginWrite
  <2>1. /\ frame' = frame + 1 /\ wpc = "idle" /\ wpc' = "head" /\ UNCHANGED <<newest, sealed, pc>>
        /\ wslot' = wslot
        /\ \A i \in Slots : i # target => slot'[i].seq = slot[i].seq /\ wseq'[i] = wseq[i]
        /\ slot'[target].seq = wseq[target] + 1 /\ wseq'[target] = wseq[target] + 1
    BY <1>0, <1>3 DEF BeginWrite, TypeOK
  <2>2. Stage = "idle" /\ Stage' = "writing"
    BY <2>1 DEF Stage, Writing
  <2>3. \A i \in Slots : OutOfStep(i)' = IF i = target THEN 0 ELSE OutOfStep(i)
    <3> SUFFICES ASSUME NEW i \in Slots PROVE OutOfStep(i)' = IF i = target THEN 0 ELSE OutOfStep(i)
      OBVIOUS
    <3>1. Numbers(i)' = wseq'[i] /\ Numbers(i) = wseq[i]
      BY <2>1 DEF Numbers
    <3>2. slot'[i].seq = Numbers(i)' <=> (i = target \/ slot[i].seq = Numbers(i))
      BY <2>1, <3>1
    <3> QED
      BY <3>2 DEF OutOfStep
  <2>4. CASE slot[target].seq = wseq[target]
    <3>1. OutOfStep(target) = 0
      BY <2>1, <2>4 DEF OutOfStep, Numbers
    <3>2. OutOfStep(0)' = OutOfStep(0) /\ OutOfStep(1)' = OutOfStep(1)
      BY <1>0, <2>3, <3>1
    <3>3. \A r \in Readers : rd'[r] = rd[r]
      BY <1>3, <2>4 DEF BeginWrite, Expose
    <3>4. exposed' = exposed /\ unnoticed' = unnoticed
      BY <3>2, <3>3
    <3>5. Channel!Begin
      BY <1>1, <2>0, <2>1, <2>2, <3>4 DEF Channel!Begin
    <3> QED
      BY <3>5 DEF Channel!Next
  <2>5. CASE slot[target].seq # wseq[target]
    <3>1. OutOfStep(target) = 1
      BY <2>1, <2>5 DEF OutOfStep, Numbers
    <3>2. unnoticed > 0 /\ unnoticed' = unnoticed - 1
      <4>1. target = 0 \/ target = 1
        BY <1>0 DEF Slots
      <4> QED
        BY <1>0, <2>3, <3>1, <4>1, OutOfStepCount
    <3> DEFINE R == {r \in Readers : Holding(r) /\ rd[r].idx = target}
    <3>3. R \in SUBSET Channel!Reading
      BY DEF Channel!Reading, Phase, Holding
    <3>4. \A r \in Readers : rd'[r].exposed <=> rd[r].exposed \/ r \in R
      <4>1. \A r \in Readers : rd'[r] = IF r \in R THEN [rd[r] EXCEPT !.exposed = TRUE] ELSE rd[r]
        BY <1>3, <2>5 DEF BeginWrite, Expose
      <4>2. \A r \in Readers : [rd[r] EXCEPT !.exposed = TRUE].exposed = TRUE
        BY <1>0 DEF ReadLocals
      <4> QED
        BY <4>1, <4>2
    <3>5. exposed' = exposed \union R
      BY <3>4
    <3>6. Channel!Begin
      BY <1>1, <2>0, <2>1, <2>2, <3>2, <3>3, <3>5 DEF Channel!Begin
    <3> QED
      BY <3>6 DEF Channel!Next
  <2> QED
    BY <2>4, <2>5
<1>4. CASE Seal
  <2>1. /\ frame' = frame /\ wpc = "seal" /\ wpc' = "flip" /\ newest' = newest
        /\ sealed' = sealed \union {frame}
        /\ \A i \in Slots : i # target => slot'[i].seq = slot[i].seq /\ wseq'[i] = wseq[i]
        /\ slot'[target].seq = wseq[target] + 1 /\ wseq'[target] = wseq[target] + 1
    BY <1>0, <1>4 DEF Seal, TypeOK
  <2>2. slot[target].seq = wseq[target]
    BY <2>1 DEF IInv, WriterInv, Writing
  <2>3. \A i \in Slots : OutOfStep(i)' = OutOfStep(i)
    BY <2>1, <2>2 DEF OutOfStep, Numbers
  <2>4. exposed' = exposed /\ unnoticed' = unnoticed
    BY <1>0, <1>2, <2>1, <2>3 DEF BeginWrite
  <2>5. Stage = "writing" /\ Stage' = "complete"
    BY <2>1 DEF Stage, Writing
  <2>6. Prepared' = Prepared
    BY <1>4, <1>8 DEF Seal
  <2>7. Channel!Complete
    BY <1>1, <2>1, <2>4, <2>5, <2>6 DEF Channel!Complete, Channel!attempts
  <2> QED
    BY <2>7 DEF Channel!Next
<1>5. CASE Flip
  <2>1. /\ newest' = frame /\ wpc = "flip" /\ wpc' = "account" /\ UNCHANGED <<frame, sealed, slot, wseq>>
    BY <1>5 DEF Flip
  <2>2. exposed' = exposed /\ unnoticed' = unnoticed
    BY <1>2, <2>1 DEF BeginWrite, OutOfStep, Numbers
  <2>3. Stage = "complete" /\ Stage' = "idle"
    BY <2>1 DEF Stage, Writing
  <2>4. Prepared' = TRUE
    BY <2>1 DEF Prepared, ChannelInv, WholeIsSealed
  <2>5. Channel!Publish
    BY <1>1, <2>1, <2>2, <2>3, <2>4 DEF Channel!Publish, Channel!attempts
  <2> QED
    BY <2>5 DEF Channel!Next
<1>6. CASE Crash
  <2>1. wpc # "down" /\ wpc' = "down" /\ UNCHANGED <<frame, sealed, newest, rd>>
    BY <1>6 DEF Crash, locals
  <2>2. Stage' = "idle" /\ exposed' = exposed
    BY <2>1 DEF Stage, Writing
  <2>3. unnoticed' \in 0 .. 2
    <3>1. OutOfStep(0)' \in {0, 1} /\ OutOfStep(1)' \in {0, 1}
      BY DEF OutOfStep
    <3> QED
      BY <3>1
  <2>4. Prepared' = Prepared
    BY <1>6, <1>8 DEF Crash, shm
  <2>5. Channel!RestartWriter
    BY <1>1, <2>1, <2>2, <2>3, <2>4 DEF Channel!RestartWriter, Channel!attempts
  <2> QED
    BY <2>5 DEF Channel!Next
<1>7. CASE Open \/ Attach \/ WriteHead \/ WriteBody \/ \E b \in BOOLEAN : Account(b)
  <2>1. UNCHANGED <<frame, newest, sealed, rd>>
    BY <1>7 DEF Open, WriteMagic, MarkUnpublished, Attach, WriteHead, WriteBody, Account, writer, locals
  <2>2. Stage' = Stage
    BY <1>7 DEF Open, WriteMagic, MarkUnpublished, Attach, WriteHead, WriteBody, Account, writer,
                Stage, Writing
  <2>3. \A i \in Slots : slot'[i].seq = slot[i].seq /\ Numbers(i)' = Numbers(i)
    <3>1. CASE Attach
      BY <3>1 DEF Attach, shm, Numbers
    <3>2. CASE WriteHead \/ WriteBody
      BY <1>0, <3>2 DEF WriteHead, WriteBody, Numbers, TypeOK
    <3>3. CASE Open \/ \E b \in BOOLEAN : Account(b)
      BY <3>3 DEF Open, WriteMagic, MarkUnpublished, Account, Numbers, writer
    <3> QED
      BY <1>7, <3>1, <3>2, <3>3
  <2>4. \A i \in Slots : OutOfStep(i)' = OutOfStep(i)
    BY <2>3 DEF OutOfStep
  <2>5. exposed' = exposed /\ unnoticed' = unnoticed
    BY <1>0, <2>1, <2>4
  <2>6. CASE MarkUnpublished
    <3>1. Prepared' = TRUE
      BY <2>6 DEF MarkUnpublished, Prepared
    <3>2. Channel!Prepare
      BY <1>1, <2>1, <2>2, <2>5, <3>1 DEF Channel!Prepare, Channel!attempts
    <3> QED
      BY <3>2 DEF Channel!Next
  <2>7. CASE ~MarkUnpublished
    <3>1. Prepared' = Prepared
      BY <1>7, <1>8, <2>1, <2>7 DEF Open, WriteMagic, Attach, WriteHead, WriteBody, Account, shm
    <3> QED
      BY <1>1, <2>1, <2>2, <2>5, <3>1 DEF Channel!vars, Channel!frames, Channel!attempts
  <2> QED
    BY <2>6, <2>7
<1> QED
  BY <1>3, <1>4, <1>5, <1>6, <1>7 DEF Detector

\* A copy that passes the comparison: a whole and completed frame (or the zeros
\* of a slot never written), or two parts of frames begun, neither older than
\* what was published.
LEMMA CheckedIsComplete ==
  ASSUME IInv, ChannelInv, NEW r \in Readers, pc[r] = "check", slot[rd[r].idx].seq = rd[r].s1
  PROVE  /\ rd[r].head \in rd[r].floor .. frame /\ rd[r].body \in rd[r].floor .. frame
         /\ ~rd[r].exposed => /\ rd[r].head = rd[r].body
                              /\ rd[r].head \in sealed \union {0} /\ rd[r].head >= rd[r].floor
<1> DEFINE L == rd[r]
           s == slot[rd[r].idx]
<1>0. /\ L.idx \in Slots /\ L.head \in Nat /\ L.body \in Nat /\ L.floor \in Nat /\ frame \in Nat
  BY ReaderTypes DEF IInv, TypeOK
<1>1. /\ L.floor <= L.head /\ L.floor <= L.body /\ L.head <= frame /\ L.body <= frame
  BY DEF IInv, ReaderInv, ChannelInv, AttemptInv
<1>2. ASSUME ~L.exposed PROVE L.head = L.body /\ L.head \in sealed \union {0}
  <2>1. ~Odd(s.seq) /\ L.head = s.head /\ L.body = s.body
    BY <1>2 DEF IInv, ReaderInv, Holding
  <2>2. L.head = L.body
    BY <1>0, <2>1 DEF IInv, SealedIsWhole
  <2>3. L.head \in sealed \union {0}
    BY <1>0, <2>1 DEF ChannelInv, WholeIsSealed
  <2> QED
    BY <1>0, <1>1, <2>2, <2>3
<1> QED
  BY <1>0, <1>1, <1>2

\* The channel's view of one reader that moves, the others standing still.
LEMMA ViewsChange ==
  ASSUME NEW q \in Readers, \A r \in Readers : r # q => pc'[r] = pc[r] /\ rd'[r] = rd[r]
  PROVE  /\ [r \in Readers |-> Phase(r)]' = [[r \in Readers |-> Phase(r)] EXCEPT ![q] = Phase(q)']
         /\ [r \in Readers |-> rd[r].floor]' = [[r \in Readers |-> rd[r].floor] EXCEPT ![q] = (rd[q].floor)']
         /\ [r \in Readers |-> Held(r)]' = [[r \in Readers |-> Held(r)] EXCEPT ![q] = Held(q)']
         /\ rd'[q].exposed = rd[q].exposed
              => {r \in Readers : rd[r].exposed}' = {r \in Readers : rd[r].exposed}
         /\ ~rd'[q].exposed
              => {r \in Readers : rd[r].exposed}' = {r \in Readers : rd[r].exposed} \ {q}
<1>1. \A r \in Readers : r # q =>
        Phase(r)' = Phase(r) /\ (rd[r].floor)' = rd[r].floor /\ Held(r)' = Held(r)
  BY ReadersShow
<1>2. \A r \in Readers : r # q => rd'[r].exposed = rd[r].exposed
  OBVIOUS
<1>3. ASSUME rd'[q].exposed = rd[q].exposed
      PROVE  {r \in Readers : rd[r].exposed}' = {r \in Readers : rd[r].exposed}
  <2>1. \A r \in Readers : rd'[r].exposed = rd[r].exposed
    BY <1>2, <1>3
  <2> QED
    BY <2>1
<1>4. ASSUME ~rd'[q].exposed
      PROVE  {r \in Readers : rd[r].exposed}' = {r \in Readers : rd[r].exposed} \ {q}
  BY <1>2, <1>4
<1> QED
  BY <1>1, <1>3, <1>4

LEMMA ReaderSimulates ==
  ASSUME IInv, ChannelInv, NEW q \in Readers, Reader(q)
  PROVE  [Channel!Next]_(Channel!vars)
<1> DEFINE L == rd[q]
           phase == [r \in Readers |-> Phase(r)]
           floor == [r \in Readers |-> rd[r].floor]
           exposed == {r \in Readers : rd[r].exposed}
           snap == [r \in Readers |-> Held(r)]
<1>0. /\ TypeOK /\ L \in ReadLocals /\ L.idx \in Slots
      /\ pc \in [Readers -> Labels] /\ rd \in [Readers -> ReadLocals]
      /\ UNCHANGED <<frame, Stage, sealed, newest, active, Prepared>>
      /\ (OutOfStep(0) + OutOfStep(1))' = OutOfStep(0) + OutOfStep(1)
      /\ NoRead.floor = 0 /\ ~NoRead.exposed /\ AttemptInv(q)
  <2>1. UNCHANGED <<shm, writer>>
    BY ReaderFrame DEF IInv
  <2>2. /\ Stage' = Stage /\ Prepared' = Prepared
        /\ OutOfStep(0)' = OutOfStep(0) /\ OutOfStep(1)' = OutOfStep(1)
    BY <2>1 DEF Stage, Writing, OutOfStep, Numbers, Prepared, shm, writer
  <2> QED
    BY <2>1, <2>2, ReaderTypes DEF IInv, TypeOK, shm, writer, NoRead, ChannelInv
<1>1. /\ phase' = [phase EXCEPT ![q] = Phase(q)']
      /\ floor' = [floor EXCEPT ![q] = (rd[q].floor)']
      /\ snap' = [snap EXCEPT ![q] = Held(q)']
      /\ rd'[q].exposed = L.exposed => exposed' = exposed
      /\ ~rd'[q].exposed => exposed' = exposed \ {q}
  BY <1>0, ReaderFrame, ViewsChange
<1>2. phase[q] = Phase(q) /\ floor[q] = L.floor /\ snap[q] = Held(q) /\ (q \in exposed <=> L.exposed)
  OBVIOUS
<1> HIDE DEF phase, floor, snap, exposed
<1>3. ASSUME Phase(q)' = Phase(q), (rd[q].floor)' = rd[q].floor, Held(q)' = Held(q),
             rd'[q].exposed = L.exposed
      PROVE  UNCHANGED Channel!vars
  <2>1. phase' = phase /\ floor' = floor /\ snap' = snap /\ exposed' = exposed
    BY <1>1, <1>2, <1>3 DEF phase, floor, snap
  <2> QED
    BY <1>0, <2>1 DEF Channel!vars, Channel!frames, Channel!attempts, phase, floor, snap, exposed
<1>4. ASSUME pc'[q] \in {"idle", "load"}, rd'[q].floor = 0, ~rd'[q].exposed
      PROVE  Channel!Forget(q)
  <2>1. Phase(q)' = "idle" /\ Held(q)' = Channel!Nothing
    BY <1>4 DEF Phase, Held, Channel!Nothing
  <2>2. /\ phase' = [phase EXCEPT ![q] = "idle"] /\ floor' = [floor EXCEPT ![q] = 0]
        /\ snap' = [snap EXCEPT ![q] = Channel!Nothing] /\ exposed' = exposed \ {q}
    BY <1>1, <1>4, <2>1
  <2> QED
    BY <1>0, <2>2 DEF Channel!Forget, Channel!frames, phase, floor, snap, exposed
<1>5. ASSUME Retry(q), pc[q] \in {"seq", "check"} PROVE Channel!Next
  <2>1. pc'[q] \in {"idle", "load"} /\ rd'[q].floor = 0 /\ ~rd'[q].exposed
    BY <1>0, <1>5 DEF Retry, Goto, NoRead
  <2>2. phase[q] = "reading"
    BY <1>2, <1>5 DEF Phase
  <2>3. Channel!Fail(q)
    BY <1>4, <2>1, <2>2 DEF Channel!Fail, phase
  <2> QED
    BY <2>3 DEF Channel!Next
<1>6. CASE Poll(q) \/ PollTs(q) \/ StartRead(q)
  <2>1. pc[q] \in {"idle", "poll"} /\ pc'[q] \in {"poll", "load", "idle"}
    BY <1>0, <1>6 DEF Poll, PollTs, StartRead, Goto
  <2>2. (rd[q].floor)' = L.floor /\ rd'[q].exposed = L.exposed
    <3>1. L.floor = 0 /\ L.exposed = FALSE
      BY <1>0, <2>1 DEF AttemptInv, ReadLocals
    <3>2. rd'[q] \in {L, NoRead, [L EXCEPT !.idx = active]}
      BY <1>0, <1>6 DEF Poll, PollTs, StartRead
    <3>3. NoRead.exposed = FALSE
      BY DEF NoRead
    <3> QED
      BY <1>0, <3>1, <3>2, <3>3 DEF ReadLocals
  <2> QED
    BY <1>3, <2>1, <2>2 DEF Phase, Held
<1>7. CASE LoadActive(q)
  <2>0. pc[q] = "load" /\ L.floor = 0 /\ L.exposed = FALSE
    BY <1>0, <1>7 DEF LoadActive, AttemptInv, ReadLocals
  <2>1. CASE active \in Slots
    <3>1. pc'[q] = "seq" /\ rd'[q] = [L EXCEPT !.idx = active, !.floor = newest]
      BY <1>0, <1>7, <2>1 DEF LoadActive, Goto
    <3>2. (rd[q].floor)' = newest /\ rd'[q].exposed = L.exposed
      BY <1>0, <3>1 DEF ReadLocals
    <3>3. newest > 0 \/ ~Prepared
      BY <2>1 DEF Prepared, Slots, NoSlot
    <3>4. Phase(q) = "idle" /\ Phase(q)' = "reading" /\ Held(q)' = Held(q)
      BY <2>0, <3>1 DEF Phase, Held
    <3>5. /\ phase' = [phase EXCEPT ![q] = "reading"] /\ floor' = [floor EXCEPT ![q] = newest]
          /\ snap' = snap /\ exposed' = exposed
      BY <1>1, <1>2, <3>2, <3>4 DEF snap
    <3>6. Channel!Attempt(q)
      BY <1>0, <1>2, <3>3, <3>4, <3>5 DEF Channel!Attempt, Channel!frames, phase, floor, snap, exposed
    <3> QED
      BY <3>6 DEF Channel!Next
  <2>2. CASE active \notin Slots
    <3>1. pc'[q] = "idle" /\ rd'[q] = NoRead
      BY <1>0, <1>7, <2>2 DEF LoadActive, Goto
    <3>2. Phase(q)' = Phase(q) /\ Held(q)' = Held(q) /\ (rd[q].floor)' = L.floor
      BY <1>0, <2>0, <3>1 DEF Phase, Held
    <3>3. rd'[q].exposed = L.exposed
      <4>1. NoRead.exposed = FALSE
        BY DEF NoRead
      <4> QED
        BY <2>0, <3>1, <4>1
    <3> QED
      BY <1>3, <3>2, <3>3
  <2> QED
    BY <2>1, <2>2
<1>8. CASE LoadSeq(q)
  <2>0. pc[q] = "seq"
    BY <1>8 DEF LoadSeq
  <2>1. CASE Odd(slot[L.idx].seq)
    BY <1>5, <1>8, <2>0, <2>1 DEF LoadSeq
  <2>2. CASE ~Odd(slot[L.idx].seq)
    <3>1. pc'[q] = "head" /\ rd'[q] = [L EXCEPT !.s1 = slot[L.idx].seq]
      BY <1>0, <1>8, <2>2 DEF LoadSeq, Goto
    <3>2. (rd[q].floor)' = L.floor /\ rd'[q].exposed = L.exposed
      BY <1>0, <3>1 DEF ReadLocals
    <3> QED
      BY <1>3, <2>0, <3>1, <3>2 DEF Phase, Held
  <2> QED
    BY <2>1, <2>2
<1>9. CASE CopyHead(q) \/ CopyBody(q)
  <2>1. /\ pc[q] \in {"head", "body"} /\ pc'[q] \in {"body", "check"}
        /\ rd'[q] \in {[L EXCEPT !.head = slot[L.idx].head], [L EXCEPT !.body = slot[L.idx].body]}
    BY <1>0, <1>9 DEF CopyHead, CopyBody, Goto
  <2>2. (rd[q].floor)' = L.floor /\ rd'[q].exposed = L.exposed
    BY <1>0, <2>1 DEF ReadLocals
  <2> QED
    BY <1>3, <2>1, <2>2 DEF Phase, Held
<1>10. CASE Check(q)
  <2>0. pc[q] = "check"
    BY <1>10 DEF Check
  <2>1. CASE slot[L.idx].seq = L.s1
    <3>1. pc'[q] = "done" /\ rd' = rd
      BY <1>0, <1>10, <2>1 DEF Check, Goto
    <3>2. Phase(q) = "reading" /\ Phase(q)' = "done" /\ (rd[q].floor)' = L.floor
      BY <2>0, <3>1 DEF Phase
    <3>3. Held(q)' = [head |-> L.head, body |-> L.body]
      BY <3>1 DEF Held
    <3>4. /\ phase' = [phase EXCEPT ![q] = "done"] /\ floor' = floor /\ exposed' = exposed
          /\ snap' = [snap EXCEPT ![q] = [head |-> L.head, body |-> L.body]]
      BY <1>1, <1>2, <3>1, <3>2, <3>3 DEF floor
    <3>5. /\ L.head \in L.floor .. frame /\ L.body \in L.floor .. frame
          /\ ~L.exposed => L.head = L.body /\ L.head \in sealed \union {0} /\ L.head >= L.floor
      BY <2>0, <2>1, CheckedIsComplete
    <3>6. IF q \in exposed
          THEN \E h, b \in floor[q] .. frame : snap' = [snap EXCEPT ![q] = [head |-> h, body |-> b]]
          ELSE \E f \in sealed \union {0} : f >= floor[q] /\ snap' = [snap EXCEPT ![q] = Channel!Whole(f)]
      BY <1>2, <3>4, <3>5 DEF Channel!Whole
    <3>7. Channel!Return(q)
      BY <1>0, <1>2, <3>2, <3>4, <3>6 DEF Channel!Return, Channel!frames, phase, floor, snap, exposed
    <3> QED
      BY <3>7 DEF Channel!Next
  <2>2. CASE slot[L.idx].seq # L.s1
    BY <1>5, <1>10, <2>0, <2>2 DEF Check
  <2> QED
    BY <2>1, <2>2
<1>11. CASE Consume(q)
  <2>1. pc[q] = "done" /\ pc'[q] = "idle" /\ rd'[q] = NoRead
    BY <1>0, <1>11 DEF Consume, Goto
  <2>2. phase[q] = "done"
    BY <1>2, <2>1 DEF Phase
  <2>3. Channel!Release(q)
    BY <1>0, <1>4, <2>1, <2>2 DEF Channel!Release, phase
  <2> QED
    BY <2>3 DEF Channel!Next
<1> QED
  BY <1>6, <1>7, <1>8, <1>9, <1>10, <1>11 DEF Reader

LEMMA RestartSimulates ==
  ASSUME DaemonRestart
  PROVE  Channel!RestartReaders
<1>1. UNCHANGED <<active, slot, writer>> /\ \A r \in Readers : pc'[r] = "idle" /\ rd'[r] = NoRead
  BY DEF DaemonRestart
<1>2. /\ UNCHANGED <<frame, Stage, sealed, newest, Prepared>>
      /\ (OutOfStep(0) + OutOfStep(1))' = OutOfStep(0) + OutOfStep(1)
  BY <1>1 DEF writer, Stage, Writing, OutOfStep, Numbers, Prepared
<1>3. \A r \in Readers : /\ Phase(r)' = "idle" /\ (rd[r].floor)' = 0 /\ ~rd'[r].exposed
                         /\ Held(r)' = Channel!Nothing
  BY <1>1 DEF Phase, Held, NoRead, Channel!Nothing
<1> QED
  BY <1>2, <1>3 DEF Channel!RestartReaders, Channel!frames

\* Slots, sequence numbers and retries implement the channel, whatever
\* restarts: each step of the transport is one of the channel's, or none.
THEOREM TransportImplementsChannel == Spec => ImplementsChannel
<1>1. Init => Channel!Init /\ ChannelInv
  BY ChannelInit, ChannelInvInit
<1>2. IInv /\ ChannelInv /\ [Next]_vars => ChannelInv'
  BY ChannelInvStep
<1>3. IInv /\ ChannelInv /\ [Next]_vars => [Channel!Next]_(Channel!vars)
  <2> SUFFICES ASSUME IInv, ChannelInv, [Next]_vars
               PROVE  [Channel!Next]_(Channel!vars)
    OBVIOUS
  <2>1. CASE Open \/ Detector \/ Crash
    BY <2>1, DetectorSimulates
  <2>2. ASSUME NEW r \in Readers, Reader(r) PROVE [Channel!Next]_(Channel!vars)
    BY <2>2, ReaderSimulates
  <2>3. CASE DaemonRestart
    BY <2>3, RestartSimulates DEF Channel!Next
  <2>4. CASE UNCHANGED vars
    <3>1. /\ UNCHANGED <<frame, Stage, sealed, newest, rd, Prepared>>
          /\ (OutOfStep(0) + OutOfStep(1))' = OutOfStep(0) + OutOfStep(1)
          /\ \A r \in Readers : Phase(r)' = Phase(r) /\ (rd[r].floor)' = rd[r].floor /\ Held(r)' = Held(r)
      BY <2>4 DEF vars, shm, writer, locals, Stage, Writing, OutOfStep, Numbers, Prepared, Phase, Held
    <3> QED
      BY <3>1 DEF Channel!vars, Channel!frames, Channel!attempts
  <2> QED
    BY <2>1, <2>2, <2>3, <2>4 DEF Next
<1> QED
  BY <1>1, <1>2, <1>3, Invariance, PTL DEF Spec, ImplementsChannel, Channel!Spec
=============================================================================
