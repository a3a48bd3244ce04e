--------------------------- MODULE ShmFrameProofs ---------------------------
(***************************************************************************)
(* Proofs about ShmFrame, for any set of readers, any number of attempts   *)
(* and any bound on frames and restarts.                                   *)
(***************************************************************************)
EXTENDS ShmFrame, TLAPS

LEMMA Parity ==
  /\ ~Odd(0)
  /\ \A n \in Nat : Odd(n + 1) <=> ~Odd(n)
BY DEF Odd

\* The record types of a reader's locals and of a slot: what the updates of
\* one field keep.
LEMMA NoReadType == NoRead \in ReadLocals
BY DEF ReadLocals, NoRead, Slots

LEMMA LocalsFields ==
  ASSUME NEW L \in ReadLocals
  PROVE  /\ L.idx \in Slots
         /\ L.s1 \in Nat /\ L.head \in Nat /\ L.body \in Nat
         /\ L.tries \in Nat /\ L.floor \in Nat /\ L.exposed \in BOOLEAN
BY DEF ReadLocals

LEMMA LocalsUpdate ==
  ASSUME NEW L \in ReadLocals, NEW n \in Nat, NEW i \in Slots
  PROVE  /\ [L EXCEPT !.tries = n] \in ReadLocals
         /\ [L EXCEPT !.s1 = n] \in ReadLocals
         /\ [L EXCEPT !.idx = i] \in ReadLocals
         /\ [L EXCEPT !.idx = i, !.floor = n] \in ReadLocals
         /\ [L EXCEPT !.head = n] \in ReadLocals
         /\ [L EXCEPT !.body = n] \in ReadLocals
         /\ [L EXCEPT !.exposed = TRUE] \in ReadLocals
BY DEF ReadLocals

LEMMA TargetIsSlot == TypeOK => target \in Slots /\ target # wslot
BY DEF TypeOK, Slots, target

LEMMA RetryType ==
  ASSUME TypeOK, NEW r \in Readers, Retry(r)
  PROVE  rd' \in [Readers -> ReadLocals] /\ pc' \in [Readers -> Labels]
<1>1. rd[r].tries + 1 \in Nat
  BY LocalsFields DEF TypeOK
<1>2. [NoRead EXCEPT !.tries = rd[r].tries + 1] \in ReadLocals
  BY <1>1, NoReadType, LocalsUpdate, 0 \in Slots DEF Slots
<1>3. CASE rd[r].tries + 1 < MaxAttempts
  BY <1>2, <1>3 DEF Retry, Goto, TypeOK, Labels
<1>4. CASE ~(rd[r].tries + 1 < MaxAttempts)
  BY NoReadType, <1>4 DEF Retry, Goto, TypeOK, Labels
<1> QED
  BY <1>3, <1>4

\* A step of a reader keeps the types: it touches nothing but its own locals.
LEMMA ReaderType ==
  ASSUME TypeOK, NEW r \in Readers, Reader(r)
  PROVE  TypeOK'
<1>1. /\ rd' \in [Readers -> ReadLocals]
      /\ pc' \in [Readers -> Labels]
      /\ seen' \in [Readers -> Nat \union {NeverPolls}]
  <2>0. /\ rd[r] \in ReadLocals
        /\ \A s \in ReadLocals : [rd EXCEPT ![r] = s] \in [Readers -> ReadLocals]
        /\ \A l \in Labels : [pc EXCEPT ![r] = l] \in [Readers -> Labels]
        /\ rd[r].idx \in Slots
        /\ slot[rd[r].idx] \in [seq : Nat, head : Nat, body : Nat]
        /\ pc \in [Readers -> Labels]
        /\ rd \in [Readers -> ReadLocals]
        /\ seen \in [Readers -> Nat \union {NeverPolls}]
    BY LocalsFields DEF TypeOK
  <2>1. CASE Poll(r)
    BY <2>0, <2>1, LocalsUpdate DEF Poll, Goto, Labels
  <2>2. CASE PollTs(r)
    BY <2>0, <2>2, NoReadType DEF PollTs, Goto, Labels
  <2>3. CASE StartRead(r)
    BY <2>0, <2>3 DEF StartRead, Goto, Labels
  <2>4. CASE LoadActive(r)
    <3>1. CASE active \in Slots
      <4>1. [rd[r] EXCEPT !.idx = active, !.floor = newest] \in ReadLocals
        BY <2>0, <3>1, LocalsUpdate DEF TypeOK
      <4>2. rd' = [rd EXCEPT ![r] = [rd[r] EXCEPT !.idx = active, !.floor = newest]]
        BY <2>0, <2>4, <3>1 DEF LoadActive
      <4>3. pc' \in [Readers -> Labels] /\ seen' = seen
        BY <2>0, <2>4, <3>1 DEF LoadActive, Goto, Labels
      <4> QED
        BY <2>0, <4>1, <4>2, <4>3
    <3>2. CASE active \notin Slots
      BY <2>0, <2>4, <3>2, NoReadType DEF LoadActive, Goto, Labels
    <3> QED
      BY <3>1, <3>2
  <2>5. CASE LoadSeq(r)
    <3>1. CASE Odd(slot[rd[r].idx].seq)
      BY <2>0, <2>5, <3>1, RetryType DEF LoadSeq
    <3>2. CASE ~Odd(slot[rd[r].idx].seq)
      <4>1. [rd[r] EXCEPT !.s1 = slot[rd[r].idx].seq] \in ReadLocals
        BY <2>0, LocalsUpdate
      <4>2. rd' = [rd EXCEPT ![r] = [rd[r] EXCEPT !.s1 = slot[rd[r].idx].seq]]
        BY <2>0, <2>5, <3>2 DEF LoadSeq
      <4>3. pc' \in [Readers -> Labels] /\ seen' = seen
        BY <2>0, <2>5, <3>2 DEF LoadSeq, Goto, Labels
      <4> QED
        BY <2>0, <4>1, <4>2, <4>3
    <3> QED
      BY <3>1, <3>2
  <2>6. CASE CopyHead(r)
    BY <2>0, <2>6, LocalsUpdate DEF CopyHead, Goto, Labels
  <2>7. CASE CopyBody(r)
    BY <2>0, <2>7, LocalsUpdate DEF CopyBody, Goto, Labels
  <2>8. CASE Check(r)
    <3>1. CASE slot[rd[r].idx].seq = rd[r].s1
      BY <2>0, <2>8, <3>1 DEF Check, Goto, Labels
    <3>2. CASE slot[rd[r].idx].seq # rd[r].s1
      BY <2>0, <2>8, <3>2, RetryType DEF Check
    <3> QED
      BY <3>1, <3>2
  <2>9. CASE Consume(r)
    <3>1. rd[r].head \in Nat
      BY <2>0, LocalsFields
    <3> QED
      BY <2>0, <2>9, <3>1, NoReadType DEF Consume, Goto, Labels
  <2> QED
    BY <2>1, <2>2, <2>3, <2>4, <2>5, <2>6, <2>7, <2>8, <2>9 DEF Reader
<1>2. UNCHANGED <<shm, writer, crashes>>
  BY DEF Reader, Poll, PollTs, StartRead, LoadActive, LoadSeq, CopyHead, CopyBody, Check, Consume
<1> QED
  BY <1>1, <1>2 DEF TypeOK, shm, writer

\* Every variable keeps its type in every behaviour of the transport.
THEOREM TypeCorrect == Spec => []TypeOK
<1>1. Init => TypeOK
  BY NoReadType DEF Init, NewReaders, TypeOK, Labels, Slots, NoSlot
<1>2. TypeOK /\ [Next]_vars => TypeOK'
  <2> SUFFICES ASSUME TypeOK, [Next]_vars PROVE TypeOK'
    OBVIOUS
  <2> USE DEF TypeOK, shm, writer, locals
  <2>1. CASE WriteMagic
    BY <2>1 DEF WriteMagic
  <2>2. CASE MarkUnpublished
    BY <2>2 DEF MarkUnpublished
  <2>3. CASE Attach
    BY <2>3 DEF Attach, Slots
  <2>4. CASE BeginWrite
    <3>1. rd' \in [Readers -> ReadLocals]
      BY <2>4, LocalsUpdate, 0 \in Slots DEF BeginWrite, Expose, Slots
    <3>2. slot' \in [Slots -> [seq : Nat, head : Nat, body : Nat]] /\ wseq' \in [Slots -> Nat]
      BY <2>4, TargetIsSlot DEF BeginWrite
    <3> QED
      BY <2>4, <3>1, <3>2 DEF BeginWrite
  <2>5. CASE WriteHead
    BY <2>5, TargetIsSlot DEF WriteHead
  <2>6. CASE WriteBody
    BY <2>6, TargetIsSlot DEF WriteBody
  <2>7. CASE Seal
    BY <2>7, TargetIsSlot DEF Seal
  <2>8. CASE Flip
    BY <2>8, TargetIsSlot DEF Flip
  <2>9. ASSUME NEW synthetic \in BOOLEAN, Account(synthetic) PROVE TypeOK'
    BY <2>9 DEF Account
  <2>10. CASE Crash
    BY <2>10 DEF Crash
  <2>11. ASSUME NEW r \in Readers, Reader(r) PROVE TypeOK'
    BY <2>11, ReaderType
  <2>12. CASE DaemonRestart
    BY <2>12, NoReadType DEF DaemonRestart, NewReaders, Labels
  <2>13. CASE UNCHANGED vars
    BY <2>13 DEF vars
  <2> QED
    BY <2>1, <2>2, <2>3, <2>4, <2>5, <2>6, <2>7, <2>8, <2>9, <2>10, <2>11, <2>12, <2>13
       DEF Next, Open, Detector
<1> QED
  BY <1>1, <1>2, PTL DEF Spec

-----------------------------------------------------------------------------
(***************************************************************************)
(* The inductive invariant.                                                *)
(***************************************************************************)
LEMMA SlotTypes ==
  ASSUME TypeOK, NEW i \in Slots
  PROVE  slot[i].seq \in Nat /\ slot[i].head \in Nat /\ slot[i].body \in Nat
BY DEF TypeOK

LEMMA ReaderTypes ==
  ASSUME TypeOK, NEW r \in Readers
  PROVE  /\ rd[r] \in ReadLocals
         /\ rd[r].idx \in Slots
         /\ rd[r].s1 \in Nat /\ rd[r].head \in Nat /\ rd[r].body \in Nat
         /\ rd[r].tries \in Nat /\ rd[r].floor \in Nat /\ rd[r].exposed \in BOOLEAN
<1>1. rd[r] \in ReadLocals
  BY DEF TypeOK
<1> QED
  BY <1>1, LocalsFields

\* What a step of the detector may do to the slot that a reader copies: its
\* parts only get newer, a sequence number that the reader may still compare
\* only grows, and a sealed slot whose number stays is not touched.
LEMMA ReaderKeeps ==
  ASSUME TypeOK, TypeOK', NEW r \in Readers, ReaderInv(r),
         pc'[r] = pc[r],
         rd'[r].idx = rd[r].idx, rd'[r].s1 = rd[r].s1, rd'[r].head = rd[r].head,
         rd'[r].body = rd[r].body, rd'[r].floor = rd[r].floor,
         rd[r].exposed => rd'[r].exposed,
         slot[rd[r].idx].head <= slot'[rd[r].idx].head,
         slot[rd[r].idx].body <= slot'[rd[r].idx].body,
         Holding(r) /\ ~rd'[r].exposed => slot[rd[r].idx].seq <= slot'[rd[r].idx].seq,
         slot'[rd[r].idx].seq = slot[rd[r].idx].seq /\ ~Odd(slot[rd[r].idx].seq)
           => slot'[rd[r].idx].head = slot[rd[r].idx].head
              /\ slot'[rd[r].idx].body = slot[rd[r].idx].body
  PROVE  ReaderInv(r)'
<1> DEFINE L == rd[r]
           s == slot[rd[r].idx]
           t == slot'[rd[r].idx]
<1>1. /\ L.floor \in Nat /\ L.s1 \in Nat /\ L.head \in Nat /\ L.body \in Nat
      /\ s.seq \in Nat /\ s.head \in Nat /\ s.body \in Nat
      /\ t.seq \in Nat /\ t.head \in Nat /\ t.body \in Nat
  <2>1. rd[r].idx \in Slots
    BY ReaderTypes
  <2>2. t.seq \in Nat /\ t.head \in Nat /\ t.body \in Nat
    BY <2>1 DEF TypeOK
  <2> QED
    BY <2>1, <2>2, ReaderTypes, SlotTypes
<1>2. pc[r] \in {"seq", "head", "body", "check"} => L.floor <= t.head /\ L.floor <= t.body
  BY <1>1 DEF ReaderInv
<1>3. Holding(r) /\ ~rd'[r].exposed => ~Odd(L.s1) /\ L.s1 <= t.seq
  BY <1>1 DEF ReaderInv
<1>4. ASSUME Holding(r), ~rd'[r].exposed, t.seq = L.s1
      PROVE  s.seq = L.s1 /\ t.head = s.head /\ t.body = s.body
  <2>1. ~Odd(L.s1) /\ L.s1 <= s.seq /\ s.seq <= t.seq
    BY <1>4 DEF ReaderInv
  <2>2. s.seq = L.s1
    BY <1>1, <1>4, <2>1
  <2> QED
    BY <1>4, <2>1, <2>2
<1>5. pc[r] \in {"body", "check"} /\ ~rd'[r].exposed /\ t.seq = L.s1 => L.head = t.head
  BY <1>4 DEF ReaderInv, Holding
<1>6. pc[r] = "check" /\ ~rd'[r].exposed /\ t.seq = L.s1 => L.body = t.body
  BY <1>4 DEF ReaderInv, Holding
<1> QED
  BY <1>2, <1>3, <1>5, <1>6 DEF ReaderInv, Holding

\* A reader's step changes nothing but that reader's locals.
LEMMA ReaderFrame ==
  ASSUME TypeOK, NEW r \in Readers, Reader(r)
  PROVE  /\ UNCHANGED <<shm, writer, crashes>>
         /\ \A q \in Readers : q # r => pc'[q] = pc[q] /\ rd'[q] = rd[q]
<1> USE DEF TypeOK, Goto
<1>1. CASE Poll(r)
  BY <1>1 DEF Poll
<1>2. CASE PollTs(r)
  BY <1>2 DEF PollTs
<1>3. CASE StartRead(r)
  BY <1>3 DEF StartRead
<1>4. CASE LoadActive(r)
  BY <1>4 DEF LoadActive
<1>5. CASE LoadSeq(r)
  BY <1>5 DEF LoadSeq, Retry
<1>6. CASE CopyHead(r)
  BY <1>6 DEF CopyHead
<1>7. CASE CopyBody(r)
  BY <1>7 DEF CopyBody
<1>8. CASE Check(r)
  BY <1>8 DEF Check, Retry
<1>9. CASE Consume(r)
  BY <1>9 DEF Consume
<1> QED
  BY <1>1, <1>2, <1>3, <1>4, <1>5, <1>6, <1>7, <1>8, <1>9 DEF Reader

\* A reader that is not inside an attempt has nothing to show.
LEMMA ReaderOutside ==
  ASSUME NEW r \in Readers, pc'[r] \in {"idle", "poll", "load"}
  PROVE  ReaderInv(r)'
BY DEF ReaderInv, Holding

\* A reader's own step keeps what its locals say of its slot.
LEMMA ReaderStep ==
  ASSUME IInv, NEW r \in Readers, Reader(r)
  PROVE  ReaderInv(r)'
<1> DEFINE L == rd[r]
           s == slot[rd[r].idx]
<1>1. /\ TypeOK
      /\ ReaderInv(r)
      /\ L \in ReadLocals
      /\ L.idx \in Slots
      /\ L.floor \in Nat /\ L.s1 \in Nat /\ L.head \in Nat /\ L.body \in Nat
      /\ s.seq \in Nat /\ s.head \in Nat /\ s.body \in Nat
      /\ slot' = slot
      /\ pc \in [Readers -> Labels]
      /\ rd \in [Readers -> ReadLocals]
  BY ReaderTypes, SlotTypes, ReaderFrame DEF IInv, TypeOK, shm
<1>2. CASE Poll(r) \/ PollTs(r) \/ StartRead(r) \/ Consume(r)
  <2>1. pc'[r] \in {"idle", "poll", "load"}
    BY <1>1, <1>2 DEF Poll, PollTs, StartRead, Consume, Goto
  <2> QED
    BY <2>1, ReaderOutside
<1>3. ASSUME Retry(r) PROVE ReaderInv(r)'
  <2>1. pc'[r] \in {"idle", "load"}
    BY <1>1, <1>3 DEF Retry, Goto
  <2> QED
    BY <2>1, ReaderOutside
<1>4. CASE LoadActive(r)
  <2>1. CASE active \notin Slots
    BY <1>1, <1>4, <2>1, ReaderOutside DEF LoadActive, Goto
  <2>2. CASE active \in Slots
    <3>1. pc'[r] = "seq" /\ rd'[r] = [L EXCEPT !.idx = active, !.floor = newest]
      BY <1>1, <1>4, <2>2 DEF LoadActive, Goto
    <3>2. rd'[r].idx = active /\ rd'[r].floor = newest
      BY <1>1, <3>1 DEF ReadLocals
    <3>3. newest <= slot[active].head /\ newest <= slot[active].body
      BY <2>2 DEF IInv, FramesOrdered
    <3> QED
      BY <1>1, <3>1, <3>2, <3>3 DEF ReaderInv, Holding
  <2> QED
    BY <2>1, <2>2
<1>5. CASE LoadSeq(r)
  <2>1. CASE Odd(s.seq)
    BY <1>3, <1>5, <2>1 DEF LoadSeq
  <2>2. CASE ~Odd(s.seq)
    <3>1. pc[r] = "seq" /\ pc'[r] = "head" /\ rd'[r] = [L EXCEPT !.s1 = s.seq]
      BY <1>1, <1>5, <2>2 DEF LoadSeq, Goto
    <3>2. rd'[r].idx = L.idx /\ rd'[r].floor = L.floor /\ rd'[r].s1 = s.seq
      BY <1>1, <3>1 DEF ReadLocals
    <3> QED
      BY <1>1, <2>2, <3>1, <3>2 DEF ReaderInv, Holding
  <2> QED
    BY <2>1, <2>2
<1>6. CASE CopyHead(r)
  <2>1. pc[r] = "head" /\ pc'[r] = "body" /\ rd'[r] = [L EXCEPT !.head = s.head]
    BY <1>1, <1>6 DEF CopyHead, Goto
  <2>2. /\ rd'[r].idx = L.idx /\ rd'[r].floor = L.floor /\ rd'[r].s1 = L.s1
        /\ rd'[r].exposed = L.exposed /\ rd'[r].head = s.head
    BY <1>1, <2>1 DEF ReadLocals
  <2> QED
    BY <1>1, <2>1, <2>2 DEF ReaderInv, Holding
<1>7. CASE CopyBody(r)
  <2>1. pc[r] = "body" /\ pc'[r] = "check" /\ rd'[r] = [L EXCEPT !.body = s.body]
    BY <1>1, <1>7 DEF CopyBody, Goto
  <2>2. /\ rd'[r].idx = L.idx /\ rd'[r].floor = L.floor /\ rd'[r].s1 = L.s1
        /\ rd'[r].exposed = L.exposed /\ rd'[r].head = L.head /\ rd'[r].body = s.body
    BY <1>1, <2>1 DEF ReadLocals
  <2> QED
    BY <1>1, <2>1, <2>2 DEF ReaderInv, Holding
<1>8. CASE Check(r)
  <2>1. CASE s.seq # L.s1
    BY <1>3, <1>8, <2>1 DEF Check
  <2>2. CASE s.seq = L.s1
    <3>1. pc[r] = "check" /\ pc'[r] = "done" /\ rd' = rd
      BY <1>1, <1>8, <2>2 DEF Check, Goto
    <3>2. ~L.exposed => L.head = L.body
      \* The sequence number is even and still the slot's: the slot is whole,
      \* and both copies are its parts.
      BY <1>1, <2>2, <3>1 DEF ReaderInv, Holding, IInv, SealedIsWhole
    <3> QED
      BY <1>1, <3>1, <3>2 DEF ReaderInv, Holding
  <2> QED
    BY <2>1, <2>2
<1> QED
  BY <1>2, <1>4, <1>5, <1>6, <1>7, <1>8 DEF Reader

\* The detector's part of the invariant, and the readers' part against a step
\* that leaves the slots, or all but the slot being written, alone.
SlotsInv == WriterInv /\ SealedIsWhole /\ FramesOrdered

LEMMA ReadersAside ==
  ASSUME IInv, TypeOK', UNCHANGED <<slot, pc, rd>>
  PROVE  \A r \in Readers : ReaderInv(r)'
<1> TAKE r \in Readers
<1>1. /\ rd[r].idx \in Slots
      /\ slot[rd[r].idx].seq \in Nat /\ slot[rd[r].idx].head \in Nat /\ slot[rd[r].idx].body \in Nat
  BY ReaderTypes, SlotTypes DEF IInv
<1> QED
  BY <1>1, ReaderKeeps DEF IInv

LEMMA BeginWriteStep ==
  ASSUME IInv, TypeOK', BeginWrite
  PROVE  SlotsInv' /\ \A r \in Readers : ReaderInv(r)'
<1>0. TypeOK /\ target \in Slots /\ wseq[target] \in Nat /\ target' = target /\ frame \in Nat
  BY TargetIsSlot DEF IInv, TypeOK, BeginWrite, target
<1>1. /\ \A i \in Slots : /\ slot'[i].head = slot[i].head /\ slot'[i].body = slot[i].body
                          /\ i # target => slot'[i] = slot[i] /\ wseq'[i] = wseq[i]
      /\ slot'[target].seq = wseq[target] + 1
      /\ wseq'[target] = wseq[target] + 1
  BY <1>0 DEF BeginWrite, TypeOK
<1>2. Odd(wseq[target] + 1)
  BY <1>0, Parity DEF IInv, WriterInv, Writing, BeginWrite
<1>3. WriterInv'
  BY <1>0, <1>1, <1>2 DEF IInv, WriterInv, Writing, BeginWrite
<1>4. SealedIsWhole'
  BY <1>1, <1>2 DEF IInv, SealedIsWhole
<1>5. FramesOrdered'
  <2>1. frame' = frame + 1 /\ newest' = newest /\ active' = active
    BY DEF BeginWrite
  <2>2. newest \in Nat /\ \A i \in Slots : slot[i].head \in Nat /\ slot[i].body \in Nat
    BY <1>0, SlotTypes DEF TypeOK
  <2>3. newest <= frame + 1 /\ \A i \in Slots : slot[i].head <= frame + 1 /\ slot[i].body <= frame + 1
    BY <1>0, <2>2 DEF IInv, FramesOrdered
  <2> QED
    BY <1>1, <2>1, <2>3 DEF IInv, FramesOrdered
<1>6. ASSUME NEW r \in Readers PROVE ReaderInv(r)'
  <2> DEFINE i == rd[r].idx
  <2>1. /\ i \in Slots /\ rd[r] \in ReadLocals /\ pc'[r] = pc[r]
        /\ slot[i].seq \in Nat /\ slot[i].head \in Nat /\ slot[i].body \in Nat
    BY <1>0, ReaderTypes, SlotTypes DEF BeginWrite
  <2>2. CASE Holding(r) /\ i = target /\ slot[target].seq # wseq[target]
    <3>1. rd'[r] = [rd[r] EXCEPT !.exposed = TRUE]
      BY <2>2 DEF BeginWrite, Expose
    <3>2. /\ rd'[r].idx = rd[r].idx /\ rd'[r].s1 = rd[r].s1 /\ rd'[r].head = rd[r].head
          /\ rd'[r].body = rd[r].body /\ rd'[r].floor = rd[r].floor /\ rd'[r].exposed
      BY <2>1, <3>1 DEF ReadLocals
    <3>3. slot'[i].seq # slot[i].seq \/ Odd(slot[i].seq)
      BY <1>1, <1>2, <2>2
    <3> QED
      BY <1>0, <1>1, <2>1, <3>2, <3>3, ReaderKeeps DEF IInv
  <2>3. CASE ~(Holding(r) /\ i = target /\ slot[target].seq # wseq[target])
    <3>1. rd'[r] = rd[r]
      BY <2>3 DEF BeginWrite, Expose
    <3>2. Holding(r) => slot[i].seq <= slot'[i].seq
      BY <1>0, <1>1, <2>1, <2>3
    <3>3. slot'[i].head = slot[i].head /\ slot'[i].body = slot[i].body
      BY <1>1, <2>1
    <3> QED
      BY <1>0, <2>1, <3>1, <3>2, <3>3, ReaderKeeps DEF IInv
  <2> QED
    BY <2>2, <2>3
<1> QED
  BY <1>3, <1>4, <1>5, <1>6 DEF SlotsInv

\* The three stores into the slot that is odd, or becomes even.
LEMMA StoreStep ==
  ASSUME IInv, TypeOK', WriteHead \/ WriteBody \/ Seal
  PROVE  SlotsInv' /\ \A r \in Readers : ReaderInv(r)'
<1>0. /\ TypeOK /\ target \in Slots /\ target' = target /\ frame \in Nat
      /\ wseq[target] \in Nat
      /\ UNCHANGED <<active, frame, newest, pc, rd>>
      /\ \A i \in Slots : slot[i].seq \in Nat /\ slot[i].head \in Nat /\ slot[i].body \in Nat
  BY TargetIsSlot, SlotTypes DEF IInv, TypeOK, WriteHead, WriteBody, Seal, target, locals
<1>1. Odd(slot[target].seq) /\ slot[target].seq = wseq[target] /\ Odd(wseq[target])
  BY <1>0 DEF IInv, WriterInv, Writing, WriteHead, WriteBody, Seal
<1>2. \A i \in Slots : i # target => slot'[i] = slot[i] /\ wseq'[i] = wseq[i]
  BY <1>0 DEF WriteHead, WriteBody, Seal, TypeOK
<1>3. /\ slot'[target].head \in {slot[target].head, frame}
      /\ slot'[target].body \in {slot[target].body, frame}
      /\ slot'[target].seq \in {slot[target].seq, slot[target].seq + 1}
  BY <1>0, <1>1 DEF WriteHead, WriteBody, Seal, TypeOK
<1>4. WriterInv' /\ SealedIsWhole'
  <2>1. CASE WriteHead
    <3>1. /\ slot'[target].head = frame /\ slot'[target].seq = slot[target].seq
          /\ wseq' = wseq /\ wpc = "head" /\ wpc' = "body"
      BY <1>0, <2>1 DEF WriteHead, TypeOK
    <3> QED
      BY <1>0, <1>1, <1>2, <3>1 DEF IInv, WriterInv, Writing, SealedIsWhole
  <2>2. CASE WriteBody
    <3>1. /\ slot'[target].body = frame /\ slot'[target].head = slot[target].head
          /\ slot'[target].seq = slot[target].seq
          /\ wseq' = wseq /\ wpc = "body" /\ wpc' = "seal"
      BY <1>0, <2>2 DEF WriteBody, TypeOK
    <3> QED
      BY <1>0, <1>1, <1>2, <3>1 DEF IInv, WriterInv, Writing, SealedIsWhole
  <2>3. CASE Seal
    <3>1. /\ slot'[target].body = slot[target].body /\ slot'[target].head = slot[target].head
          /\ slot'[target].seq = wseq[target] + 1 /\ wseq'[target] = wseq[target] + 1
          /\ wpc = "seal" /\ wpc' = "flip"
      BY <1>0, <2>3 DEF Seal, TypeOK
    <3>2. ~Odd(wseq[target] + 1)
      BY <1>0, <1>1, Parity
    <3> QED
      BY <1>0, <1>1, <1>2, <3>1, <3>2 DEF IInv, WriterInv, Writing, SealedIsWhole
  <2> QED
    BY <2>1, <2>2, <2>3
<1>5. FramesOrdered'
  <2>1. newest \in Nat /\ newest <= frame
    BY DEF IInv, FramesOrdered, TypeOK
  <2>2. \A i \in Slots : slot'[i].head \in {slot[i].head, frame} /\ slot'[i].body \in {slot[i].body, frame}
    BY <1>2, <1>3
  <2> QED
    BY <1>0, <2>1, <2>2 DEF IInv, FramesOrdered
<1>6. ASSUME NEW r \in Readers PROVE ReaderInv(r)'
  <2> DEFINE i == rd[r].idx
  <2>1. i \in Slots
    BY <1>0, ReaderTypes
  <2>2. /\ slot[i].head <= slot'[i].head /\ slot[i].body <= slot'[i].body
        /\ slot[i].seq <= slot'[i].seq
    BY <1>0, <1>2, <1>3, <2>1 DEF IInv, FramesOrdered
  <2>3. ~Odd(slot[i].seq) => slot'[i] = slot[i]
    BY <1>1, <1>2, <2>1
  <2> QED
    BY <1>0, <2>2, <2>3, ReaderKeeps DEF IInv
<1> QED
  BY <1>4, <1>5, <1>6 DEF SlotsInv

\* Steps that touch no slot: attaching, the flip, the accounting, a crash.
LEMMA DetectorAsideStep ==
  ASSUME IInv, TypeOK',
         Attach \/ Flip \/ (\E synthetic \in BOOLEAN : Account(synthetic)) \/ Crash
  PROVE  SlotsInv' /\ \A r \in Readers : ReaderInv(r)'
<1>0. UNCHANGED <<slot, pc, rd, frame>> /\ TypeOK /\ target \in Slots /\ target # wslot
  BY TargetIsSlot DEF IInv, Attach, Flip, Account, Crash, shm, locals
<1>1. \A r \in Readers : ReaderInv(r)'
  BY <1>0, ReadersAside
<1>2. SealedIsWhole'
  BY <1>0 DEF IInv, SealedIsWhole
<1>3. WriterInv' /\ FramesOrdered'
  <2>1. CASE Attach
    <3>1. wseq' = [i \in Slots |-> 0] /\ wpc' = "idle" /\ active' = active /\ newest' = newest
      BY <2>1 DEF Attach, shm
    <3> QED
      BY <1>0, <3>1, Parity DEF IInv, WriterInv, Writing, FramesOrdered
  <2>2. CASE Flip
    <3>1. /\ active' = target /\ newest' = frame /\ wpc = "flip" /\ wpc' = "account"
          /\ wseq' = wseq
          /\ slot[target].head = frame /\ slot[target].body = frame
      BY <2>2 DEF Flip, IInv, WriterInv
    <3>2. frame <= frame
      BY DEF IInv, TypeOK
    <3> QED
      BY <1>0, <3>1, <3>2 DEF IInv, WriterInv, Writing, FramesOrdered
  <2>3. CASE \E synthetic \in BOOLEAN : Account(synthetic)
    BY <1>0, <2>3 DEF Account, IInv, WriterInv, Writing, FramesOrdered
  <2>4. CASE Crash
    BY <1>0, <2>4 DEF Crash, shm, IInv, WriterInv, Writing, FramesOrdered
  <2> QED
    BY <2>1, <2>2, <2>3, <2>4
<1> QED
  BY <1>1, <1>2, <1>3 DEF SlotsInv

LEMMA InvariantInit == Init => IInv
<1> SUFFICES ASSUME Init PROVE IInv
  OBVIOUS
<1>1. TypeOK
  BY NoReadType DEF Init, NewReaders, TypeOK, Labels, Slots, NoSlot
<1>2. WriterInv /\ SealedIsWhole /\ FramesOrdered
  BY DEF Init, WriterInv, Writing, SealedIsWhole, FramesOrdered, Slots
<1>3. \A r \in Readers : ReaderInv(r)
  BY DEF Init, ReaderInv, Holding
<1> QED
  BY <1>1, <1>2, <1>3 DEF IInv

LEMMA InvariantStep == IInv /\ TypeOK' /\ [Next]_vars => IInv'
<1> SUFFICES ASSUME IInv, TypeOK', [Next]_vars
             PROVE  SlotsInv' /\ \A r \in Readers : ReaderInv(r)'
  BY DEF IInv, SlotsInv
<1>1. CASE WriteMagic \/ MarkUnpublished
  <2>1. UNCHANGED <<slot, writer, pc, rd>> /\ (active' = active \/ active' = NoSlot)
    BY <1>1 DEF WriteMagic, MarkUnpublished, locals
  <2>2. \A r \in Readers : ReaderInv(r)'
    BY <2>1, ReadersAside
  <2> QED
    BY <2>1, <2>2 DEF IInv, SlotsInv, WriterInv, Writing, SealedIsWhole, FramesOrdered,
                      writer, NoSlot, Slots, target
<1>2. CASE BeginWrite
  BY <1>2, BeginWriteStep
<1>3. CASE WriteHead \/ WriteBody \/ Seal
  BY <1>3, StoreStep
<1>4. CASE Attach \/ Flip \/ (\E synthetic \in BOOLEAN : Account(synthetic)) \/ Crash
  BY <1>4, DetectorAsideStep
<1>5. ASSUME NEW q \in Readers, Reader(q)
      PROVE  SlotsInv' /\ \A r \in Readers : ReaderInv(r)'
  <2>1. TypeOK /\ UNCHANGED <<shm, writer>>
    BY <1>5, ReaderFrame DEF IInv
  <2>2. SlotsInv'
    BY <2>1 DEF IInv, SlotsInv, WriterInv, Writing, SealedIsWhole, FramesOrdered, shm, writer, target
  <2>3. ASSUME NEW r \in Readers PROVE ReaderInv(r)'
    <3>1. CASE r = q
      BY <1>5, <3>1, ReaderStep
    <3>2. CASE r # q
      BY <1>5, <2>1, <3>2, ReaderFrame DEF IInv, ReaderInv, Holding, shm
    <3> QED
      BY <3>1, <3>2
  <2> QED
    BY <2>2, <2>3
<1>6. CASE DaemonRestart
  <2>1. UNCHANGED <<active, slot, writer>> /\ \A r \in Readers : pc'[r] = "idle"
    BY <1>6 DEF DaemonRestart
  <2> QED
    BY <2>1, ReaderOutside DEF IInv, SlotsInv, WriterInv, Writing, SealedIsWhole, FramesOrdered,
                               writer, target
<1>7. CASE UNCHANGED vars
  BY <1>7 DEF vars, shm, writer, locals, IInv, SlotsInv, WriterInv, Writing, SealedIsWhole,
              FramesOrdered, ReaderInv, Holding, target
<1> QED
  BY <1>1, <1>2, <1>3, <1>4, <1>5, <1>6, <1>7 DEF Next, Open, Detector

THEOREM Invariance == Spec => []IInv
<1>1. Init => IInv
  BY InvariantInit
<1>2. IInv /\ TypeOK' /\ [Next]_vars => IInv'
  BY InvariantStep
<1> QED
  BY <1>1, <1>2, TypeCorrect, PTL DEF Spec

\* No reader is ever handed a torn frame, unless a restarted detector reused
\* the sequence numbers of its slot during the copy.
THEOREM SnapshotsAreWhole == Spec => []NoTornSnapshot
<1>1. IInv => NoTornSnapshot
  BY DEF IInv, ReaderInv, NoTornSnapshot
<1> QED
  BY <1>1, Invariance, PTL

\* No reader is ever handed a frame older than the one that was published when
\* it looked, whatever restarts in between.
THEOREM SnapshotsAreFresh == Spec => []FreshSnapshot
<1>1. IInv => FreshSnapshot
  <2> SUFFICES ASSUME IInv, NEW r \in Readers, pc[r] = "done"
               PROVE  rd[r].head >= rd[r].floor /\ rd[r].body >= rd[r].floor
    BY DEF FreshSnapshot
  <2>1. rd[r].floor <= rd[r].head /\ rd[r].floor <= rd[r].body
    BY DEF IInv, ReaderInv
  <2>2. rd[r].floor \in Nat /\ rd[r].head \in Nat /\ rd[r].body \in Nat
    BY ReaderTypes DEF IInv
  <2> QED
    BY <2>1, <2>2
<1> QED
  BY <1>1, Invariance, PTL

-----------------------------------------------------------------------------
(***************************************************************************)
(* The watchdog's clock and the gate of the polling readers.               *)
(***************************************************************************)
LEMMA ClockStep ==
  ASSUME IInv, ClockInv, [Next]_vars
  PROVE  ClockInv'
<1>0. lastReal \in Nat /\ newest \in Nat /\ frame \in Nat /\ newest <= frame
  BY DEF IInv, TypeOK, FramesOrdered
<1>1. CASE Flip
  BY <1>0, <1>1 DEF Flip, ClockInv
<1>2. ASSUME NEW synthetic \in BOOLEAN, Account(synthetic) PROVE ClockInv'
  BY <1>0, <1>2 DEF Account, ClockInv
<1>3. CASE BeginWrite \/ WriteHead \/ WriteBody \/ Seal \/ Attach \/ Crash
  BY <1>3 DEF BeginWrite, WriteHead, WriteBody, Seal, Attach, Crash, ClockInv, shm
<1>4. CASE WriteMagic \/ MarkUnpublished \/ DaemonRestart
  BY <1>4 DEF WriteMagic, MarkUnpublished, DaemonRestart, ClockInv, shm, writer
<1>5. ASSUME NEW r \in Readers, Reader(r) PROVE ClockInv'
  BY <1>5, ReaderFrame DEF IInv, ClockInv, shm, writer
<1>6. CASE UNCHANGED vars
  BY <1>6 DEF vars, ClockInv, shm, writer
<1> QED
  BY <1>1, <1>2, <1>3, <1>4, <1>5, <1>6 DEF Next, Open, Detector

\* What others do leaves the gate of a reader alone: slots only get newer, and
\* a slot that becomes active holds the newest frame.
LEMMA GateKeeps ==
  ASSUME TypeOK, TypeOK', NEW r \in Readers, GateInv(r),
         pc'[r] = pc[r], seen'[r] = seen[r],
         rd'[r].idx = rd[r].idx, rd'[r].head = rd[r].head,
         frame <= frame',
         \A i \in Slots : slot[i].head <= slot'[i].head,
         active' \in Slots => active' = active \/ frame <= slot'[active'].head
  PROVE  GateInv(r)'
<1>0. /\ rd[r].idx \in Slots /\ rd[r].head \in Nat
      /\ seen[r] \in Int /\ frame \in Nat /\ frame' \in Nat
      /\ \A i \in Slots : slot[i].head \in Nat /\ slot'[i].head \in Nat
  BY ReaderTypes DEF TypeOK, NeverPolls
<1>1. seen[r] <= frame'
  BY <1>0 DEF GateInv
<1>2. \A i \in Slots : seen[r] <= slot[i].head => seen[r] <= slot'[i].head
  BY <1>0
<1>3. ASSUME active' \in Slots, active' # active
      PROVE  seen[r] <= slot'[active'].head
  BY <1>0, <1>3 DEF GateInv
<1>4. active' \in Slots /\ pc[r] = "poll" => rd[r].idx = active' \/ seen[r] <= slot'[active'].head
  BY <1>2, <1>3 DEF GateInv
<1>5. active' \in Slots /\ pc[r] \in {"load", "seq", "head", "body", "check"}
        => seen[r] <= slot'[active'].head
  BY <1>2, <1>3 DEF GateInv
<1>6. pc[r] \in {"seq", "head"} => seen[r] <= slot'[rd[r].idx].head
  BY <1>0, <1>2 DEF GateInv
<1>7. pc[r] \in {"body", "check", "done"} => seen[r] <= rd[r].head /\ rd[r].head <= frame'
  BY <1>0 DEF GateInv
<1> QED
  BY <1>1, <1>4, <1>5, <1>6, <1>7 DEF GateInv

\* Steps that are not a reader's own.
LEMMA DetectorKeepsGates ==
  ASSUME IInv, TypeOK', NEW r \in Readers, GateInv(r), Open \/ Detector \/ Crash
  PROVE  GateInv(r)'
<1>0. /\ TypeOK /\ target \in Slots /\ frame \in Nat
      /\ \A i \in Slots : slot[i].head \in Nat /\ slot[i].head <= frame
  BY TargetIsSlot, SlotTypes DEF IInv, TypeOK, FramesOrdered
<1>1. CASE BeginWrite
  <2>1. \A i \in Slots : slot'[i].head = slot[i].head
    BY <1>0, <1>1 DEF BeginWrite, TypeOK
  <2>2. rd'[r].idx = rd[r].idx /\ rd'[r].head = rd[r].head
    <3>1. rd[r] \in ReadLocals
      BY <1>0, ReaderTypes
    <3>2. rd'[r] = rd[r] \/ rd'[r] = [rd[r] EXCEPT !.exposed = TRUE]
      BY <1>1 DEF BeginWrite, Expose
    <3> QED
      BY <3>1, <3>2 DEF ReadLocals
  <2>3. UNCHANGED <<active, pc, seen>> /\ frame' = frame + 1
    BY <1>1 DEF BeginWrite
  <2>4. frame <= frame' /\ \A i \in Slots : slot[i].head <= slot'[i].head
    BY <1>0, <2>1, <2>3
  <2> QED
    BY <1>0, <2>2, <2>3, <2>4, GateKeeps
<1>2. CASE WriteHead \/ WriteBody \/ Seal
  <2>1. \A i \in Slots : slot'[i].head \in {slot[i].head, frame}
    BY <1>0, <1>2 DEF WriteHead, WriteBody, Seal, TypeOK
  <2>2. UNCHANGED <<active, frame, pc, rd, seen>>
    BY <1>2 DEF WriteHead, WriteBody, Seal, locals
  <2>3. frame <= frame' /\ \A i \in Slots : slot[i].head <= slot'[i].head
    BY <1>0, <2>1, <2>2
  <2> QED
    BY <1>0, <2>2, <2>3, GateKeeps
<1>3. CASE Flip
  <2>1. active' = target /\ UNCHANGED <<slot, frame, pc, rd, seen>> /\ slot[target].head = frame
    BY <1>3 DEF Flip, locals, IInv, WriterInv
  <2>2. frame <= frame' /\ (\A i \in Slots : slot[i].head <= slot'[i].head) /\ frame <= slot'[active'].head
    BY <1>0, <2>1
  <2> QED
    BY <1>0, <2>1, <2>2, GateKeeps
<1>4. CASE Open \/ Attach \/ Crash \/ \E synthetic \in BOOLEAN : Account(synthetic)
  <2>1. UNCHANGED <<slot, frame, pc, rd, seen>> /\ (active' = active \/ active' = NoSlot)
    BY <1>4 DEF Open, WriteMagic, MarkUnpublished, Attach, Crash, Account, shm, writer, locals
  <2>2. frame <= frame' /\ (\A i \in Slots : slot[i].head <= slot'[i].head) /\ NoSlot \notin Slots
    BY <1>0, <2>1 DEF NoSlot, Slots
  <2> QED
    BY <1>0, <2>1, <2>2, GateKeeps
<1> QED
  BY <1>1, <1>2, <1>3, <1>4 DEF Detector

LEMMA SeenFrame ==
  ASSUME TypeOK, NEW q \in Readers, NEW r \in Readers, r # q, Reader(q)
  PROVE  seen'[r] = seen[r]
BY DEF Reader, Poll, PollTs, StartRead, LoadActive, LoadSeq, CopyHead, CopyBody, Check, Consume,
       locals, TypeOK

\* A reader's own step.
LEMMA GateStep ==
  ASSUME IInv, NEW r \in Readers, GateInv(r), Reader(r)
  PROVE  GateInv(r)'
<1> DEFINE L == rd[r]
           s == slot[rd[r].idx]
<1>1. /\ TypeOK
      /\ L \in ReadLocals /\ L.idx \in Slots /\ L.head \in Nat
      /\ s.head \in Nat /\ s.head <= frame
      /\ seen[r] \in Nat \union {NeverPolls} /\ seen[r] \in Int /\ frame \in Nat
      /\ UNCHANGED <<slot, active, frame>>
      /\ pc \in [Readers -> Labels]
      /\ rd \in [Readers -> ReadLocals]
      /\ seen \in [Readers -> Nat \union {NeverPolls}]
  BY ReaderTypes, SlotTypes, ReaderFrame DEF IInv, TypeOK, FramesOrdered, shm, writer, NeverPolls
<1>2. ASSUME Retry(r), seen' = seen, active \in Slots => seen[r] <= slot[active].head
      PROVE  GateInv(r)'
  <2>1. pc'[r] \in {"idle", "load"}
    BY <1>1, <1>2 DEF Retry, Goto
  <2> QED
    BY <1>1, <1>2, <2>1 DEF GateInv
<1>3. CASE Poll(r)
  <2>1. pc'[r] = "poll" /\ rd'[r] = [L EXCEPT !.idx = active] /\ seen' = seen
    BY <1>1, <1>3 DEF Poll, Goto
  <2>2. rd'[r].idx = active
    BY <1>1, <2>1 DEF ReadLocals
  <2> QED
    BY <1>1, <2>1, <2>2 DEF GateInv
<1>4. CASE PollTs(r)
  <2>1. pc[r] = "poll" /\ seen' = seen /\ pc'[r] \in {"load", "idle"}
    BY <1>1, <1>4 DEF PollTs, Goto
  <2>2. pc'[r] = "load" => s.head > seen[r]
    BY <1>1, <1>4 DEF PollTs, Goto
  <2>3. pc'[r] = "load" /\ active \in Slots => seen[r] <= slot[active].head
    BY <1>1, <2>1, <2>2 DEF GateInv
  <2> QED
    BY <1>1, <2>1, <2>3 DEF GateInv
<1>5. CASE StartRead(r)
  <2>1. seen[r] = NeverPolls /\ seen' = seen /\ pc'[r] = "load"
    BY <1>1, <1>5 DEF StartRead, Goto
  <2>2. seen[r] <= frame /\ \A i \in Slots : seen[r] <= slot[i].head
    BY <1>1, <2>1, SlotTypes DEF NeverPolls, IInv
  <2> QED
    BY <1>1, <2>1, <2>2 DEF GateInv
<1>6. CASE LoadActive(r)
  <2>1. CASE active \notin Slots
    <3>1. pc'[r] = "idle" /\ seen' = seen
      BY <1>1, <1>6, <2>1 DEF LoadActive, Goto
    <3> QED
      BY <1>1, <2>1, <3>1 DEF GateInv
  <2>2. CASE active \in Slots
    <3>1. /\ pc[r] = "load" /\ pc'[r] = "seq" /\ seen' = seen
          /\ rd'[r] = [L EXCEPT !.idx = active, !.floor = newest]
      BY <1>1, <1>6, <2>2 DEF LoadActive, Goto
    <3>2. rd'[r].idx = active
      BY <1>1, <3>1 DEF ReadLocals
    <3>3. seen[r] <= frame /\ seen[r] <= slot[active].head
      BY <2>2, <3>1 DEF GateInv
    <3>4. slot'[rd'[r].idx].head = slot[active].head /\ slot'[active'].head = slot[active].head
      BY <1>1, <3>2
    <3> QED
      BY <1>1, <3>1, <3>3, <3>4 DEF GateInv
  <2> QED
    BY <2>1, <2>2
<1>7. CASE LoadSeq(r)
  <2>1. CASE Odd(s.seq)
    BY <1>2, <1>7, <2>1 DEF LoadSeq, GateInv
  <2>2. CASE ~Odd(s.seq)
    <3>1. /\ pc[r] = "seq" /\ pc'[r] = "head" /\ seen' = seen
          /\ rd'[r] = [L EXCEPT !.s1 = s.seq]
      BY <1>1, <1>7, <2>2 DEF LoadSeq, Goto
    <3>2. rd'[r].idx = L.idx
      BY <1>1, <3>1 DEF ReadLocals
    <3>3. /\ seen[r] <= frame /\ seen[r] <= s.head
          /\ active \in Slots => seen[r] <= slot[active].head
      BY <3>1 DEF GateInv
    <3>4. slot'[rd'[r].idx].head = s.head
      BY <1>1, <3>2
    <3> QED
      BY <1>1, <3>1, <3>3, <3>4 DEF GateInv
  <2> QED
    BY <2>1, <2>2
<1>8. CASE CopyHead(r)
  <2>1. /\ pc[r] = "head" /\ pc'[r] = "body" /\ seen' = seen
        /\ rd'[r] = [L EXCEPT !.head = s.head]
    BY <1>1, <1>8 DEF CopyHead, Goto
  <2>2. rd'[r].head = s.head
    BY <1>1, <2>1 DEF ReadLocals
  <2> QED
    BY <1>1, <2>1, <2>2 DEF GateInv
<1>9. CASE CopyBody(r)
  <2>1. /\ pc[r] = "body" /\ pc'[r] = "check" /\ seen' = seen
        /\ rd'[r] = [L EXCEPT !.body = s.body]
    BY <1>1, <1>9 DEF CopyBody, Goto
  <2>2. rd'[r].head = L.head
    BY <1>1, <2>1 DEF ReadLocals
  <2> QED
    BY <1>1, <2>1, <2>2 DEF GateInv
<1>10. CASE Check(r)
  <2>1. CASE s.seq # L.s1
    BY <1>2, <1>10, <2>1 DEF Check, GateInv
  <2>2. CASE s.seq = L.s1
    <3>1. pc[r] = "check" /\ pc'[r] = "done" /\ rd' = rd /\ seen' = seen
      BY <1>1, <1>10, <2>2 DEF Check, Goto
    <3> QED
      BY <1>1, <3>1 DEF GateInv
  <2> QED
    BY <2>1, <2>2
<1>11. CASE Consume(r)
  <2>1. pc[r] = "done" /\ pc'[r] = "idle" /\ seen'[r] \in {seen[r], L.head}
    BY <1>1, <1>11 DEF Consume, Goto
  <2> QED
    BY <1>1, <2>1 DEF GateInv
<1> QED
  BY <1>3, <1>4, <1>5, <1>6, <1>7, <1>8, <1>9, <1>10, <1>11 DEF Reader

LEMMA GatesStep ==
  ASSUME IInv, TypeOK', GatesInv, [Next]_vars
  PROVE  GatesInv'
<1>1. ClockInv'
  BY ClockStep DEF GatesInv
<1>2. ASSUME NEW r \in Readers PROVE GateInv(r)'
  <2>0. GateInv(r) /\ TypeOK
    BY DEF GatesInv, IInv
  <2>1. CASE Open \/ Detector \/ Crash
    BY <2>0, <2>1, DetectorKeepsGates
  <2>2. ASSUME NEW q \in Readers, Reader(q) PROVE GateInv(r)'
    <3>1. CASE r = q
      BY <2>0, <2>2, <3>1, GateStep
    <3>2. CASE r # q
      BY <2>0, <2>2, <3>2, ReaderFrame, SeenFrame DEF GateInv, shm, writer
    <3> QED
      BY <3>1, <3>2
  <2>3. CASE DaemonRestart
    <3>1. pc'[r] = "idle" /\ seen'[r] \in {0, NeverPolls} /\ frame' = frame /\ frame \in Nat
      BY <2>0, <2>3 DEF DaemonRestart, NewReaders, writer, TypeOK
    <3> QED
      BY <3>1 DEF GateInv, NeverPolls
  <2>4. CASE UNCHANGED vars
    BY <2>0, <2>4 DEF vars, shm, writer, locals, GateInv
  <2> QED
    BY <2>1, <2>2, <2>3, <2>4 DEF Next
<1> QED
  BY <1>1, <1>2 DEF GatesInv

THEOREM GatesInvariance == Spec => []GatesInv
<1>1. Init => GatesInv
  <2> SUFFICES ASSUME Init, NEW r \in Readers PROVE GateInv(r)
    BY DEF Init, GatesInv, ClockInv
  <2>1. pc[r] = "idle" /\ seen[r] \in {0, NeverPolls} /\ frame = 0
    BY DEF Init, NewReaders
  <2> QED
    BY <2>1 DEF Init, GateInv, NeverPolls
<1>2. IInv /\ TypeOK' /\ GatesInv /\ [Next]_vars => GatesInv'
  BY GatesStep
<1> QED
  BY <1>1, <1>2, Invariance, TypeCorrect, PTL DEF Spec

\* The real-input clock that the watchdog reads is never ahead of the frames
\* that the readers can see.
THEOREM ClockIsBehind == Spec => []RealInputIsPublished
<1>1. GatesInv => RealInputIsPublished
  BY DEF GatesInv, ClockInv, RealInputIsPublished
<1> QED
  BY <1>1, GatesInvariance, PTL

\* No polling consumer is ever handed a frame older than the one before.
THEOREM ConsumersGoForward == Spec => []NeverOlder
<1>1. IInv /\ GatesInv => NeverOlder
  <2> SUFFICES ASSUME IInv, GatesInv, NEW r \in Readers, pc[r] = "done"
               PROVE  rd[r].head >= seen[r]
    BY DEF NeverOlder
  <2>2. seen[r] <= rd[r].head
    BY DEF GatesInv, GateInv
  <2>3. seen[r] \in Int /\ rd[r].head \in Nat
    BY ReaderTypes DEF IInv, TypeOK, NeverPolls
  <2> QED
    BY <2>2, <2>3
<1> QED
  BY <1>1, GatesInvariance, Invariance, PTL
=============================================================================
