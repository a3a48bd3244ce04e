---------------------------- MODULE ControlProofs ----------------------------
(***************************************************************************)
(* Proofs about Control: the targets reach the detector, for any requests  *)
(* of the API, any number of them, and any restarts of the two processes.  *)
(***************************************************************************)
EXTENDS Control, TLAPS

LEMMA AfterType ==
  ASSUME NEW args, NEW i \in 0 .. 3
  PROVE  After(args, i) \in i + 1 .. 4
<1> DEFINE Q(k) == /\ k < 4 => args[Order[k]] # 0
                   /\ \A j \in i + 1 .. k - 1 : args[Order[j]] = 0
<1>1. \E k \in i + 1 .. 4 : Q(k)
  <2>1. CASE \A j \in i + 1 .. 3 : args[Order[j]] = 0
    <3>1. Q(4)
      BY <2>1
    <3> QED
      BY <3>1
  <2>2. CASE \E j \in i + 1 .. 3 : args[Order[j]] # 0
    <3>1. CASE 1 \in i + 1 .. 3 /\ args[Order[1]] # 0
      <4>1. Q(1)
        BY <3>1
      <4> QED
        BY <3>1, <4>1
    <3>2. CASE 2 \in i + 1 .. 3 /\ args[Order[2]] # 0 /\ ~(1 \in i + 1 .. 3 /\ args[Order[1]] # 0)
      <4>1. Q(2)
        BY <3>2
      <4> QED
        BY <3>2, <4>1
    <3>3. CASE /\ 3 \in i + 1 .. 3 /\ args[Order[3]] # 0
               /\ ~(1 \in i + 1 .. 3 /\ args[Order[1]] # 0)
               /\ ~(2 \in i + 1 .. 3 /\ args[Order[2]] # 0)
      <4>1. \A j \in i + 1 .. 2 : j = 1 \/ j = 2
        OBVIOUS
      <4>2. Q(3)
        BY <3>3, <4>1
      <4> QED
        BY <3>3, <4>2
    <3>4. \A j \in i + 1 .. 3 : j = 1 \/ j = 2 \/ j = 3
      OBVIOUS
    <3> QED
      BY <2>2, <3>1, <3>2, <3>3, <3>4
  <2> QED
    BY <2>1, <2>2
<1>2. (CHOOSE k \in i + 1 .. 4 : Q(k)) \in i + 1 .. 4
  BY <1>1
<1> QED
  BY <1>2 DEF After

LEMMA TargetsTyped ==
  /\ Keep \in Targets /\ Targetable(Keep)
  /\ Configured \in Targets /\ Targetable(Configured)
  /\ \A lvl \in 0 .. 3 : TargetOf(lvl) \in Targets /\ Targetable(TargetOf(lvl))
<1>1. Keep \in Targets /\ Configured \in Targets
  BY DEF Keep, Configured, Targets, Fields
<1>2. Targetable(Keep) /\ Targetable(Configured)
  BY DEF Keep, Configured, Targetable, Widths
<1>3. ASSUME NEW lvl \in 0 .. 3
      PROVE  TargetOf(lvl) \in Targets /\ Targetable(TargetOf(lvl))
  <2>1. CASE lvl = 0
    BY <1>1, <1>2, <2>1 DEF TargetOf
  <2>2. CASE lvl # 0
    <3>1. lvl + 1 \in 1 .. 4 /\ TargetOf(lvl) = LADDER[lvl + 1]
      BY <2>2 DEF TargetOf
    <3>2. \A i \in 1 .. 4 : LADDER[i].width \in Widths
      BY DEF Widths
    <3>3. \A i \in {1, 2, 3, 4} : LADDER[i] \in Targets /\ LADDER[i].fps >= 0
      BY DEF LADDER, Targets, Fields
    <3>4. lvl + 1 \in {1, 2, 3, 4}
      BY <3>1
    <3> QED
      BY <3>1, <3>2, <3>3, <3>4 DEF Targetable
  <2> QED
    BY <2>1, <2>2
<1> QED
  BY <1>1, <1>2, <1>3

LEMMA WidthsTyped ==
  /\ 0 \in Widths /\ Configured.width \in Widths /\ \A w \in Widths : w \in Int /\ w >= 0
<1>1. \A w \in ApiWidth : w \in Int /\ w >= 0
  BY ControlAssumption
<1>2. \A i \in {1, 2, 3, 4} : LADDER[i].width \in Int /\ LADDER[i].width >= 0
  BY DEF LADDER
<1>3. Configured.width \in Int /\ Configured.width >= 0
  BY DEF Configured
<1>4. 1 .. 4 = {1, 2, 3, 4}
  OBVIOUS
<1> QED
  BY <1>1, <1>2, <1>3, <1>4 DEF Widths

-----------------------------------------------------------------------------
(***************************************************************************)
(* The type invariant, one part for each owner of the state.               *)
(***************************************************************************)
SegmentOK == target \in Targets /\ Targetable(target) /\ ctrl_seq \in Nat

SettersOK ==
  /\ next \in [Setters -> 0 .. 4] /\ want \in [Setters -> Targets]
  /\ \A s \in Setters : Targetable(want[s])
  /\ level \in 0 .. TopLevel /\ overridden \in BOOLEAN

DetectorOK ==
  /\ dpc \in {"seq", "apply", "frame"} \union Fields
  /\ dseq \in Nat /\ got \in Targets /\ Targetable(got)
  /\ applied \in Targets /\ Targetable(applied)
  /\ applied.fps > 0 /\ applied.width > 0 /\ applied.net # 0
  /\ last_ctrl \in Int /\ frameWidth \in Widths /\ drawn \in Widths

InferenceOK ==
  /\ busy \in BOOLEAN /\ job \in Widths /\ boxes \in Widths
  /\ geom_ok \in {"running", "same", "changed"}

RestartsOK == restarts \in 0 .. MaxRestarts

Typed == SegmentOK /\ SettersOK /\ DetectorOK /\ InferenceOK /\ RestartsOK

Heard == Idle => Arrived

Synchronised == SeqBehind /\ LoadsTargets /\ Heard

Rungs == BootFirst /\ RungPending

LEMMA TypedParts == TypeOK /\ TargetsKnown <=> Typed
BY Zenon DEF TypeOK, TargetsKnown, Typed, SegmentOK, SettersOK, DetectorOK, InferenceOK, RestartsOK

\* When nobody is at work, nothing of the rung is left to store.
LEMMA IdleOnRung ==
  ASSUME Typed, Rungs, Idle
  PROVE  OnRung
<1> SUFFICES ASSUME ~overridden PROVE target = TargetOf(level)
  BY DEF OnRung
<1>1. "main" \in Setters /\ "governor" \in Setters
  BY DEF Setters
<1>2. next["main"] = 0 /\ next["governor"] = 0
  BY <1>1 DEF Idle
<1>3. \A i \in 1 .. 3 : target[Order[i]] = TargetOf(level)[Order[i]]
  BY <1>2 DEF Rungs, RungPending
<1>4. \A f \in Fields : target[f] = TargetOf(level)[f]
  <2>1. Order[1] = "fps" /\ Order[2] = "width" /\ Order[3] = "net"
    BY DEF Order
  <2> QED
    BY <1>3, <2>1 DEF Fields
<1>5. target \in Targets /\ TargetOf(level) \in Targets
  <2>1. level \in 0 .. 3
    BY ControlAssumption DEF Typed, SettersOK
  <2> QED
    BY <2>1, TargetsTyped DEF Typed, SegmentOK
<1> HIDE DEF TargetOf
<1> QED
  BY <1>4, <1>5 DEF Targets

LEMMA InvariantParts == IInv <=> Typed /\ Synchronised /\ Rungs
BY TypedParts, IdleOnRung DEF IInv, Synchronised, Heard, Settled, Rungs

-----------------------------------------------------------------------------
(***************************************************************************)
(* The setters.                                                            *)
(***************************************************************************)
\* A setter at work promises to raise ctrl_seq.
LEMMA BusySetter ==
  ASSUME SeqBehind, UNCHANGED <<ctrl_seq, detector>>, ~Idle'
  PROVE  Synchronised'
BY DEF Synchronised, SeqBehind, LoadsTargets, Heard, Arrived, Loading, detector

LEMMA StoreStep ==
  ASSUME Typed, Synchronised, NEW s \in Setters, StoreField(s)
  PROVE  Typed' /\ Synchronised'
<1>1. /\ next[s] \in 1 .. 3
      /\ target' = [target EXCEPT ![Order[next[s]]] = want[s][Order[next[s]]]]
      /\ next' = [next EXCEPT ![s] = After(want[s], next[s])]
      /\ UNCHANGED <<ctrl_seq, want, level, overridden, detector, inference, restarts>>
  BY DEF StoreField
<1>2. After(want[s], next[s]) \in next[s] + 1 .. 4
  BY <1>1, AfterType
<1>3. SettersOK' /\ ~Idle'
  <2>1. After(want[s], next[s]) \in 1 .. 4
    BY <1>1, <1>2
  <2>2. next' \in [Setters -> 0 .. 4] /\ next'[s] # 0
    BY <1>1, <2>1 DEF Typed, SettersOK
  <2> QED
    BY <1>1, <2>2 DEF Typed, SettersOK, Idle
<1>4. SegmentOK'
  <2>1. want[s] \in Targets /\ Targetable(want[s]) /\ target \in Targets /\ Targetable(target)
    BY DEF Typed, SettersOK, SegmentOK
  <2>2. CASE next[s] = 1
    <3>1. target' = [target EXCEPT !["fps"] = want[s]["fps"]]
      BY <1>1, <2>2 DEF Order
    <3> QED
      BY <1>1, <2>1, <3>1 DEF Typed, SegmentOK, Targets, Fields, Targetable, Widths
  <2>3. CASE next[s] = 2
    <3>1. target' = [target EXCEPT !["width"] = want[s]["width"]]
      BY <1>1, <2>3 DEF Order
    <3> QED
      BY <1>1, <2>1, <3>1 DEF Typed, SegmentOK, Targets, Fields, Targetable, Widths
  <2>4. CASE next[s] = 3
    <3>1. target' = [target EXCEPT !["net"] = want[s]["net"]]
      BY <1>1, <2>4 DEF Order
    <3> QED
      BY <1>1, <2>1, <3>1 DEF Typed, SegmentOK, Targets, Fields, Targetable, Widths
  <2> QED
    BY <1>1, <2>2, <2>3, <2>4
<1>5. DetectorOK' /\ InferenceOK' /\ RestartsOK'
  BY <1>1 DEF Typed, DetectorOK, InferenceOK, RestartsOK, detector, inference, Targetable, Widths
<1>6. Synchronised'
  BY <1>1, <1>3, BusySetter DEF Synchronised
<1> QED
  BY <1>3, <1>4, <1>5, <1>6 DEF Typed

LEMMA RaiseStep ==
  ASSUME Typed, Synchronised, NEW s \in Setters, RaiseSeq(s)
  PROVE  Typed' /\ Synchronised'
<1>1. /\ ctrl_seq' = ctrl_seq + 1
      /\ next' = [next EXCEPT ![s] = 0] /\ want' = [want EXCEPT ![s] = Keep]
      /\ UNCHANGED <<target, level, overridden, detector, inference, restarts>>
  BY DEF RaiseSeq, Raised
<1>2. SettersOK'
  <2>1. next' \in [Setters -> 0 .. 4] /\ want' \in [Setters -> Targets]
    BY <1>1, TargetsTyped DEF Typed, SettersOK
  <2>2. \A z \in Setters : want'[z] = want[z] \/ want'[z] = Keep
    BY <1>1 DEF Typed, SettersOK
  <2>3. \A z \in Setters : Targetable(want[z]) /\ Targetable(Keep)
    BY TargetsTyped DEF Typed, SettersOK
  <2>4. \A z \in Setters : Targetable(want'[z])
    BY <2>2, <2>3
  <2>5. \A z \in Setters : Targetable(want[z])'
    BY <2>4 DEF Targetable, Widths
  <2> QED
    BY <1>1, <2>1, <2>5 DEF Typed, SettersOK
<1>3. SegmentOK' /\ DetectorOK' /\ InferenceOK' /\ RestartsOK'
  BY <1>1 DEF Typed, SegmentOK, DetectorOK, InferenceOK, RestartsOK, detector, inference, Targetable, Widths
<1>4. Synchronised'
  <2>1. /\ ctrl_seq \in Nat /\ dseq \in Nat /\ last_ctrl \in Int
        /\ dseq <= ctrl_seq /\ last_ctrl <= ctrl_seq /\ (Loading => last_ctrl < dseq)
    BY DEF Typed, SegmentOK, DetectorOK, Synchronised, SeqBehind
  <2>2. dseq' # ctrl_seq' /\ last_ctrl' # ctrl_seq' /\ dseq' <= ctrl_seq' /\ last_ctrl' <= ctrl_seq'
    BY <1>1, <2>1 DEF detector
  <2>3. Loading' => last_ctrl' < dseq'
    BY <1>1, <2>1 DEF detector, Loading
  <2> QED
    BY <2>2, <2>3 DEF Synchronised, SeqBehind, LoadsTargets, Heard, Arrived
<1> QED
  BY <1>2, <1>3, <1>4 DEF Typed

\* shmframe_set_target is called: the setter is at work from here on.
LEMMA CallStep ==
  ASSUME Typed, Synchronised, NEW s \in Setters, NEW args \in Targets, Targetable(args), Call(s, args),
         level' \in 0 .. TopLevel, overridden' \in BOOLEAN,
         UNCHANGED <<segment, detector, inference, restarts>>
  PROVE  Typed' /\ Synchronised'
<1>1. /\ want' = [want EXCEPT ![s] = args]
      /\ next' = [next EXCEPT ![s] = After(args, 0)]
  BY DEF Call
<1>2. After(args, 0) \in 1 .. 4
  BY AfterType
<1>3. next' \in [Setters -> 0 .. 4] /\ ~Idle'
  BY <1>1, <1>2 DEF Typed, SettersOK, Idle
<1>4. want' \in [Setters -> Targets] /\ \A z \in Setters : Targetable(want[z])'
  <2>1. want' \in [Setters -> Targets]
    BY <1>1 DEF Typed, SettersOK
  <2>2. \A z \in Setters : want'[z] = want[z] \/ want'[z] = args
    BY <1>1 DEF Typed, SettersOK
  <2>3. \A z \in Setters : Targetable(want[z])
    BY DEF Typed, SettersOK
  <2>4. \A z \in Setters : Targetable(want'[z])
    BY <2>2, <2>3
  <2> QED
    BY <2>1, <2>4 DEF Targetable, Widths
<1>5. SettersOK'
  BY <1>3, <1>4 DEF SettersOK
<1>6. SegmentOK' /\ DetectorOK' /\ InferenceOK' /\ RestartsOK'
  BY DEF Typed, SegmentOK, DetectorOK, InferenceOK, RestartsOK, segment, detector, inference,
     Targetable, Widths
<1>7. Synchronised'
  BY <1>3, BusySetter DEF Synchronised, segment
<1> QED
  BY <1>5, <1>6, <1>7 DEF Typed

LEMMA GovernStep ==
  ASSUME Typed, Synchronised, NEW lvl \in NextLevels, Govern(lvl)
  PROVE  Typed' /\ Synchronised'
<1>1. lvl \in 0 .. TopLevel /\ lvl \in 0 .. 3
  BY ControlAssumption DEF NextLevels
<1>2. TargetOf(lvl) \in Targets /\ Targetable(TargetOf(lvl))
  BY <1>1, TargetsTyped
<1>3. /\ Call("governor", TargetOf(lvl)) /\ level' = lvl /\ overridden' \in BOOLEAN
      /\ UNCHANGED <<segment, detector, inference, restarts>>
  BY DEF Govern
<1> QED
  BY <1>1, <1>2, <1>3, CallStep DEF Setters

LEMMA RequestStep ==
  ASSUME Typed, Synchronised, Api
  PROVE  Typed' /\ Synchronised'
<1>0. PICK c \in Clients, f \in Fields : \E v \in ApiValues(f) : Request(c, f, v)
  BY DEF Api
<1>1. PICK v \in ApiValues(f) : Request(c, f, v)
  BY <1>0
<1>2. v \in Int /\ (f = "fps" => v >= 0) /\ (f = "width" => v \in Widths)
  <2>1. CASE f = "fps"
    BY <1>1, <2>1, ControlAssumption DEF ApiValues
  <2>2. CASE f = "width"
    BY <1>1, <2>2, ControlAssumption DEF ApiValues, Widths
  <2>3. CASE f = "net"
    <3>1. PICK n \in ApiNetInput : v = NetOf(n)
      BY <1>1, <2>3 DEF ApiValues
    <3> QED
      BY <2>3, <3>1, ControlAssumption DEF NetOf, SHMFRAME_NET_OFF
  <2> QED
    BY <2>1, <2>2, <2>3 DEF Fields
<1>3. [Keep EXCEPT ![f] = v] \in Targets /\ Targetable([Keep EXCEPT ![f] = v])
  <2>1. CASE f = "fps"
    BY <1>2, <2>1, TargetsTyped DEF Targets, Fields, Targetable
  <2>2. CASE f = "width"
    BY <1>2, <2>2, TargetsTyped DEF Targets, Fields, Targetable
  <2>3. CASE f = "net"
    BY <1>2, <2>3, TargetsTyped DEF Targets, Fields, Targetable
  <2> QED
    BY <2>1, <2>2, <2>3 DEF Fields
<1>4. /\ Call(c, [Keep EXCEPT ![f] = v]) /\ overridden' \in BOOLEAN /\ level' \in 0 .. TopLevel
      /\ UNCHANGED <<segment, detector, inference, restarts>>
  BY <1>1 DEF Request, Typed, SettersOK
<1> QED
  BY <1>3, <1>4, CallStep DEF Setters

LEMMA RestartDaemonStep ==
  ASSUME Typed, Synchronised, RestartDaemon
  PROVE  Typed' /\ Synchronised'
<1>1. /\ restarts < MaxRestarts /\ restarts' = restarts + 1
      /\ next' = [s \in Setters |-> IF s = "main" THEN 1 ELSE 0]
      /\ want' = [s \in Setters |-> IF s = "main" THEN Configured ELSE Keep]
      /\ level' = 0 /\ overridden' = FALSE
      /\ UNCHANGED <<segment, detector, inference>>
  BY DEF RestartDaemon
<1>2. SettersOK' /\ ~Idle'
  <2>1. next' \in [Setters -> 0 .. 4] /\ next'["main"] = 1 /\ "main" \in Setters
    BY <1>1 DEF Setters
  <2>2. want' \in [Setters -> Targets] /\ \A z \in Setters : Targetable(want'[z])
    BY <1>1, TargetsTyped
  <2>3. level' \in 0 .. TopLevel
    BY <1>1, ControlAssumption
  <2>4. \A z \in Setters : Targetable(want[z])'
    BY <2>2 DEF Targetable, Widths
  <2>5. ~Idle'
    BY <2>1 DEF Idle
  <2>6. overridden' \in BOOLEAN
    BY <1>1
  <2> QED
    BY <2>1, <2>2, <2>3, <2>4, <2>5, <2>6 DEF SettersOK
<1>3. SegmentOK' /\ DetectorOK' /\ InferenceOK'
  BY <1>1 DEF Typed, SegmentOK, DetectorOK, InferenceOK, segment, detector, inference, Targetable, Widths
<1>4. RestartsOK'
  BY <1>1, ControlAssumption DEF Typed, RestartsOK
<1>5. Synchronised'
  BY <1>1, <1>2, BusySetter DEF Synchronised, segment
<1> QED
  BY <1>2, <1>3, <1>4, <1>5 DEF Typed

-----------------------------------------------------------------------------
(***************************************************************************)
(* The detector.                                                           *)
(***************************************************************************)
LEMMA ReadSeqStep ==
  ASSUME Typed, Synchronised, ReadSeq
  PROVE  Typed' /\ Synchronised'
<1>1. /\ dpc = "seq"
      /\ \/ ctrl_seq # last_ctrl /\ dpc' = "fps" /\ dseq' = ctrl_seq
         \/ ctrl_seq = last_ctrl /\ dpc' = "frame" /\ dseq' = dseq
      /\ UNCHANGED <<segment, setters, got, applied, last_ctrl, frameWidth, drawn, inference, restarts>>
  BY DEF ReadSeq
<1>2. SegmentOK' /\ SettersOK' /\ InferenceOK' /\ RestartsOK'
  BY <1>1 DEF Typed, SegmentOK, SettersOK, InferenceOK, RestartsOK, segment, setters, inference,
     Targetable, Widths
<1>3. DetectorOK'
  BY <1>1 DEF Typed, SegmentOK, DetectorOK, Fields, Targetable, Widths
<1>4. SeqBehind'
  BY <1>1 DEF Typed, SegmentOK, DetectorOK, Synchronised, SeqBehind, Loading, Fields, segment
<1>5. LoadsTargets'
  <2>1. Loaded' = {}
    BY <1>1 DEF Loaded
  <2> QED
    BY <2>1 DEF LoadsTargets
<1>6. Heard'
  BY <1>1 DEF Synchronised, Heard, Arrived, Idle, segment, setters
<1> QED
  BY <1>2, <1>3, <1>4, <1>5, <1>6 DEF Typed, Synchronised

LEMMA ReadFieldStep ==
  ASSUME Typed, Synchronised, ReadField
  PROVE  Typed' /\ Synchronised'
<1>1. /\ dpc \in Fields /\ got' = [got EXCEPT ![dpc] = target[dpc]]
      /\ dpc' = CASE dpc = "fps" -> "width" [] dpc = "width" -> "net" [] dpc = "net" -> "apply"
      /\ UNCHANGED <<segment, setters, dseq, applied, last_ctrl, frameWidth, drawn, inference, restarts>>
  BY DEF ReadField
<1>2. SegmentOK' /\ SettersOK' /\ InferenceOK' /\ RestartsOK'
  BY <1>1 DEF Typed, SegmentOK, SettersOK, InferenceOK, RestartsOK, segment, setters, inference,
     Targetable, Widths
<1>3. /\ got \in Targets /\ Targetable(got) /\ target \in Targets /\ Targetable(target)
  BY DEF Typed, SegmentOK, DetectorOK
<1>4. /\ got' \in Targets /\ Targetable(got)'
      /\ \A f \in Fields : got'[f] = IF f = dpc THEN target[f] ELSE got[f]
  BY <1>1, <1>3 DEF Targets, Fields, Targetable, Widths
<1>5. dpc' \in {"width", "net", "apply"}
  BY <1>1 DEF Fields
<1>6. DetectorOK'
  BY <1>1, <1>4, <1>5 DEF Typed, DetectorOK, Fields, Targetable, Widths
<1>7. SeqBehind'
  BY <1>1 DEF Synchronised, SeqBehind, Loading, segment
<1>8. LoadsTargets'
  <2>1. Loaded' = Loaded \union {dpc} /\ Loaded \subseteq Fields
    BY <1>1 DEF Loaded, Fields
  <2>2. Loading /\ Idle' = Idle /\ dseq' = dseq /\ ctrl_seq' = ctrl_seq /\ target' = target
    BY <1>1 DEF Loading, Idle, segment, setters
  <2> QED
    BY <1>1, <1>4, <2>1, <2>2 DEF Synchronised, LoadsTargets
<1>9. Heard'
  BY <1>1 DEF Synchronised, Heard, Arrived, Idle, segment, setters
<1> QED
  BY <1>2, <1>6, <1>7, <1>8, <1>9 DEF Typed, Synchronised

LEMMA ApplyStep ==
  ASSUME Typed, Synchronised, Apply
  PROVE  Typed' /\ Synchronised'
<1>1. /\ dpc = "apply" /\ applied' = [f \in Fields |-> Accepted(f)]
      /\ last_ctrl' = dseq /\ boxes' \in {NoBoxes, boxes}
      /\ dpc' = "frame" /\ got' = Keep /\ dseq' = 0
      /\ UNCHANGED <<segment, setters, frameWidth, drawn, busy, job, geom_ok, restarts>>
  BY DEF Apply, SeqRead
<1>2. SegmentOK' /\ SettersOK' /\ InferenceOK' /\ RestartsOK'
  BY <1>1, WidthsTyped DEF Typed, SegmentOK, SettersOK, InferenceOK, RestartsOK, segment, setters,
     NoBoxes, Targetable, Widths
<1>3. /\ got \in Targets /\ Targetable(got) /\ applied \in Targets /\ Targetable(applied)
      /\ applied.fps > 0 /\ applied.width > 0 /\ applied.net # 0
      /\ dseq \in Nat /\ ctrl_seq \in Nat
  BY DEF Typed, DetectorOK, SegmentOK
<1>4. /\ applied' \in Targets /\ Targetable(applied')
      /\ applied'.fps > 0 /\ applied'.width > 0 /\ applied'.net # 0
  <2>1. \A f \in Fields : Accepted(f) \in {got[f], applied[f]} /\ applied'[f] = Accepted(f)
    BY <1>1 DEF Accepted
  <2>2. applied' \in Targets
    BY <1>1, <1>3, <2>1 DEF Targets
  <2>3. Targetable(applied')
    BY <1>3, <2>1 DEF Targetable, Fields
  <2>4. \A f \in Fields : Accepted(f) > 0 \/ (f = "net" /\ Accepted(f) # 0)
    BY <1>3 DEF Accepted, Targets, Fields
  <2> QED
    BY <1>1, <2>2, <2>3, <2>4 DEF Fields, Targets
<1>5. DetectorOK'
  <2>1. Targetable(applied)' /\ Targetable(got)' /\ got' \in Targets
    BY <1>1, <1>4, TargetsTyped DEF Targetable, Widths
  <2>2. frameWidth' \in Widths' /\ drawn' \in Widths'
    BY <1>1 DEF Typed, DetectorOK, Widths
  <2>3. applied' \in Targets'
    BY <1>4 DEF Targets, Fields
  <2> QED
    BY <1>1, <1>3, <1>4, <2>1, <2>2, <2>3 DEF DetectorOK, Targets, Fields
<1>6. SeqBehind' /\ LoadsTargets'
  BY <1>1, <1>3 DEF Synchronised, SeqBehind, LoadsTargets, Loading, Fields, segment
<1>7. Heard'
  <2> SUFFICES ASSUME Idle', last_ctrl' = ctrl_seq', NEW f \in Fields, target'[f] # 0
               PROVE  applied'[f] = target'[f]
    BY DEF Heard, Arrived
  <2>1. Idle /\ dseq = ctrl_seq /\ target' = target
    BY <1>1 DEF Idle, segment, setters
  <2>2. got[f] = target[f]
    BY <1>1, <2>1 DEF Synchronised, LoadsTargets, Loading, Loaded
  <2>3. Targetable(target) /\ target \in Targets /\ \A w \in Widths : w \in Int /\ w >= 0
    BY WidthsTyped DEF Typed, SegmentOK
  <2>4. target[f] > 0 \/ f = "net"
    BY <2>1, <2>3 DEF Targetable, Fields, Targets
  <2> QED
    BY <1>1, <2>1, <2>2, <2>4 DEF Accepted
<1> QED
  BY <1>2, <1>5, <1>6, <1>7 DEF Typed, Synchronised

LEMMA FrameStep ==
  ASSUME Typed, Synchronised, NEW hand \in BOOLEAN, Frame(hand)
  PROVE  Typed' /\ Synchronised'
<1>1. /\ dpc = "frame" /\ dpc' = "seq"
      /\ frameWidth' = applied.width /\ drawn' \in {NoBoxes, boxes}
      /\ busy' = (busy \/ hand) /\ job' \in {job, applied.width} /\ geom_ok' \in {"running", geom_ok}
      /\ UNCHANGED <<segment, setters, dseq, got, applied, last_ctrl, boxes, restarts>>
  BY DEF Frame
<1>2. SegmentOK' /\ SettersOK' /\ RestartsOK'
  BY <1>1 DEF Typed, SegmentOK, SettersOK, RestartsOK, segment, setters, Targetable, Widths
<1>3. applied.width \in Widths /\ boxes \in Widths /\ job \in Widths /\ NoBoxes \in Widths
  BY WidthsTyped DEF Typed, DetectorOK, InferenceOK, Targetable, NoBoxes
<1>4. DetectorOK'
  BY <1>1, <1>3 DEF Typed, DetectorOK, Targetable, Widths
<1>5. InferenceOK'
  BY <1>1, <1>3 DEF Typed, InferenceOK, Widths
<1>6. Synchronised'
  BY <1>1 DEF Synchronised, SeqBehind, LoadsTargets, Heard, Arrived, Loading, Loaded, Idle, Fields, segment, setters
<1> QED
  BY <1>2, <1>4, <1>5, <1>6 DEF Typed

LEMMA RestartDetectorStep ==
  ASSUME Typed, Synchronised, RestartDetector
  PROVE  Typed' /\ Synchronised'
<1>1. /\ restarts < MaxRestarts /\ restarts' = restarts + 1
      /\ dpc' = "seq" /\ dseq' = 0 /\ got' = Keep /\ applied' = Configured /\ last_ctrl' = -1
      /\ frameWidth' = 0 /\ drawn' = 0
      /\ busy' = FALSE /\ job' = 0 /\ geom_ok' = "running" /\ boxes' = 0
      /\ UNCHANGED <<segment, setters>>
  BY DEF RestartDetector, NoBoxes, NoJob
<1>2. SegmentOK' /\ SettersOK'
  BY <1>1 DEF Typed, SegmentOK, SettersOK, segment, setters, Targetable, Widths
<1>3. RestartsOK'
  BY <1>1, ControlAssumption DEF Typed, RestartsOK
<1>4. InferenceOK'
  BY <1>1, WidthsTyped DEF InferenceOK, Widths
<1>5. DetectorOK'
  <2>1. Configured.fps > 0 /\ Configured.width > 0 /\ Configured.net # 0
    BY DEF Configured
  <2>2. Targetable(got)' /\ Targetable(applied)'
    BY <1>1, TargetsTyped DEF Targetable, Widths
  <2>3. got' \in Targets /\ applied' \in Targets /\ 0 \in Widths
    BY <1>1, TargetsTyped, WidthsTyped
  <2>4. frameWidth' \in Widths' /\ drawn' \in Widths'
    BY <1>1, <2>3 DEF Widths
  <2> QED
    BY <1>1, <2>1, <2>2, <2>3, <2>4 DEF DetectorOK, Targets, Fields
<1>6. Synchronised'
  BY <1>1 DEF Typed, SegmentOK, Synchronised, SeqBehind, LoadsTargets, Heard, Arrived, Loading, Fields, segment
<1> QED
  BY <1>2, <1>3, <1>4, <1>5, <1>6 DEF Typed

LEMMA InferenceStep ==
  ASSUME Typed, Synchronised, CompareGeometry \/ StoreResult \/ InferenceFails
  PROVE  Typed' /\ Synchronised'
<1>1. /\ UNCHANGED <<segment, setters, detector, restarts>>
      /\ busy' \in {busy, FALSE} /\ job' \in {job, NoJob} /\ boxes' \in {boxes, job, NoBoxes}
      /\ geom_ok' \in {"running", "same", "changed"}
  BY DEF CompareGeometry, StoreResult, InferenceFails, Done, FreeAfterError
<1>2. InferenceOK'
  BY <1>1, WidthsTyped DEF Typed, InferenceOK, NoJob, NoBoxes, Widths
<1>3. SegmentOK' /\ SettersOK' /\ DetectorOK' /\ RestartsOK'
  BY <1>1 DEF Typed, SegmentOK, SettersOK, DetectorOK, RestartsOK, segment, setters, detector,
     Targetable, Widths
<1>4. Synchronised'
  BY <1>1 DEF Synchronised, SeqBehind, LoadsTargets, Heard, Arrived, Loading, Loaded, Idle, segment, setters, detector
<1> QED
  BY <1>2, <1>3, <1>4 DEF Typed

-----------------------------------------------------------------------------
(***************************************************************************)
(* The rungs of the ladder.                                                *)
(***************************************************************************)
\* A call that changes every field goes through them one by one.
LEMMA AfterNext ==
  ASSUME NEW args, \A j \in 1 .. 3 : args[Order[j]] # 0, NEW i \in 0 .. 3
  PROVE  After(args, i) = i + 1
<1> DEFINE Q(k) == /\ k < 4 => args[Order[k]] # 0
                   /\ \A j \in i + 1 .. k - 1 : args[Order[j]] = 0
<1>1. i + 1 \in i + 1 .. 4 /\ Q(i + 1)
  <2>1. i + 1 < 4 => i + 1 \in 1 .. 3
    OBVIOUS
  <2> QED
    BY <2>1
<1>2. ASSUME NEW k \in i + 1 .. 4, Q(k), k # i + 1
      PROVE  FALSE
  <2>1. i + 1 \in i + 1 .. k - 1 /\ i + 1 \in 1 .. 3
    BY <1>2
  <2> QED
    BY <1>2, <2>1
<1>3. (CHOOSE k \in i + 1 .. 4 : Q(k)) = i + 1
  <2> HIDE DEF Q
  <2> QED
    BY <1>1, <1>2
<1> QED
  BY <1>3 DEF After

\* Every rung names all three fields.
LEMMA RungsFull ==
  ASSUME NEW lvl \in 0 .. 3
  PROVE  \A i \in 1 .. 3 : TargetOf(lvl)[Order[i]] # 0
<1>1. TargetOf(lvl) \in {Configured, LADDER[1], LADDER[2], LADDER[3], LADDER[4]}
  BY DEF TargetOf
<1>2. \A t \in {Configured, LADDER[1], LADDER[2], LADDER[3], LADDER[4]} :
        t["fps"] # 0 /\ t["width"] # 0 /\ t["net"] # 0
  BY DEF Configured, LADDER
<1>3. \A i \in 1 .. 3 : Order[i] \in {"fps", "width", "net"}
  BY DEF Order
<1> QED
  BY <1>1, <1>2, <1>3

LEMMA LevelKnown == Typed => level \in 0 .. 3
BY ControlAssumption DEF Typed, SettersOK

LEMMA BootThreads ==
  /\ "main" \in Setters /\ "governor" \in Setters /\ "main" # "governor"
  /\ \A c \in Clients : c \in Setters /\ c # "main" /\ c # "governor"
BY ControlAssumption DEF Setters

LEMMA StoreRung ==
  ASSUME Typed, Rungs, NEW s \in Setters, StoreField(s)
  PROVE  Rungs'
<1>1. /\ next[s] \in 1 .. 3
      /\ target' = [target EXCEPT ![Order[next[s]]] = want[s][Order[next[s]]]]
      /\ next' = [next EXCEPT ![s] = After(want[s], next[s])]
      /\ UNCHANGED <<want, level, overridden>>
  BY DEF StoreField
<1>2. /\ next \in [Setters -> 0 .. 4] /\ target \in Targets
      /\ \A z \in Setters : z # s => next'[z] = next[z]
      /\ next'[s] = After(want[s], next[s])
  BY <1>1 DEF Typed, SettersOK, SegmentOK
<1>3. BootFirst'
  BY <1>1, <1>2, BootThreads DEF Rungs, BootFirst
<1>4. RungPending'
  <2> SUFFICES ASSUME ~overridden PROVE RungPending'
    BY <1>1 DEF RungPending
  <2>1. \A c \in Clients : next[c] = 0
    BY DEF Rungs, RungPending
  <2>2. s \in {"main", "governor"} /\ s \notin Clients
    BY <1>1, <2>1 DEF Setters
  <2>3. want[s] = TargetOf(level)
    BY <1>1, <2>2 DEF Rungs, RungPending
  <2>4. next'[s] = next[s] + 1
    <3>1. \A i \in 1 .. 3 : want[s][Order[i]] # 0
      BY <2>3, LevelKnown, RungsFull
    <3> QED
      BY <1>1, <1>2, <3>1, AfterNext
  <2>5. ASSUME NEW i \in 1 .. 3
        PROVE  \/ target'[Order[i]] = TargetOf(level)[Order[i]]
               \/ \E r \in {"main", "governor"} : next'[r] \in 1 .. i
    <3>1. Order[i] \in Fields /\ DOMAIN target = Fields
      BY <1>2 DEF Order, Fields, Targets
    <3>2. CASE i = next[s]
      BY <1>1, <2>3, <3>1, <3>2
    <3>3. CASE i # next[s] /\ target[Order[i]] = TargetOf(level)[Order[i]]
      <4>1. Order[i] # Order[next[s]]
        BY <1>1, <3>3 DEF Order
      <4> QED
        BY <1>1, <3>1, <3>3, <4>1
    <3>4. CASE i # next[s] /\ \E r \in {"main", "governor"} : next[r] \in 1 .. i
      <4>1. PICK r \in {"main", "governor"} : next[r] \in 1 .. i
        BY <3>4
      <4>2. next'[r] \in 1 .. i
        <5>1. CASE r = s
          BY <1>1, <2>4, <3>4, <4>1, <5>1
        <5>2. CASE r # s
          BY <1>2, <4>1, <5>2, BootThreads
        <5> QED
          BY <5>1, <5>2
      <4> QED
        BY <4>2
    <3> QED
      BY <3>2, <3>3, <3>4 DEF Rungs, RungPending
  <2>6. \A c \in Clients : next'[c] = 0
    BY <1>2, <2>1, <2>2, BootThreads
  <2>7. \A r \in {"main", "governor"} : next'[r] # 0 => want'[r] = TargetOf(level)
    <3>1. ASSUME NEW r \in {"main", "governor"}, next'[r] # 0
          PROVE  want[r] = TargetOf(level)
      <4>1. r = s \/ next[r] # 0
        BY <1>2, <3>1, BootThreads
      <4> QED
        BY <2>3, <4>1 DEF Rungs, RungPending
    <3> QED
      BY <1>1, <3>1
  <2> QED
    BY <1>1, <2>5, <2>6, <2>7 DEF RungPending, TargetOf
<1> QED
  BY <1>3, <1>4 DEF Rungs

LEMMA RaiseRung ==
  ASSUME Typed, Rungs, NEW s \in Setters, RaiseSeq(s)
  PROVE  Rungs'
<1>1. /\ next[s] = 4
      /\ next' = [next EXCEPT ![s] = 0] /\ want' = [want EXCEPT ![s] = Keep]
      /\ UNCHANGED <<target, level, overridden>>
  BY DEF RaiseSeq
<1>2. \A z \in Setters : IF z = s THEN next'[z] = 0 ELSE next'[z] = next[z] /\ want'[z] = want[z]
  BY <1>1 DEF Typed, SettersOK
<1>3. BootFirst'
  BY <1>1, <1>2, BootThreads DEF Rungs, BootFirst
<1>4. RungPending'
  <2> SUFFICES ASSUME ~overridden PROVE RungPending'
    BY <1>1 DEF RungPending
  <2>1. \A c \in Clients : next'[c] = 0
    BY <1>2, BootThreads DEF Rungs, RungPending
  <2>2. \A r \in {"main", "governor"} : next'[r] # 0 => want'[r] = TargetOf(level)
    BY <1>2, BootThreads DEF Rungs, RungPending
  <2>3. \A i \in 1 .. 3 : \A r \in {"main", "governor"} : next[r] \in 1 .. i => next'[r] = next[r]
    BY <1>1, <1>2, BootThreads
  <2>4. \A i \in 1 .. 3 : \/ target[Order[i]] = TargetOf(level)[Order[i]]
                          \/ \E r \in {"main", "governor"} : next'[r] \in 1 .. i
    BY <2>3 DEF Rungs, RungPending
  <2> QED
    BY <1>1, <2>1, <2>2, <2>4 DEF RungPending, TargetOf
<1> QED
  BY <1>3, <1>4 DEF Rungs

LEMMA GovernRung ==
  ASSUME Typed, Rungs, NEW lvl \in NextLevels, Govern(lvl)
  PROVE  Rungs'
<1>1. /\ next["main"] = 0
      /\ want' = [want EXCEPT !["governor"] = TargetOf(lvl)]
      /\ next' = [next EXCEPT !["governor"] = After(TargetOf(lvl), 0)]
      /\ level' = lvl /\ overridden' = (\E c \in Clients : next[c] # 0)
  BY DEF Govern, Call, Up
<1>2. lvl \in 0 .. 3
  BY ControlAssumption DEF NextLevels
<1>3. After(TargetOf(lvl), 0) = 1
  BY <1>2, RungsFull, AfterNext
<1>4. /\ next'["governor"] = 1 /\ want'["governor"] = TargetOf(lvl)
      /\ \A z \in Setters : z # "governor" => next'[z] = next[z]
  BY <1>1, <1>3, BootThreads DEF Typed, SettersOK
<1>5. next'["main"] = 0
  BY <1>1, <1>4, BootThreads
<1>6. ~overridden' => \A c \in Clients : next'[c] = 0
  BY <1>1, <1>4, BootThreads
<1>7. \A i \in 1 .. 3 : next'["governor"] \in 1 .. i
  BY <1>4
<1> QED
  BY <1>1, <1>4, <1>5, <1>6, <1>7 DEF Rungs, BootFirst, RungPending, TargetOf

LEMMA RequestRung ==
  ASSUME Typed, Rungs, Api
  PROVE  Rungs'
<1>1. PICK c \in Clients : overridden' = TRUE /\ level' = level /\ \E k : next' = [next EXCEPT ![c] = k]
  BY DEF Api, Request, Call
<1>2. next'["main"] = next["main"] /\ next'["governor"] = next["governor"]
  BY <1>1, BootThreads DEF Typed, SettersOK
<1> QED
  BY <1>1, <1>2 DEF Rungs, BootFirst, RungPending

LEMMA RestartDaemonRung ==
  ASSUME Typed, RestartDaemon
  PROVE  Rungs'
<1>1. /\ \A z \in Setters : next'[z] = IF z = "main" THEN 1 ELSE 0
      /\ \A z \in Setters : want'[z] = IF z = "main" THEN Configured ELSE Keep
      /\ level' = 0
  BY DEF RestartDaemon
<1>2. next'["main"] = 1 /\ next'["governor"] = 0 /\ want'["main"] = Configured
  BY <1>1, BootThreads
<1>3. \A c \in Clients : next'[c] = 0
  BY <1>1, BootThreads
<1>4. TargetOf(0) = Configured /\ \A i \in 1 .. 3 : next'["main"] \in 1 .. i
  BY <1>2 DEF TargetOf
<1> QED
  BY <1>1, <1>2, <1>3, <1>4 DEF Rungs, BootFirst, RungPending, TargetOf

LEMMA RungsStep ==
  ASSUME Typed, Rungs, [Next]_vars
  PROVE  Rungs'
<1>1. CASE Setting
  BY <1>1, StoreRung, RaiseRung DEF Setting
<1>2. CASE (\E lvl \in NextLevels : Govern(lvl)) \/ Api \/ RestartDaemon
  BY <1>2, GovernRung, RequestRung, RestartDaemonRung
<1>3. CASE UNCHANGED <<segment, setters>>
  BY <1>3 DEF Rungs, BootFirst, RungPending, TargetOf, segment, setters
<1>4. CASE Detector \/ RestartDetector \/ CompareGeometry \/ StoreResult \/ InferenceFails \/ UNCHANGED vars
  <2>1. UNCHANGED <<segment, setters>>
    BY <1>4 DEF Detector, ReadSeq, ReadField, Apply, Frame, RestartDetector, CompareGeometry, StoreResult,
       InferenceFails, Done, vars
  <2> QED
    BY <1>3, <2>1
<1> QED
  BY <1>1, <1>2, <1>4 DEF Next

-----------------------------------------------------------------------------
LEMMA InvariantInit == Init => IInv
<1> SUFFICES ASSUME Init PROVE Typed /\ Synchronised /\ Rungs
  BY InvariantParts
<1>1. /\ target = Keep /\ ctrl_seq = 0 /\ got = Keep /\ applied = Configured
      /\ next = [s \in Setters |-> IF s = "main" THEN 1 ELSE 0]
      /\ want = [s \in Setters |-> IF s = "main" THEN Configured ELSE Keep]
      /\ level = 0 /\ overridden = FALSE /\ dpc = "seq" /\ dseq = 0 /\ last_ctrl = -1
      /\ frameWidth = 0 /\ drawn = 0 /\ busy = FALSE /\ job = 0 /\ geom_ok = "running" /\ boxes = 0
      /\ restarts = 0
  BY DEF Init, NoBoxes, NoJob
<1>2. SegmentOK
  BY <1>1, TargetsTyped DEF SegmentOK
<1>3. SettersOK
  <2>1. next \in [Setters -> 0 .. 4] /\ want \in [Setters -> Targets]
    BY <1>1, TargetsTyped
  <2>2. \A s \in Setters : Targetable(want[s])
    BY <1>1, TargetsTyped
  <2>3. level \in 0 .. TopLevel
    BY <1>1, ControlAssumption
  <2>4. overridden \in BOOLEAN
    BY <1>1
  <2> QED
    BY <2>1, <2>2, <2>3, <2>4 DEF SettersOK
<1>4. DetectorOK /\ InferenceOK
  <2>1. Configured.fps > 0 /\ Configured.width > 0 /\ Configured.net # 0
    BY DEF Configured
  <2>2. dseq \in Nat /\ last_ctrl \in Int /\ dpc \in {"seq", "apply", "frame"} \union Fields
    BY <1>1
  <2>3. DetectorOK
    BY <1>1, <2>1, <2>2, TargetsTyped, WidthsTyped DEF DetectorOK
  <2>4. busy \in BOOLEAN /\ geom_ok \in {"running", "same", "changed"}
    BY <1>1
  <2>5. InferenceOK
    BY <1>1, <2>4, WidthsTyped DEF InferenceOK
  <2> QED
    BY <2>3, <2>5
<1>5. RestartsOK
  BY <1>1, ControlAssumption DEF RestartsOK
<1>6. Synchronised
  BY <1>1 DEF Synchronised, SeqBehind, LoadsTargets, Heard, Arrived, Loading, Fields
<1>7. Rungs
  <2>1. next["main"] = 1 /\ next["governor"] = 0 /\ want["main"] = TargetOf(0)
    BY <1>1, BootThreads DEF TargetOf
  <2>2. \A c \in Clients : next[c] = 0
    BY <1>1, BootThreads
  <2>3. \A i \in 1 .. 3 : next["main"] \in 1 .. i
    BY <2>1
  <2> QED
    BY <1>1, <2>1, <2>2, <2>3 DEF Rungs, BootFirst, RungPending
<1> QED
  BY <1>2, <1>3, <1>4, <1>5, <1>6, <1>7 DEF Typed

LEMMA PartsStep ==
  ASSUME Typed, Synchronised, [Next]_vars
  PROVE  Typed' /\ Synchronised'
<1>1. CASE UNCHANGED vars
  <2>1. Typed'
    BY <1>1 DEF Typed, SegmentOK, SettersOK, DetectorOK, InferenceOK, RestartsOK, vars, segment, setters,
       detector, inference, Targetable, Widths
  <2>2. Synchronised'
    BY <1>1 DEF Synchronised, SeqBehind, LoadsTargets, Heard, Arrived, Loading, Loaded, Idle, vars, segment,
       setters, detector
  <2> QED
    BY <2>1, <2>2
<1>2. CASE Setting
  BY <1>2, StoreStep, RaiseStep DEF Setting
<1>3. CASE (\E lvl \in NextLevels : Govern(lvl)) \/ Api \/ RestartDaemon
  BY <1>3, GovernStep, RequestStep, RestartDaemonStep
<1>4. CASE Detector
  BY <1>4, ReadSeqStep, ReadFieldStep, ApplyStep, FrameStep DEF Detector
<1>5. CASE RestartDetector \/ CompareGeometry \/ StoreResult \/ InferenceFails
  BY <1>5, RestartDetectorStep, InferenceStep
<1> QED
  BY <1>1, <1>2, <1>3, <1>4, <1>5 DEF Next

LEMMA InvariantStep == IInv /\ [Next]_vars => IInv'
<1>1. Typed /\ Synchronised /\ Rungs /\ [Next]_vars => Typed' /\ Synchronised' /\ Rungs'
  BY PartsStep, RungsStep
<1>2. IInv <=> Typed /\ Synchronised /\ Rungs
  BY InvariantParts
<1> QED
  BY <1>1, <1>2, PTL

LEMMA Invariance == Spec => []IInv
BY InvariantInit, InvariantStep, PTL DEF Spec

-----------------------------------------------------------------------------
(***************************************************************************)
(* The theorems.                                                           *)
(***************************************************************************)
\* Every variable of the control channel keeps its type, and the detector
\* never works at a rate or a width of zero (guardian_vision.py:970-982).
THEOREM TypeCorrect == Spec => []TypeOK
BY Invariance, PTL DEF IInv

\* Because shmframe_set_target raises ctrl_seq after its stores
\* (shmframe.c:165-177) and the detector reads it before its loads, no update
\* is missed, however setters interleave and whoever dies in between.  The
\* targets of main() and of the governor never mix either: apply_thermal
\* (events.c) stores all the fields of a rung, and a rung whose stores a kill
\* cuts short is overwritten by the configured targets of the next daemon.
THEOREM TargetsArrive == Spec => []Settled
BY Invariance, PTL DEF IInv
=============================================================================
