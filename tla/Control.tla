------------------------------- MODULE Control ------------------------------
(***************************************************************************)
(* The control channel: the targets in the shared segment that main(), the *)
(* thermal governor and the API set (shmframe.c, events.c, api.c) and the  *)
(* detector picks up (guardian_vision.py), and the inference thread whose  *)
(* results belong to the geometry they were computed for.                  *)
(*                                                                         *)
(* A load or store of one field is one step.  Either process may die and   *)
(* come back at any of them; the segment stays.                            *)
(***************************************************************************)
EXTENDS Integers

CONSTANTS
  TopLevel,     \* bound: the highest thermal level that is reached
  Clients,      \* threads of the web server that handle requests at the same time
  ApiFps,       \* the requests the API gets
  ApiWidth,
  ApiNetInput,
  MaxSeq,       \* bound: no request is made once ctrl_seq is this high
  MaxRestarts   \* bound: restarts of the two processes

ASSUME ControlAssumption ==
  /\ TopLevel \in 0 .. 3
  /\ Clients \intersect {"main", "governor"} = {}
  /\ ApiFps \subseteq 1 .. 30 /\ ApiWidth \subseteq 160 .. 1280
  /\ ApiNetInput \subseteq {0} \union 128 .. 512
  /\ MaxSeq \in Nat /\ MaxRestarts \in Nat

VARIABLES
  target,     \* segment: target_fps, target_width, target_net_input
  ctrl_seq,   \* segment
  next,       \* per setter: the store it does next, 0 when it is idle, 4 for ctrl_seq
  want,       \* per setter: the arguments of shmframe_set_target
  level,      \* thermal_level of the governor
  dpc,        \* detector: "seq", the field it loads, "apply", "frame"
  dseq,       \* detector: the ctrl_seq it has read
  got,        \* detector: the fields it has read
  applied,    \* detector: target_fps, target_width, net_input
  last_ctrl,  \* detector
  frameWidth, \* detector: last_frame_wh
  drawn,      \* detector: the width that the boxes in the last frame belong to
  busy,       \* inference: infer_busy
  job,        \* inference: the width of the frame it works on
  geom_ok,    \* inference: "running", or the outcome of the comparison
  boxes,      \* inference: the width that infer_state["boxes"] belong to
  restarts,
  overridden  \* history: the API interfered since the last thermal change began

segment == <<target, ctrl_seq>>
setters == <<next, want, level, overridden>>
detector == <<dpc, dseq, got, applied, last_ctrl, frameWidth, drawn>>
inference == <<busy, job, geom_ok, boxes>>
vars == <<segment, setters, detector, inference, restarts>>

SHMFRAME_NET_OFF == -1
Fields == {"fps", "width", "net"}
Order == <<"fps", "width", "net">>
Setters == {"main", "governor"} \union Clients
Keep == [fps |-> 0, width |-> 0, net |-> 0]      \* 0 leaves a field as it is
NoBoxes == 0
NoJob == 0

LADDER == <<[fps |-> 10, width |-> 640, net |-> 300],
            [fps |-> 5, width |-> 480, net |-> 256],
            [fps |-> 3, width |-> 320, net |-> 224],
            [fps |-> 2, width |-> 320, net |-> 192]>>
Configured == [fps |-> 15, width |-> 640, net |-> 300]

TargetOf(lvl) == IF lvl = 0 THEN Configured ELSE LADDER[lvl + 1]

-----------------------------------------------------------------------------
(***************************************************************************)
(* shmframe_set_target: the fields one after the other, then ctrl_seq.     *)
(***************************************************************************)
\* The store after field i: the next field that is to change, or ctrl_seq.
After(args, i) ==
  CHOOSE k \in i + 1 .. 4 :
    /\ k < 4 => args[Order[k]] # 0
    /\ \A j \in i + 1 .. k - 1 : args[Order[j]] = 0

Call(s, args) ==
  /\ next[s] = 0
  /\ want' = [want EXCEPT ![s] = args]
  /\ next' = [next EXCEPT ![s] = After(args, 0)]

StoreField(s) ==
  /\ next[s] \in 1 .. 3
  /\ LET f == Order[next[s]] IN target' = [target EXCEPT ![f] = want[s][f]]
  /\ next' = [next EXCEPT ![s] = After(want[s], next[s])]
  /\ UNCHANGED <<ctrl_seq, want, level, overridden, detector, inference, restarts>>

\* Mutant: nobody is told.
NotRaised == ctrl_seq

Raised == ctrl_seq + 1

RaiseSeq(s) ==
  /\ next[s] = 4
  /\ ctrl_seq' = Raised
  /\ next' = [next EXCEPT ![s] = 0]
  /\ want' = [want EXCEPT ![s] = Keep]
  /\ UNCHANGED <<target, level, overridden, detector, inference, restarts>>

Idle == \A s \in Setters : next[s] = 0
Up == next["main"] = 0          \* events_start has returned: the threads run
MayAsk == ctrl_seq < MaxSeq

NextLevels == {level - 1, level + 1} \intersect 0 .. TopLevel

\* supervisor_loop and apply_thermal: one level up or down.
Govern(lvl) ==
  /\ Up /\ MayAsk
  /\ Call("governor", TargetOf(lvl))
  /\ level' = lvl
  /\ overridden' = (\E c \in Clients : next[c] # 0)
  /\ UNCHANGED <<segment, detector, inference, restarts>>

\* cmd_set_fps, cmd_set_resolution, cmd_set_net_input: one field each.  The web
\* server is started before events_start sets the configured targets.
Request(c, field, value) ==
  /\ MayAsk
  /\ Call(c, [Keep EXCEPT ![field] = value])
  /\ overridden' = TRUE
  /\ UNCHANGED <<segment, level, detector, inference, restarts>>

NetOf(n) == IF n = 0 THEN SHMFRAME_NET_OFF ELSE n

ApiValues(field) ==
  CASE field = "fps" -> ApiFps
    [] field = "width" -> ApiWidth
    [] field = "net" -> {NetOf(n) : n \in ApiNetInput}

Api == \E c \in Clients, f \in Fields : \E v \in ApiValues(f) : Request(c, f, v)

\* The daemon is killed, at any store, and started again by systemd: the state
\* record is new, and events_start sets the configured targets first.
RestartDaemon ==
  /\ restarts < MaxRestarts
  /\ restarts' = restarts + 1
  /\ next' = [s \in Setters |-> IF s = "main" THEN 1 ELSE 0]
  /\ want' = [s \in Setters |-> IF s = "main" THEN Configured ELSE Keep]
  /\ level' = 0 /\ overridden' = FALSE
  /\ UNCHANGED <<segment, detector, inference>>

Setting == \E s \in Setters : StoreField(s) \/ RaiseSeq(s)

-----------------------------------------------------------------------------
(***************************************************************************)
(* The detector's main loop: ctrl_seq is read before the fields.           *)
(***************************************************************************)
ReadSeq ==
  /\ dpc = "seq"
  /\ \/ ctrl_seq # last_ctrl /\ dpc' = "fps" /\ dseq' = ctrl_seq
     \/ ctrl_seq = last_ctrl /\ dpc' = "frame" /\ UNCHANGED dseq
  /\ UNCHANGED <<segment, setters, got, applied, last_ctrl, frameWidth, drawn, inference, restarts>>

ReadField ==
  /\ dpc \in Fields
  /\ got' = [got EXCEPT ![dpc] = target[dpc]]
  /\ dpc' = CASE dpc = "fps" -> "width" [] dpc = "width" -> "net" [] dpc = "net" -> "apply"
  /\ UNCHANGED <<segment, setters, dseq, applied, last_ctrl, frameWidth, drawn, inference, restarts>>

\* Mutant: the sequence number is read again after the fields.
SeqReread == ctrl_seq

SeqRead == dseq

\* Mutant: what is not set yet is taken all the same.
AcceptedAny(f) == got[f]

Accepted(f) == IF got[f] > 0 \/ (f = "net" /\ got[f] # 0) THEN got[f] ELSE applied[f]

Apply ==
  /\ dpc = "apply"
  /\ applied' = [f \in Fields |-> Accepted(f)]
  /\ last_ctrl' = SeqRead
  /\ boxes' = IF applied'.net # applied.net THEN NoBoxes ELSE boxes
  /\ dpc' = "frame" /\ got' = Keep /\ dseq' = 0
  /\ UNCHANGED <<segment, setters, frameWidth, drawn, busy, job, geom_ok, restarts>>

DetectOn == applied.net > 0

\* A frame is resized to the target width.  When the worker is free and the
\* scene moved, or the heartbeat is due, it gets the frame; the boxes drawn
\* are those of the newest result.
Frame(hand) ==
  /\ dpc = "frame"
  /\ hand => DetectOn /\ ~busy
  /\ frameWidth' = applied.width
  /\ drawn' = IF DetectOn THEN boxes ELSE NoBoxes
  /\ busy' = (busy \/ hand)
  /\ job' = IF hand THEN frameWidth' ELSE job
  /\ geom_ok' = IF hand THEN "running" ELSE geom_ok
  /\ dpc' = "seq"
  /\ UNCHANGED <<segment, setters, dseq, got, applied, last_ctrl, boxes, restarts>>

\* The detector restarts with its own copy of the configuration.
RestartDetector ==
  /\ restarts < MaxRestarts
  /\ restarts' = restarts + 1
  /\ dpc' = "seq" /\ dseq' = 0 /\ got' = Keep
  /\ applied' = Configured /\ last_ctrl' = -1
  /\ frameWidth' = 0 /\ drawn' = NoBoxes
  /\ busy' = FALSE /\ job' = NoJob /\ geom_ok' = "running" /\ boxes' = NoBoxes
  /\ UNCHANGED <<segment, setters>>

Detector == ReadSeq \/ ReadField \/ Apply \/ Frame(TRUE) \/ Frame(FALSE)

-----------------------------------------------------------------------------
(***************************************************************************)
(* infer_worker: the geometry is compared outside the lock, the result     *)
(* stored under it; an exception leaves the old result.                    *)
(***************************************************************************)
CompareGeometry ==
  /\ job # NoJob /\ geom_ok = "running"
  /\ geom_ok' = IF job = frameWidth THEN "same" ELSE "changed"
  /\ UNCHANGED <<segment, setters, detector, busy, job, boxes, restarts>>

Done ==
  /\ job' = NoJob /\ geom_ok' = "running"
  /\ UNCHANGED <<segment, setters, detector, restarts>>

StoreResult ==
  /\ geom_ok # "running"
  /\ boxes' = IF geom_ok = "same" THEN job ELSE NoBoxes
  /\ busy' = FALSE
  /\ Done

\* Mutant: infer_busy.clear() is not in a finally block.
BusyAfterError == TRUE

FreeAfterError == FALSE

InferenceFails ==
  /\ job # NoJob /\ geom_ok = "running"
  /\ busy' = FreeAfterError
  /\ Done
  /\ UNCHANGED boxes

-----------------------------------------------------------------------------
\* The daemon has just created the segment, and the detector attached to it.
Init ==
  /\ target = Keep /\ ctrl_seq = 0
  /\ next = [s \in Setters |-> IF s = "main" THEN 1 ELSE 0]
  /\ want = [s \in Setters |-> IF s = "main" THEN Configured ELSE Keep]
  /\ level = 0 /\ overridden = FALSE
  /\ dpc = "seq" /\ dseq = 0 /\ got = Keep
  /\ applied = Configured /\ last_ctrl = -1
  /\ frameWidth = 0 /\ drawn = NoBoxes
  /\ busy = FALSE /\ job = NoJob /\ geom_ok = "running" /\ boxes = NoBoxes
  /\ restarts = 0

Next ==
  \/ Setting
  \/ \E lvl \in NextLevels : Govern(lvl)
  \/ Api
  \/ RestartDaemon
  \/ Detector
  \/ RestartDetector
  \/ CompareGeometry \/ StoreResult \/ InferenceFails

\* Threads run, the camera delivers frames, MOTION_HEARTBEAT passes one to a
\* free worker from time to time, and inference does not fail for ever.
Fairness ==
  /\ \A s \in Setters : WF_vars(StoreField(s) \/ RaiseSeq(s))
  /\ WF_vars(Detector)
  /\ SF_vars(Frame(TRUE))
  /\ WF_vars(CompareGeometry \/ InferenceFails) /\ WF_vars(StoreResult)
  /\ SF_vars(CompareGeometry)

Spec == Init /\ [][Next]_vars /\ Fairness

-----------------------------------------------------------------------------
(***************************************************************************)
(* Properties.                                                             *)
(***************************************************************************)
Targets == [Fields -> Int]
Widths == {0, Configured.width} \union ApiWidth \union {LADDER[i].width : i \in 1 .. 4}

\* Types; the detector never works at a rate or a size of zero.
TypeOK ==
  /\ target \in Targets /\ ctrl_seq \in Nat
  /\ next \in [Setters -> 0 .. 4] /\ want \in [Setters -> Targets]
  /\ level \in 0 .. TopLevel
  /\ dpc \in {"seq", "apply", "frame"} \union Fields
  /\ dseq \in Nat /\ got \in Targets
  /\ applied \in Targets /\ applied.fps > 0 /\ applied.width > 0 /\ applied.net # 0
  /\ last_ctrl \in Int
  /\ {frameWidth, drawn, job, boxes} \subseteq Widths
  /\ busy \in BOOLEAN /\ geom_ok \in {"running", "same", "changed"}
  /\ restarts \in 0 .. MaxRestarts /\ overridden \in BOOLEAN

\* As soon as no setter is at work, a detector that has seen the last ctrl_seq
\* runs at the targets in the segment: no update is missed, although the fields
\* are stored and loaded one by one and a daemon may die in between.  And these
\* targets are one rung of the ladder, that of the thermal level, unless the API
\* interfered: main() and the governor leave no mixture of two rungs behind.
Arrived == last_ctrl = ctrl_seq => \A f \in Fields : target[f] # 0 => applied[f] = target[f]
OnRung == ~overridden => target = TargetOf(level)

Settled == Idle => Arrived /\ OnRung

\* When the setters have become quiet the detector ends up at their targets.
\* Those are the rung of the ladder that the thermal level names, unless an API
\* request was served during or after the change of level.
Converges ==
  /\ <>[]Idle => <>[](applied = target)
  /\ \A l \in 0 .. TopLevel :
       <>[](Idle /\ level = l /\ ~overridden) => <>[](applied = TargetOf(l))

\* Boxes of another geometry are not drawn for ever ("rather than draw a box
\* in the wrong place", guardian_vision.py:839-842): a quiet detector ends up
\* with the boxes of frames as wide as those it draws them on.
BoxesFit == <>[]Idle => <>[](drawn \in {NoBoxes, frameWidth})

-----------------------------------------------------------------------------
(***************************************************************************)
(* The inductive invariant behind Settled.                                 *)
(***************************************************************************)
Targetable(t) == t.fps >= 0 /\ t.width \in Widths

\* No rate is negative and no width unknown, wherever it is on its way.
TargetsKnown ==
  /\ Targetable(target) /\ Targetable(got) /\ Targetable(applied)
  /\ \A s \in Setters : Targetable(want[s])

Loading == dpc \in Fields \union {"apply"}

\* The detector never knows a ctrl_seq that is still to come, and loads only
\* when it is behind.
SeqBehind ==
  /\ dseq <= ctrl_seq /\ last_ctrl <= ctrl_seq
  /\ Loading => last_ctrl < dseq

\* The fields of this round that the detector has loaded.
Loaded ==
  CASE dpc = "width" -> {"fps"} [] dpc = "net" -> {"fps", "width"} [] dpc = "apply" -> Fields
    [] OTHER -> {}

\* Without a setter at work the detector has the targets, loads them, or is
\* going to see that ctrl_seq has changed.
LoadsTargets == Idle /\ Loading /\ dseq = ctrl_seq => \A f \in Loaded : got[f] = target[f]

\* While main() sets the targets no thread of events.c does.
BootFirst == next["main"] # 0 => next["governor"] = 0 /\ level = 0

\* A field that is not that of the level is still to be stored, by main() or by
\* the governor, and no request of the API is at work.
RungPending ==
  ~overridden =>
    /\ \A c \in Clients : next[c] = 0
    /\ \A s \in {"main", "governor"} : next[s] # 0 => want[s] = TargetOf(level)
    /\ \A i \in 1 .. 3 :
         \/ target[Order[i]] = TargetOf(level)[Order[i]]
         \/ \E s \in {"main", "governor"} : next[s] \in 1 .. i

IInv ==
  /\ TypeOK /\ TargetsKnown /\ SeqBehind /\ LoadsTargets /\ Settled
  /\ BootFirst /\ RungPending
=============================================================================
