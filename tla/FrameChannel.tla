---------------------------- MODULE FrameChannel ----------------------------
(***************************************************************************)
(* What the frame transport promises its readers, without sequence numbers *)
(* or retries: frames are begun, completed and published in order, and an  *)
(* attempt to read either fails or returns one whole, completed frame that *)
(* is no older than the frame that was published when the attempt began.   *)
(* (It may be newer, and completed but not yet published.)                 *)
(*                                                                         *)
(* Either side may restart.  A restarted reader has forgotten its attempt. *)
(* A restarted writer gives up the frame it was at, and its first frame in *)
(* each of the two buffers may go unnoticed by attempts under way: those   *)
(* may mix frames, but still return nothing older than what was published  *)
(* when they began.  If the side that prepares the channel dies before it  *)
(* is done, attempts made before the first publication may find a frame of *)
(* zeros.                                                                  *)
(***************************************************************************)
EXTENDS Naturals

CONSTANT Readers

VARIABLES
  begun,     \* the frame begun last, 0 before the first
  stage,     \* what the writer is at: "idle", "writing", "complete"
  completed, \* the frames written in full
  prepared,  \* can readers tell whether anything was published?
  newest,    \* the frame published last, 0 before the first
  unnoticed, \* how many frames this writer may still begin unnoticed
  phase,     \* each reader: "idle", "reading", "done"
  floor,     \* the frame published when the reader's attempt began
  exposed,   \* the readers whose attempt missed the beginning of a frame
  snap       \* what the reader's caller holds

frames == <<begun, stage, completed, prepared, newest, unnoticed>>
attempts == <<phase, floor, exposed, snap>>
vars == <<frames, attempts>>

Nothing == [head |-> 0, body |-> 0]
Whole(f) == [head |-> f, body |-> f]

Init ==
  /\ begun = 0
  /\ stage = "idle"
  /\ completed = {}
  /\ prepared = FALSE
  /\ newest = 0
  /\ unnoticed = 0
  /\ phase = [r \in Readers |-> "idle"]
  /\ floor = [r \in Readers |-> 0]
  /\ exposed = {}
  /\ snap = [r \in Readers |-> Nothing]

Reading == {r \in Readers : phase[r] = "reading"}

Prepare ==
  /\ prepared' = TRUE
  /\ UNCHANGED <<begun, stage, completed, newest, unnoticed, attempts>>

Begin ==
  /\ stage = "idle"
  /\ stage' = "writing"
  /\ begun' = begun + 1
  /\ \/ UNCHANGED <<unnoticed, exposed>>
     \/ /\ unnoticed > 0
        /\ unnoticed' = unnoticed - 1
        /\ \E R \in SUBSET Reading : exposed' = exposed \union R
  /\ UNCHANGED <<completed, prepared, newest, phase, floor, snap>>

Complete ==
  /\ stage = "writing"
  /\ stage' = "complete"
  /\ completed' = completed \union {begun}
  /\ UNCHANGED <<begun, prepared, newest, unnoticed, attempts>>

Publish ==
  /\ stage = "complete"
  /\ stage' = "idle"
  /\ newest' = begun
  /\ prepared' = TRUE
  /\ UNCHANGED <<begun, completed, unnoticed, attempts>>

RestartWriter ==
  /\ stage' = "idle"
  /\ unnoticed' \in 0 .. 2
  /\ UNCHANGED <<begun, completed, prepared, newest, attempts>>

Attempt(r) ==
  /\ phase[r] = "idle"
  /\ newest > 0 \/ ~prepared
  /\ phase' = [phase EXCEPT ![r] = "reading"]
  /\ floor' = [floor EXCEPT ![r] = newest]
  /\ UNCHANGED <<frames, exposed, snap>>

Return(r) ==
  /\ phase[r] = "reading"
  /\ phase' = [phase EXCEPT ![r] = "done"]
  /\ IF r \in exposed
     THEN \E h, b \in floor[r] .. begun : snap' = [snap EXCEPT ![r] = [head |-> h, body |-> b]]
     ELSE \E f \in completed \union {0} : f >= floor[r] /\ snap' = [snap EXCEPT ![r] = Whole(f)]
  /\ UNCHANGED <<frames, floor, exposed>>

\* The attempt is over: the reader forgets everything about it.
Forget(r) ==
  /\ phase' = [phase EXCEPT ![r] = "idle"]
  /\ floor' = [floor EXCEPT ![r] = 0]
  /\ exposed' = exposed \ {r}
  /\ snap' = [snap EXCEPT ![r] = Nothing]
  /\ UNCHANGED frames

Fail(r) == phase[r] = "reading" /\ Forget(r)
Release(r) == phase[r] = "done" /\ Forget(r)

RestartReaders ==
  /\ phase' = [r \in Readers |-> "idle"]
  /\ floor' = [r \in Readers |-> 0]
  /\ exposed' = {}
  /\ snap' = [r \in Readers |-> Nothing]
  /\ UNCHANGED frames

Next ==
  \/ Prepare \/ Begin \/ Complete \/ Publish \/ RestartWriter
  \/ \E r \in Readers : Attempt(r) \/ Return(r) \/ Fail(r) \/ Release(r)
  \/ RestartReaders

Spec == Init /\ [][Next]_vars
=============================================================================
