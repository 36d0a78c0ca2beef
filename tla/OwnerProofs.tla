---------------------------- MODULE OwnerProofs ----------------------------
(***************************************************************************)
(* Theorems about PlaybackOwner: the type invariant, that what is shown as *)
(* current is what the disk says, that what is audible has an attempt,     *)
(* that nothing is written after the final save, and that positions were   *)
(* heard and the cursor is earned, for every queue, every length of its    *)
(* tracks and every bound.                                                 *)
(*                                                                         *)
(* The handlers compute one world from another, so the proof has a lemma   *)
(* for each: from a consistent world it yields a consistent one, of no     *)
(* older generation. Consistent says of a world what CursorIsCommitted     *)
(* says of a state, and that the gate is open only over an open attempt    *)
(* and only while no plan is kept. Around the worlds, the mailbox holds a  *)
(* repetition only of what was executed, and whatever waits or prepares    *)
(* carries a generation that was current once.                             *)
(*                                                                         *)
(* A second lemma for each handler says what it does with what was heard:  *)
(* from a world whose positions were heard and whose cursor is earned it   *)
(* yields another, and within a generation it moves the cursor only to the *)
(* track the pipeline plays already. That is where the completion of a     *)
(* generation, which carries no track, is of the current one: unless the   *)
(* rendering after it is heard to its end before it is drained, which      *)
(* LateTurns = FALSE excludes.                                             *)
(***************************************************************************)
EXTENDS PlaybackOwner, SequenceTheorems, TLAPS

Statuses == {"Paused", "Playing", "Stopped", "Completed", "Error"}

\* The fields of a world, and their types.
Shape(w) ==
  /\ DOMAIN w = {"own", "disk", "player", "started"}
  /\ DOMAIN w.own = {"queue", "cur", "pos", "status", "failed", "gen", "epoch", "gate", "dirty",
                     "plan", "slot"}
  /\ DOMAIN w.own.slot = {"gen", "occ", "pos", "fresh"}
  /\ DOMAIN w.disk = {"queue", "cur", "pos", "open"}
  /\ DOMAIN w.player = {"gen", "epoch", "occ", "pos", "runs"}

Typed(w) ==
  /\ w.own.queue \in Nat /\ w.own.cur \in Occurrences /\ w.own.pos \in Positions
  /\ w.own.status \in Statuses /\ w.own.gen \in Nat /\ w.own.epoch \in Nat
  /\ w.own.failed \in BOOLEAN /\ w.own.gate \in BOOLEAN /\ w.own.dirty \in BOOLEAN
  /\ w.own.slot.gen \in 0..w.own.gen /\ w.own.slot.occ \in Occurrences
  /\ w.own.slot.pos \in Positions /\ w.own.slot.fresh \in BOOLEAN
  /\ w.disk.pos \in Positions /\ w.disk.open \in BOOLEAN
  /\ w.player.gen \in 0..w.own.gen /\ w.player.epoch \in Nat /\ w.player.occ \in Occurrences
  /\ w.player.pos \in Positions /\ w.player.runs \in BOOLEAN
  /\ w.started \in BOOLEAN

\* A plan ends the occurrence it names or leaves it for another of the queue.
IsPlan(plan) ==
  /\ plan.gen \in Nat /\ plan.to \in Occurrences /\ plan.pos \in Positions
  /\ plan.status \in Statuses /\ plan.failed \in BOOLEAN /\ plan.keeps \in BOOLEAN
  /\ plan.status = "Playing" => plan.to # plan.occ

\* What CursorIsCommitted says of a state, and when the gate may be open.
Consistent(w) ==
  /\ w.own.cur = w.disk.cur /\ w.own.queue = w.disk.queue
  /\ w.own.gate => w.disk.open
  /\ w.own.plan # NoPlan =>
       IsPlan(w.own.plan) /\ w.own.plan.gen = w.own.gen /\ w.own.plan.occ = w.own.cur
       /\ ~w.own.gate

Good(w) == Shape(w) /\ Typed(w) /\ Consistent(w)

\* A handler leaves a good world, of no older generation.
Follows(w, v) == Good(v) /\ w.own.gen <= v.own.gen

\* A handler that leaves the cursor, the status, the gate, the plan and the attempt alone.
Same(w, v) ==
  /\ v.own.cur = w.own.cur /\ v.own.queue = w.own.queue /\ v.own.status = w.own.status
  /\ v.own.gate = w.own.gate /\ v.own.plan = w.own.plan /\ v.disk.open = w.disk.open

\* One that leaves the generation, the track and the positions alone.
LeavesTrack(w, v) ==
  /\ v.own.gen = w.own.gen /\ v.own.cur = w.own.cur /\ v.own.pos = w.own.pos
  /\ v.disk = w.disk /\ v.own.slot = w.own.slot
  /\ v.player.gen = w.player.gen /\ v.player.occ = w.player.occ /\ v.player.pos = w.player.pos

-----------------------------------------------------------------------------
(* What the handlers share.                                                *)

\* Handlers compose.
LEMMA FollowsFollow ==
  ASSUME NEW a, NEW b, NEW c, Good(a), Follows(a, b), Follows(b, c)
  PROVE  Follows(a, c)
BY DEF Follows, Good, Typed

\* A new generation is newer than whatever waits, and no plan is kept for the old one.
LEMMA NewGenerationFollows ==
  ASSUME NEW w, Good(w), w.own.plan = NoPlan
  PROVE  Follows(w, NewGeneration(w)) /\ Same(w, NewGeneration(w))
<1> DEFINE v == NewGeneration(w)
<1>1. Shape(v)
  BY DEF NewGeneration, Good, Shape
<1>2. /\ v.own.queue = w.own.queue /\ v.own.cur = w.own.cur /\ v.own.pos = w.own.pos
      /\ v.own.status = w.own.status /\ v.own.failed = w.own.failed
      /\ v.own.gen = w.own.gen + 1 /\ v.own.epoch = w.own.epoch /\ v.own.gate = w.own.gate
      /\ v.own.dirty = w.own.dirty /\ v.own.plan = w.own.plan
      /\ v.own.slot = w.own.slot
      /\ v.disk = w.disk
      /\ v.player.gen = w.player.gen /\ v.player.epoch = w.player.epoch
      /\ v.player.occ = w.player.occ /\ v.player.pos = w.player.pos /\ v.player.runs = FALSE
      /\ v.started = w.started
  BY DEF NewGeneration, Good, Shape
<1> HIDE DEF v
<1>3. Typed(v)
  <2> USE <1>2 DEF Good, Typed
  <2>1. /\ v.own.queue \in Nat /\ v.own.cur \in Occurrences /\ v.own.pos \in Positions
        /\ v.own.status \in Statuses /\ v.own.gen \in Nat /\ v.own.epoch \in Nat
    OBVIOUS
  <2>2. /\ v.own.slot.gen \in 0..v.own.gen /\ v.own.slot.occ \in Occurrences
        /\ v.own.slot.pos \in Positions /\ v.disk.pos \in Positions
    OBVIOUS
  <2>3. /\ v.player.gen \in 0..v.own.gen /\ v.player.epoch \in Nat
        /\ v.player.occ \in Occurrences /\ v.player.pos \in Positions
    OBVIOUS
  <2>4. /\ v.own.failed \in BOOLEAN /\ v.own.gate \in BOOLEAN /\ v.own.dirty \in BOOLEAN
        /\ v.own.slot.fresh \in BOOLEAN /\ v.disk.open \in BOOLEAN
        /\ v.player.runs \in BOOLEAN /\ v.started \in BOOLEAN
    OBVIOUS
  <2>5. QED  BY <2>1, <2>2, <2>3, <2>4
<1>4. Consistent(v)
  BY <1>2 DEF Good, Consistent, Typed
<1>5. QED  BY <1>1, <1>2, <1>3, <1>4 DEF v, Follows, Same, Good, Typed

\* An accepted control has an epoch of its own.
LEMMA NextEpochFollows ==
  ASSUME NEW w, Good(w)
  PROVE  Follows(w, NextEpoch(w)) /\ Same(w, NextEpoch(w)) /\ NextEpoch(w).own.gen = w.own.gen
<1> DEFINE v == NextEpoch(w)
<1>1. Shape(v)
  BY DEF NextEpoch, Good, Shape
<1>2. /\ v.own.queue = w.own.queue /\ v.own.cur = w.own.cur /\ v.own.pos = w.own.pos
      /\ v.own.status = w.own.status /\ v.own.failed = w.own.failed /\ v.own.gen = w.own.gen
      /\ v.own.epoch = w.own.epoch + 1 /\ v.own.gate = w.own.gate
      /\ v.own.dirty = w.own.dirty /\ v.own.plan = w.own.plan
      /\ v.own.slot = w.own.slot
      /\ v.disk = w.disk
      /\ v.player = w.player
      /\ v.started = w.started
  BY DEF NextEpoch, Good, Shape
<1> HIDE DEF v
<1>3. Typed(v)
  <2> USE <1>2 DEF Good, Typed
  <2>1. /\ v.own.queue \in Nat /\ v.own.cur \in Occurrences /\ v.own.pos \in Positions
        /\ v.own.status \in Statuses /\ v.own.gen \in Nat /\ v.own.epoch \in Nat
    OBVIOUS
  <2>2. /\ v.own.slot.gen \in 0..v.own.gen /\ v.own.slot.occ \in Occurrences
        /\ v.own.slot.pos \in Positions /\ v.disk.pos \in Positions
    OBVIOUS
  <2>3. /\ v.player.gen \in 0..v.own.gen /\ v.player.epoch \in Nat
        /\ v.player.occ \in Occurrences /\ v.player.pos \in Positions
    OBVIOUS
  <2>4. /\ v.own.failed \in BOOLEAN /\ v.own.gate \in BOOLEAN /\ v.own.dirty \in BOOLEAN
        /\ v.own.slot.fresh \in BOOLEAN /\ v.disk.open \in BOOLEAN
        /\ v.player.runs \in BOOLEAN /\ v.started \in BOOLEAN
    OBVIOUS
  <2>5. QED  BY <2>1, <2>2, <2>3, <2>4
<1>4. Consistent(v)
  BY <1>2 DEF Good, Consistent, Typed
<1>5. QED  BY <1>1, <1>2, <1>3, <1>4 DEF v, Follows, Same, Good, Typed

\* A plan that is kept closes the gate.
LEMMA FreezeFollows ==
  ASSUME NEW w, Good(w), NEW plan, IsPlan(plan), plan.gen = w.own.gen, plan.occ = w.own.cur
  PROVE  /\ Follows(w, Freeze(w, plan)) /\ Freeze(w, plan).own.plan = plan
         /\ LeavesTrack(w, Freeze(w, plan)) /\ Freeze(w, plan).own.status = "Error"
<1> DEFINE v == Freeze(w, plan)
<1>1. Shape(v)
  BY DEF Freeze, Good, Shape
<1>2. /\ v.own.queue = w.own.queue /\ v.own.cur = w.own.cur /\ v.own.pos = w.own.pos
      /\ v.own.status = "Error" /\ v.own.failed = TRUE /\ v.own.gen = w.own.gen
      /\ v.own.epoch = w.own.epoch + 1 /\ v.own.gate = FALSE /\ v.own.dirty = w.own.dirty
      /\ v.own.plan = plan
      /\ v.own.slot = w.own.slot
      /\ v.disk = w.disk
      /\ v.player.gen = w.player.gen /\ v.player.epoch = w.player.epoch
      /\ v.player.occ = w.player.occ /\ v.player.pos = w.player.pos /\ v.player.runs = FALSE
      /\ v.started = w.started
  BY DEF Freeze, Good, Shape
<1> HIDE DEF v
<1>3. Typed(v)
  <2> USE <1>2 DEF Good, Typed, Statuses
  <2>1. /\ v.own.queue \in Nat /\ v.own.cur \in Occurrences /\ v.own.pos \in Positions
        /\ v.own.status \in Statuses /\ v.own.gen \in Nat /\ v.own.epoch \in Nat
    OBVIOUS
  <2>2. /\ v.own.slot.gen \in 0..v.own.gen /\ v.own.slot.occ \in Occurrences
        /\ v.own.slot.pos \in Positions /\ v.disk.pos \in Positions
    OBVIOUS
  <2>3. /\ v.player.gen \in 0..v.own.gen /\ v.player.epoch \in Nat
        /\ v.player.occ \in Occurrences /\ v.player.pos \in Positions
    OBVIOUS
  <2>4. /\ v.own.failed \in BOOLEAN /\ v.own.gate \in BOOLEAN /\ v.own.dirty \in BOOLEAN
        /\ v.own.slot.fresh \in BOOLEAN /\ v.disk.open \in BOOLEAN
        /\ v.player.runs \in BOOLEAN /\ v.started \in BOOLEAN
    OBVIOUS
  <2>5. QED  BY <2>1, <2>2, <2>3, <2>4
<1>4. Consistent(v)
  BY <1>2 DEF Good, Consistent, Typed
<1>5. Follows(w, v) /\ LeavesTrack(w, v)
  BY <1>1, <1>2, <1>3, <1>4 DEF Follows, LeavesTrack, Good, Typed
<1>6. QED  BY <1>2, <1>5 DEF v

\* The slot of samples starts over with the current rendering.
LEMMA ResetSlotFollows ==
  ASSUME NEW w, Good(w)
  PROVE  Follows(w, ResetSlot(w)) /\ Same(w, ResetSlot(w))
<1> DEFINE v == ResetSlot(w)
<1>1. Shape(v)
  BY DEF ResetSlot, Good, Shape
<1>2. /\ v.own.queue = w.own.queue /\ v.own.cur = w.own.cur /\ v.own.pos = w.own.pos
      /\ v.own.status = w.own.status /\ v.own.failed = w.own.failed /\ v.own.gen = w.own.gen
      /\ v.own.epoch = w.own.epoch /\ v.own.gate = w.own.gate /\ v.own.dirty = w.own.dirty
      /\ v.own.plan = w.own.plan
      /\ v.own.slot.gen = w.own.gen /\ v.own.slot.occ = w.own.cur
      /\ v.own.slot.pos = w.own.pos /\ v.own.slot.fresh = FALSE
      /\ v.disk = w.disk
      /\ v.player = w.player
      /\ v.started = w.started
  BY DEF ResetSlot, Good, Shape
<1> HIDE DEF v
<1>3. Typed(v)
  <2> USE <1>2 DEF Good, Typed
  <2>1. /\ v.own.queue \in Nat /\ v.own.cur \in Occurrences /\ v.own.pos \in Positions
        /\ v.own.status \in Statuses /\ v.own.gen \in Nat /\ v.own.epoch \in Nat
    OBVIOUS
  <2>2. /\ v.own.slot.gen \in 0..v.own.gen /\ v.own.slot.occ \in Occurrences
        /\ v.own.slot.pos \in Positions /\ v.disk.pos \in Positions
    OBVIOUS
  <2>3. /\ v.player.gen \in 0..v.own.gen /\ v.player.epoch \in Nat
        /\ v.player.occ \in Occurrences /\ v.player.pos \in Positions
    OBVIOUS
  <2>4. /\ v.own.failed \in BOOLEAN /\ v.own.gate \in BOOLEAN /\ v.own.dirty \in BOOLEAN
        /\ v.own.slot.fresh \in BOOLEAN /\ v.disk.open \in BOOLEAN
        /\ v.player.runs \in BOOLEAN /\ v.started \in BOOLEAN
    OBVIOUS
  <2>5. QED  BY <2>1, <2>2, <2>3, <2>4
<1>4. Consistent(v)
  BY <1>2 DEF Good, Consistent, Typed
<1>5. QED  BY <1>1, <1>2, <1>3, <1>4 DEF v, Follows, Same, Good, Typed

\* The slot is renewed or left alone.
LEMMA RefreshSlotFollows ==
  ASSUME NEW w, Good(w)
  PROVE  Follows(w, RefreshSlot(w)) /\ Same(w, RefreshSlot(w))
BY ResetSlotFollows DEF RefreshSlot, Follows, Same, Good, Typed

\* An effect starts a preparation.
LEMMA StartFollows ==
  ASSUME NEW w, Good(w)
  PROVE  Follows(w, Start(w)) /\ Same(w, Start(w))
<1> DEFINE v == Start(w)
<1>1. Shape(v)
  BY DEF Start, Good, Shape
<1>2. /\ v.own.queue = w.own.queue /\ v.own.cur = w.own.cur /\ v.own.pos = w.own.pos
      /\ v.own.status = w.own.status /\ v.own.failed = w.own.failed /\ v.own.gen = w.own.gen
      /\ v.own.epoch = w.own.epoch /\ v.own.gate = w.own.gate /\ v.own.dirty = w.own.dirty
      /\ v.own.plan = w.own.plan
      /\ v.own.slot = w.own.slot
      /\ v.disk = w.disk
      /\ v.player = w.player
      /\ v.started = TRUE
  BY DEF Start, Good, Shape
<1> HIDE DEF v
<1>3. Typed(v)
  <2> USE <1>2 DEF Good, Typed
  <2>1. /\ v.own.queue \in Nat /\ v.own.cur \in Occurrences /\ v.own.pos \in Positions
        /\ v.own.status \in Statuses /\ v.own.gen \in Nat /\ v.own.epoch \in Nat
    OBVIOUS
  <2>2. /\ v.own.slot.gen \in 0..v.own.gen /\ v.own.slot.occ \in Occurrences
        /\ v.own.slot.pos \in Positions /\ v.disk.pos \in Positions
    OBVIOUS
  <2>3. /\ v.player.gen \in 0..v.own.gen /\ v.player.epoch \in Nat
        /\ v.player.occ \in Occurrences /\ v.player.pos \in Positions
    OBVIOUS
  <2>4. /\ v.own.failed \in BOOLEAN /\ v.own.gate \in BOOLEAN /\ v.own.dirty \in BOOLEAN
        /\ v.own.slot.fresh \in BOOLEAN /\ v.disk.open \in BOOLEAN
        /\ v.player.runs \in BOOLEAN /\ v.started \in BOOLEAN
    OBVIOUS
  <2>5. QED  BY <2>1, <2>2, <2>3, <2>4
<1>4. Consistent(v)
  BY <1>2 DEF Good, Consistent, Typed
<1>5. QED  BY <1>1, <1>2, <1>3, <1>4 DEF v, Follows, Same, Good, Typed

\* A sample that is taken is of the current occurrence.
LEMMA SampleFollows ==
  ASSUME NEW w, Good(w)
  PROVE  Follows(w, Sample(w)) /\ Same(w, Sample(w)) /\ Sample(w).own.gen = w.own.gen
<1> DEFINE v     == Sample(w)
           taken == /\ w.own.slot.fresh
                    /\ w.own.plan = NoPlan /\ w.own.status \notin {"Completed", "Error"}
                    /\ w.own.slot.gen = w.own.gen /\ w.own.slot.occ = w.own.cur
<1>1. Shape(v)
  BY DEF Sample, Good, Shape
<1>2. /\ v.own.queue = w.own.queue /\ v.own.cur = w.own.cur
      /\ v.own.pos = IF taken THEN w.own.slot.pos ELSE w.own.pos
      /\ v.own.status = w.own.status /\ v.own.failed = w.own.failed /\ v.own.gen = w.own.gen
      /\ v.own.epoch = w.own.epoch /\ v.own.gate = w.own.gate
      /\ v.own.dirty = (w.own.dirty \/ taken) /\ v.own.plan = w.own.plan
      /\ v.own.slot.gen = w.own.slot.gen /\ v.own.slot.occ = w.own.slot.occ
      /\ v.own.slot.pos = w.own.slot.pos /\ v.own.slot.fresh = FALSE
      /\ v.disk = w.disk
      /\ v.player = w.player
      /\ v.started = w.started
  BY DEF Sample, Good, Shape
<1> HIDE DEF v, taken
<1>3. Typed(v)
  <2> USE <1>2 DEF Good, Typed
  <2>1. /\ v.own.queue \in Nat /\ v.own.cur \in Occurrences /\ v.own.pos \in Positions
        /\ v.own.status \in Statuses /\ v.own.gen \in Nat /\ v.own.epoch \in Nat
    OBVIOUS
  <2>2. /\ v.own.slot.gen \in 0..v.own.gen /\ v.own.slot.occ \in Occurrences
        /\ v.own.slot.pos \in Positions /\ v.disk.pos \in Positions
    OBVIOUS
  <2>3. /\ v.player.gen \in 0..v.own.gen /\ v.player.epoch \in Nat
        /\ v.player.occ \in Occurrences /\ v.player.pos \in Positions
    OBVIOUS
  <2>4. /\ v.own.failed \in BOOLEAN /\ v.own.gate \in BOOLEAN /\ v.own.dirty \in BOOLEAN
        /\ v.own.slot.fresh \in BOOLEAN /\ v.disk.open \in BOOLEAN
        /\ v.player.runs \in BOOLEAN /\ v.started \in BOOLEAN
    OBVIOUS
  <2>5. QED  BY <2>1, <2>2, <2>3, <2>4
<1>4. Consistent(v)
  BY <1>2 DEF Good, Consistent, Typed
<1>5. QED  BY <1>1, <1>2, <1>3, <1>4 DEF v, Follows, Same, Good, Typed

\* A checkpoint writes the position and nothing else.
LEMMA CheckpointFollows ==
  ASSUME NEW w, Good(w), NEW ok \in BOOLEAN
  PROVE  Follows(w, Checkpoint(w, ok)) /\ Same(w, Checkpoint(w, ok))
<1> DEFINE v == [w EXCEPT !.disk.pos = w.own.pos, !.own.dirty = FALSE]
<1>1. Shape(v)
  BY DEF Good, Shape
<1>2. /\ v.own.queue = w.own.queue /\ v.own.cur = w.own.cur /\ v.own.pos = w.own.pos
      /\ v.own.status = w.own.status /\ v.own.failed = w.own.failed /\ v.own.gen = w.own.gen
      /\ v.own.epoch = w.own.epoch /\ v.own.gate = w.own.gate /\ v.own.dirty = FALSE
      /\ v.own.plan = w.own.plan
      /\ v.own.slot = w.own.slot
      /\ v.disk.queue = w.disk.queue /\ v.disk.cur = w.disk.cur /\ v.disk.pos = w.own.pos
      /\ v.disk.open = w.disk.open
      /\ v.player = w.player
      /\ v.started = w.started
  BY DEF Good, Shape
<1> HIDE DEF v
<1>3. Typed(v)
  <2> USE <1>2 DEF Good, Typed
  <2>1. /\ v.own.queue \in Nat /\ v.own.cur \in Occurrences /\ v.own.pos \in Positions
        /\ v.own.status \in Statuses /\ v.own.gen \in Nat /\ v.own.epoch \in Nat
    OBVIOUS
  <2>2. /\ v.own.slot.gen \in 0..v.own.gen /\ v.own.slot.occ \in Occurrences
        /\ v.own.slot.pos \in Positions /\ v.disk.pos \in Positions
    OBVIOUS
  <2>3. /\ v.player.gen \in 0..v.own.gen /\ v.player.epoch \in Nat
        /\ v.player.occ \in Occurrences /\ v.player.pos \in Positions
    OBVIOUS
  <2>4. /\ v.own.failed \in BOOLEAN /\ v.own.gate \in BOOLEAN /\ v.own.dirty \in BOOLEAN
        /\ v.own.slot.fresh \in BOOLEAN /\ v.disk.open \in BOOLEAN
        /\ v.player.runs \in BOOLEAN /\ v.started \in BOOLEAN
    OBVIOUS
  <2>5. QED  BY <2>1, <2>2, <2>3, <2>4
<1>4. Consistent(v)
  BY <1>2 DEF Good, Consistent, Typed
<1>5. Follows(w, v) /\ Same(w, v) /\ Follows(w, w) /\ Same(w, w)
  BY <1>1, <1>2, <1>3, <1>4 DEF Follows, Same, Good, Typed
<1>6. Checkpoint(w, ok) = v \/ Checkpoint(w, ok) = w
  BY DEF Checkpoint, v
<1>7. QED  BY <1>5, <1>6

\* The pipeline of this rendering goes on under the new epoch.
LEMMA RetainFollows ==
  ASSUME NEW w, Good(w)
  PROVE  Follows(w, Retain(w)) /\ Same(w, Retain(w))
<1> DEFINE v == [w EXCEPT !.player.epoch = w.own.epoch]
<1>1. Shape(v)
  BY DEF Good, Shape
<1>2. /\ v.own.queue = w.own.queue /\ v.own.cur = w.own.cur /\ v.own.pos = w.own.pos
      /\ v.own.status = w.own.status /\ v.own.failed = w.own.failed /\ v.own.gen = w.own.gen
      /\ v.own.epoch = w.own.epoch /\ v.own.gate = w.own.gate /\ v.own.dirty = w.own.dirty
      /\ v.own.plan = w.own.plan
      /\ v.own.slot = w.own.slot
      /\ v.disk = w.disk
      /\ v.player.gen = w.player.gen /\ v.player.epoch = w.own.epoch
      /\ v.player.occ = w.player.occ /\ v.player.pos = w.player.pos
      /\ v.player.runs = w.player.runs
      /\ v.started = w.started
  BY DEF Good, Shape
<1> HIDE DEF v
<1>3. Typed(v)
  <2> USE <1>2 DEF Good, Typed
  <2>1. /\ v.own.queue \in Nat /\ v.own.cur \in Occurrences /\ v.own.pos \in Positions
        /\ v.own.status \in Statuses /\ v.own.gen \in Nat /\ v.own.epoch \in Nat
    OBVIOUS
  <2>2. /\ v.own.slot.gen \in 0..v.own.gen /\ v.own.slot.occ \in Occurrences
        /\ v.own.slot.pos \in Positions /\ v.disk.pos \in Positions
    OBVIOUS
  <2>3. /\ v.player.gen \in 0..v.own.gen /\ v.player.epoch \in Nat
        /\ v.player.occ \in Occurrences /\ v.player.pos \in Positions
    OBVIOUS
  <2>4. /\ v.own.failed \in BOOLEAN /\ v.own.gate \in BOOLEAN /\ v.own.dirty \in BOOLEAN
        /\ v.own.slot.fresh \in BOOLEAN /\ v.disk.open \in BOOLEAN
        /\ v.player.runs \in BOOLEAN /\ v.started \in BOOLEAN
    OBVIOUS
  <2>5. QED  BY <2>1, <2>2, <2>3, <2>4
<1>4. Consistent(v)
  BY <1>2 DEF Good, Consistent, Typed
<1>5. QED  BY <1>1, <1>2, <1>3, <1>4 DEF v, Retain, Follows, Same, Good, Typed

\* What commit_terminal writes, whether or not a new generation began.
Written(m, plan, status, gate, leaves) ==
  [m EXCEPT !.own.cur = plan.to, !.own.pos = plan.pos, !.own.status = status,
            !.own.failed = plan.failed, !.own.gate = gate,
            !.own.dirty = FALSE, !.own.plan = NoPlan,
            !.disk = [@ EXCEPT !.cur = plan.to, !.pos = plan.pos, !.open = leaves]]

LEMMA CommittedFields ==
  ASSUME NEW m, Shape(m), NEW plan, NEW status, NEW gate, NEW leaves
  PROVE  LET v == Written(m, plan, status, gate, leaves)
         IN /\ v.own.gen = m.own.gen /\ v.own.epoch = m.own.epoch /\ v.own.queue = m.own.queue
            /\ v.own.slot = m.own.slot /\ v.player = m.player /\ v.started = m.started
            /\ v.own.cur = plan.to /\ v.own.pos = plan.pos /\ v.own.status = status
            /\ v.own.failed = plan.failed /\ v.own.gate = gate /\ v.own.dirty = FALSE
            /\ v.own.plan = NoPlan /\ v.disk.queue = m.disk.queue /\ v.disk.cur = plan.to
            /\ v.disk.pos = plan.pos /\ v.disk.open = leaves /\ Shape(v)
<1> DEFINE v == Written(m, plan, status, gate, leaves)
           u == [m EXCEPT !.own.cur = plan.to, !.own.pos = plan.pos, !.own.status = status,
                          !.own.failed = plan.failed]
           x == [u EXCEPT !.own.gate = gate, !.own.dirty = FALSE, !.own.plan = NoPlan]
           y == [x EXCEPT !.disk = [@ EXCEPT !.cur = plan.to, !.pos = plan.pos,
                                             !.open = leaves]]
<1>1. /\ Shape(u) /\ u.own.gen = m.own.gen /\ u.own.epoch = m.own.epoch
      /\ u.own.queue = m.own.queue /\ u.own.slot = m.own.slot /\ u.player = m.player
      /\ u.started = m.started /\ u.disk = m.disk /\ u.own.cur = plan.to
      /\ u.own.pos = plan.pos /\ u.own.status = status /\ u.own.failed = plan.failed
  BY DEF Shape
<1>2. v = y
  BY DEF Written
<1> HIDE DEF v, u
<1>3. /\ Shape(x) /\ x.own.gen = u.own.gen /\ x.own.epoch = u.own.epoch
      /\ x.own.queue = u.own.queue /\ x.own.slot = u.own.slot /\ x.player = u.player
      /\ x.started = u.started /\ x.disk = u.disk /\ x.own.cur = u.own.cur
      /\ x.own.pos = u.own.pos /\ x.own.status = u.own.status /\ x.own.failed = u.own.failed
      /\ x.own.gate = gate /\ x.own.dirty = FALSE /\ x.own.plan = NoPlan
  BY <1>1 DEF Shape
<1> HIDE DEF x
<1>4. /\ Shape(y) /\ y.own = x.own /\ y.player = x.player /\ y.started = x.started
      /\ y.disk.queue = x.disk.queue /\ y.disk.cur = plan.to /\ y.disk.pos = plan.pos
      /\ y.disk.open = leaves
  BY <1>3 DEF Shape
<1> HIDE DEF y
<1>5. QED  BY <1>1, <1>2, <1>3, <1>4 DEF v

\* A commit that is written, whatever it does to the generation.
LEMMA CommittedFollows ==
  ASSUME NEW w, Good(w), NEW plan, IsPlan(plan), plan.gen = w.own.gen, plan.occ = w.own.cur,
         NEW leaves \in BOOLEAN, NEW moves \in BOOLEAN, NEW status \in Statuses,
         NEW gate \in BOOLEAN, gate => leaves
  PROVE  LET m == IF moves THEN NewGeneration([w EXCEPT !.own.epoch = @ + 1]) ELSE w
             v == Written(m, plan, status, gate, leaves)
         IN /\ Follows(w, v) /\ v.own.plan = NoPlan /\ v.own.status = status
            /\ v.own.cur = plan.to /\ v.own.pos = plan.pos /\ v.disk.pos = plan.pos
            /\ v.own.gen = IF moves THEN w.own.gen + 1 ELSE w.own.gen
            /\ v.own.slot = w.own.slot /\ v.player.gen = w.player.gen
            /\ v.player.occ = w.player.occ /\ v.player.pos = w.player.pos
<1> DEFINE m == IF moves THEN NewGeneration([w EXCEPT !.own.epoch = @ + 1]) ELSE w
           v == Written(m, plan, status, gate, leaves)
<1>a. Shape(m)
  BY DEF NewGeneration, Good, Shape
<1>b. /\ m.own.gen = IF moves THEN w.own.gen + 1 ELSE w.own.gen
      /\ m.own.epoch = IF moves THEN w.own.epoch + 1 ELSE w.own.epoch
      /\ m.own.queue = w.own.queue /\ m.own.slot = w.own.slot /\ m.disk = w.disk
      /\ m.player.gen = w.player.gen /\ m.player.epoch = w.player.epoch
      /\ m.player.occ = w.player.occ /\ m.player.pos = w.player.pos
      /\ m.player.runs = (IF moves THEN FALSE ELSE w.player.runs) /\ m.started = w.started
  BY DEF NewGeneration, Good, Shape
<1> HIDE DEF m
<1>2. /\ v.own.gen = m.own.gen /\ v.own.epoch = m.own.epoch /\ v.own.queue = m.own.queue
      /\ v.own.slot = m.own.slot /\ v.player = m.player /\ v.started = m.started
      /\ v.own.cur = plan.to /\ v.own.pos = plan.pos /\ v.own.status = status
      /\ v.own.failed = plan.failed /\ v.own.gate = gate /\ v.own.dirty = FALSE
      /\ v.own.plan = NoPlan /\ v.disk.queue = m.disk.queue /\ v.disk.cur = plan.to
      /\ v.disk.pos = plan.pos /\ v.disk.open = leaves /\ Shape(v)
  BY <1>a, CommittedFields
<1> HIDE DEF v
<1>3. Typed(v)
  <2> USE <1>b, <1>2 DEF Good, Typed, IsPlan
  <2>1. /\ v.own.queue \in Nat /\ v.own.cur \in Occurrences /\ v.own.pos \in Positions
        /\ v.own.status \in Statuses /\ v.own.gen \in Nat /\ v.own.epoch \in Nat
    OBVIOUS
  <2>2. /\ v.own.slot.gen \in 0..v.own.gen /\ v.own.slot.occ \in Occurrences
        /\ v.own.slot.pos \in Positions /\ v.disk.pos \in Positions
    OBVIOUS
  <2>3. /\ v.player.gen \in 0..v.own.gen /\ v.player.epoch \in Nat
        /\ v.player.occ \in Occurrences /\ v.player.pos \in Positions
    OBVIOUS
  <2>4. /\ v.own.failed \in BOOLEAN /\ v.own.gate \in BOOLEAN /\ v.own.dirty \in BOOLEAN
        /\ v.own.slot.fresh \in BOOLEAN /\ v.disk.open \in BOOLEAN
        /\ v.player.runs \in BOOLEAN /\ v.started \in BOOLEAN
    OBVIOUS
  <2>5. QED  BY <2>1, <2>2, <2>3, <2>4
<1>4. Consistent(v)
  BY <1>b, <1>2 DEF Good, Consistent
<1>5. Follows(w, v)
  BY <1>b, <1>2, <1>3, <1>4 DEF Follows, Good, Typed
<1>6. QED  BY <1>b, <1>2, <1>5 DEF v, m

\* A stale plan is dropped.
LEMMA DroppedFollows ==
  ASSUME NEW w, Good(w)
  PROVE  Follows(w, [w EXCEPT !.own.plan = NoPlan])
<1> DEFINE v == [w EXCEPT !.own.plan = NoPlan]
<1>1. Shape(v)
  BY DEF Good, Shape
<1>2. /\ v.own.queue = w.own.queue /\ v.own.cur = w.own.cur /\ v.own.pos = w.own.pos
      /\ v.own.status = w.own.status /\ v.own.failed = w.own.failed /\ v.own.gen = w.own.gen
      /\ v.own.epoch = w.own.epoch /\ v.own.gate = w.own.gate /\ v.own.dirty = w.own.dirty
      /\ v.own.plan = NoPlan
      /\ v.own.slot = w.own.slot
      /\ v.disk = w.disk
      /\ v.player = w.player
      /\ v.started = w.started
  BY DEF Good, Shape
<1> HIDE DEF v
<1>3. Typed(v)
  <2> USE <1>2 DEF Good, Typed
  <2>1. /\ v.own.queue \in Nat /\ v.own.cur \in Occurrences /\ v.own.pos \in Positions
        /\ v.own.status \in Statuses /\ v.own.gen \in Nat /\ v.own.epoch \in Nat
    OBVIOUS
  <2>2. /\ v.own.slot.gen \in 0..v.own.gen /\ v.own.slot.occ \in Occurrences
        /\ v.own.slot.pos \in Positions /\ v.disk.pos \in Positions
    OBVIOUS
  <2>3. /\ v.player.gen \in 0..v.own.gen /\ v.player.epoch \in Nat
        /\ v.player.occ \in Occurrences /\ v.player.pos \in Positions
    OBVIOUS
  <2>4. /\ v.own.failed \in BOOLEAN /\ v.own.gate \in BOOLEAN /\ v.own.dirty \in BOOLEAN
        /\ v.own.slot.fresh \in BOOLEAN /\ v.disk.open \in BOOLEAN
        /\ v.player.runs \in BOOLEAN /\ v.started \in BOOLEAN
    OBVIOUS
  <2>5. QED  BY <2>1, <2>2, <2>3, <2>4
<1>4. Consistent(v)
  BY <1>2 DEF Good, Consistent, Typed
<1>5. QED  BY <1>1, <1>2, <1>3, <1>4 DEF v, Follows, Same, Good, Typed

\* commit_terminal: committed, kept as a plan, or dropped.
LEMMA CommitFollows ==
  ASSUME NEW w, Good(w), NEW plan, IsPlan(plan), NEW recovery \in BOOLEAN, NEW ok \in BOOLEAN
  PROVE  Follows(w, Commit(w, plan, recovery, ok))
<1> DEFINE leaves == plan.to # plan.occ
           moves  == leaves \/ recovery
           status == IF recovery /\ plan.status = "Playing" THEN "Paused" ELSE plan.status
           gate   == status = "Playing"
           m == IF moves THEN NewGeneration([w EXCEPT !.own.epoch = @ + 1]) ELSE w
           v == Written(m, plan, status, gate, leaves)
<1>1. CASE plan.gen # w.own.gen \/ plan.occ # w.own.cur
  BY <1>1, DroppedFollows DEF Commit
<1>2. CASE /\ plan.gen = w.own.gen /\ plan.occ = w.own.cur
           /\ ~ok \/ ~(plan.keeps \/ w.disk.open)
  BY <1>2, FreezeFollows DEF Commit
<1>3. CASE /\ plan.gen = w.own.gen /\ plan.occ = w.own.cur
           /\ ok /\ (plan.keeps \/ w.disk.open)
  <2>1. /\ status \in Statuses /\ leaves \in BOOLEAN /\ moves \in BOOLEAN
        /\ gate \in BOOLEAN /\ (gate => leaves)
    BY DEF IsPlan, Statuses
  <2>2. Commit(w, plan, recovery, ok) = v
    BY <1>3 DEF Commit, Written
  <2> HIDE DEF status, moves, leaves, gate
  <2>3. Follows(w, v)
    BY <1>3, <2>1, CommittedFollows
  <2>4. QED  BY <2>2, <2>3
<1>4. QED  BY <1>1, <1>2, <1>3

\* A handoff that is adopted: the successor is current, and on disk.
LEMMA AdoptedFollows ==
  ASSUME NEW w, Good(w), w.own.plan = NoPlan, NEW status \in Statuses
  PROVE  LET v == [w EXCEPT
           !.own.cur = w.player.occ, !.own.pos = w.player.pos, !.own.status = status,
           !.own.failed = FALSE, !.own.dirty = FALSE,
           !.disk = [@ EXCEPT !.cur = w.player.occ, !.pos = w.player.pos]]
         IN /\ Follows(w, v) /\ v.own.gen = w.own.gen /\ v.own.cur = w.player.occ
            /\ v.own.pos = w.player.pos /\ v.disk.pos = w.player.pos
            /\ v.own.status = status /\ v.own.plan = NoPlan
            /\ v.own.slot = w.own.slot /\ v.player = w.player
<1> DEFINE v == [w EXCEPT !.own.cur = w.player.occ, !.own.pos = w.player.pos, !.own.status = status,
                          !.own.failed = FALSE, !.own.dirty = FALSE,
                          !.disk = [@ EXCEPT !.cur = w.player.occ, !.pos = w.player.pos]]
           u1 == [w EXCEPT !.own.cur = w.player.occ, !.own.pos = w.player.pos,
                             !.own.status = status]
           u2 == [u1 EXCEPT !.own.failed = FALSE, !.own.dirty = FALSE]
           u3 == [u2 EXCEPT !.disk = [@ EXCEPT !.cur = w.player.occ, !.pos = w.player.pos]]
<1>a. v = u3
  OBVIOUS
<1> HIDE DEF v
<1>u1. /\ Shape(u1)
      /\ u1.own.queue = w.own.queue /\ u1.own.cur = w.player.occ /\ u1.own.pos = w.player.pos
      /\ u1.own.status = status /\ u1.own.failed = w.own.failed /\ u1.own.gen = w.own.gen
      /\ u1.own.epoch = w.own.epoch /\ u1.own.gate = w.own.gate /\ u1.own.dirty = w.own.dirty
      /\ u1.own.plan = w.own.plan
      /\ u1.own.slot = w.own.slot
      /\ u1.disk = w.disk
      /\ u1.player = w.player
      /\ u1.started = w.started
  BY DEF Good, Shape
<1> HIDE DEF u1
<1>u2. /\ Shape(u2)
      /\ u2.own.queue = u1.own.queue /\ u2.own.cur = u1.own.cur /\ u2.own.pos = u1.own.pos
      /\ u2.own.status = u1.own.status /\ u2.own.failed = FALSE /\ u2.own.gen = u1.own.gen
      /\ u2.own.epoch = u1.own.epoch /\ u2.own.gate = u1.own.gate /\ u2.own.dirty = FALSE
      /\ u2.own.plan = u1.own.plan
      /\ u2.own.slot = u1.own.slot
      /\ u2.disk = u1.disk
      /\ u2.player = u1.player
      /\ u2.started = u1.started
  BY <1>u1 DEF Good, Shape
<1> HIDE DEF u2
<1>u3. /\ Shape(u3)
      /\ u3.own.queue = u2.own.queue /\ u3.own.cur = u2.own.cur /\ u3.own.pos = u2.own.pos
      /\ u3.own.status = u2.own.status /\ u3.own.failed = u2.own.failed /\ u3.own.gen = u2.own.gen
      /\ u3.own.epoch = u2.own.epoch /\ u3.own.gate = u2.own.gate /\ u3.own.dirty = u2.own.dirty
      /\ u3.own.plan = u2.own.plan
      /\ u3.own.slot = u2.own.slot
      /\ u3.disk.queue = u2.disk.queue /\ u3.disk.cur = w.player.occ
      /\ u3.disk.pos = w.player.pos /\ u3.disk.open = u2.disk.open
      /\ u3.player = u2.player
      /\ u3.started = u2.started
  BY <1>u2 DEF Good, Shape
<1> HIDE DEF u3
<1>1. Shape(v)
  BY <1>a, <1>u3
<1>2. /\ v.own.queue = w.own.queue /\ v.own.cur = w.player.occ /\ v.own.pos = w.player.pos
      /\ v.own.status = status /\ v.own.failed = FALSE /\ v.own.gen = w.own.gen
      /\ v.own.epoch = w.own.epoch /\ v.own.gate = w.own.gate /\ v.own.dirty = FALSE
      /\ v.own.plan = w.own.plan
      /\ v.own.slot = w.own.slot
      /\ v.disk.queue = w.disk.queue /\ v.disk.cur = w.player.occ
      /\ v.disk.pos = w.player.pos /\ v.disk.open = w.disk.open
      /\ v.player = w.player
      /\ v.started = w.started
  BY <1>a, <1>u1, <1>u2, <1>u3
<1>3. Typed(v)
  <2> USE <1>2 DEF Good, Typed
  <2>1. /\ v.own.queue \in Nat /\ v.own.cur \in Occurrences /\ v.own.pos \in Positions
        /\ v.own.status \in Statuses /\ v.own.gen \in Nat /\ v.own.epoch \in Nat
    OBVIOUS
  <2>2. /\ v.own.slot.gen \in 0..v.own.gen /\ v.own.slot.occ \in Occurrences
        /\ v.own.slot.pos \in Positions /\ v.disk.pos \in Positions
    OBVIOUS
  <2>3. /\ v.player.gen \in 0..v.own.gen /\ v.player.epoch \in Nat
        /\ v.player.occ \in Occurrences /\ v.player.pos \in Positions
    OBVIOUS
  <2>4. /\ v.own.failed \in BOOLEAN /\ v.own.gate \in BOOLEAN /\ v.own.dirty \in BOOLEAN
        /\ v.own.slot.fresh \in BOOLEAN /\ v.disk.open \in BOOLEAN
        /\ v.player.runs \in BOOLEAN /\ v.started \in BOOLEAN
    OBVIOUS
  <2>5. QED  BY <2>1, <2>2, <2>3, <2>4
<1>4. Consistent(v)
  BY <1>2 DEF Good, Consistent, Typed
<1>5. Follows(w, v)
  BY <1>1, <1>2, <1>3, <1>4 DEF Follows, Good, Typed
<1>6. QED  BY <1>2, <1>5 DEF v

\* reconcile_presented_handoff.
LEMMA AdoptFollows ==
  ASSUME NEW w, Good(w), NEW ok \in BOOLEAN
  PROVE  Follows(w, Adopt(w, ok))
<1> DEFINE plan == Plan(w, w.player.occ, w.player.pos, "Paused", FALSE, FALSE)
           status == IF w.own.gate THEN "Playing" ELSE "Paused"
           v == [w EXCEPT
                   !.own.cur = w.player.occ, !.own.pos = w.player.pos, !.own.status = status,
                   !.own.failed = FALSE, !.own.dirty = FALSE,
                   !.disk = [@ EXCEPT !.cur = w.player.occ, !.pos = w.player.pos]]
<1>1. CASE ~Adopts(w)
  BY <1>1 DEF Adopt, Follows, Good, Typed
<1>2. CASE Adopts(w) /\ ~(ok /\ w.disk.open)
  <2>1. IsPlan(plan) /\ plan.gen = w.own.gen /\ plan.occ = w.own.cur
    BY DEF Plan, IsPlan, Good, Typed, Statuses
  <2> HIDE DEF plan
  <2>2. Follows(w, Freeze(w, plan))
    BY <2>1, FreezeFollows
  <2>3. QED  BY <1>2, <2>2 DEF Adopt, plan
<1>3. CASE Adopts(w) /\ ok /\ w.disk.open
  <2>1. status \in Statuses
    BY DEF Statuses
  <2>2. Adopt(w, ok) = ResetSlot(v)
    BY <1>3 DEF Adopt
  <2> HIDE DEF status
  <2>3. Follows(w, v)
    BY <1>3, <2>1, AdoptedFollows DEF Adopts
  <2> HIDE DEF v
  <2>4. Follows(v, ResetSlot(v))
    BY <2>3, ResetSlotFollows DEF Follows
  <2>5. QED  BY <2>2, <2>3, <2>4, FollowsFollow
<1>4. QED  BY <1>1, <1>2, <1>3

-----------------------------------------------------------------------------
(* The commands and the events.                                            *)

\* Another attempt is open afterwards.
LEMMA ReopenedFollows ==
  ASSUME NEW w, Good(w)
  PROVE  /\ Follows(w, Reopened(w)) /\ Reopened(w).own.plan = w.own.plan
         /\ Reopened(w).own.gate = w.own.gate /\ Reopened(w).disk.open
         /\ Reopened(w).own.pos \in {0, w.own.pos}
         /\ Reopened(w).disk.pos \in {w.disk.pos, Reopened(w).own.pos}
         /\ Reopened(w).own.gen = w.own.gen /\ Reopened(w).own.cur = w.own.cur
         /\ Reopened(w).own.status = w.own.status
         /\ Reopened(w).own.slot = w.own.slot /\ Reopened(w).player = w.player
<1> DEFINE pos == IF w.own.status = "Completed" THEN 0 ELSE w.own.pos
           v   == [w EXCEPT !.own.pos = pos, !.own.dirty = FALSE,
                          !.disk = [@ EXCEPT !.pos = pos, !.open = TRUE]]
<1>p. pos \in Positions
  BY OwnerAssumption DEF Good, Typed, Positions
<1>q. pos \in {0, w.own.pos}
  OBVIOUS
<1> HIDE DEF pos
<1>1. Shape(v)
  BY DEF Good, Shape
<1>2. /\ v.own.queue = w.own.queue /\ v.own.cur = w.own.cur /\ v.own.pos = pos
      /\ v.own.status = w.own.status /\ v.own.failed = w.own.failed /\ v.own.gen = w.own.gen
      /\ v.own.epoch = w.own.epoch /\ v.own.gate = w.own.gate /\ v.own.dirty = FALSE
      /\ v.own.plan = w.own.plan
      /\ v.own.slot = w.own.slot
      /\ v.disk.queue = w.disk.queue /\ v.disk.cur = w.disk.cur /\ v.disk.pos = pos
      /\ v.disk.open = TRUE
      /\ v.player = w.player
      /\ v.started = w.started
  BY DEF Good, Shape
<1> HIDE DEF v
<1>3. Typed(v)
  <2> USE <1>2, <1>p DEF Good, Typed
  <2>1. /\ v.own.queue \in Nat /\ v.own.cur \in Occurrences /\ v.own.pos \in Positions
        /\ v.own.status \in Statuses /\ v.own.gen \in Nat /\ v.own.epoch \in Nat
    OBVIOUS
  <2>2. /\ v.own.slot.gen \in 0..v.own.gen /\ v.own.slot.occ \in Occurrences
        /\ v.own.slot.pos \in Positions /\ v.disk.pos \in Positions
    OBVIOUS
  <2>3. /\ v.player.gen \in 0..v.own.gen /\ v.player.epoch \in Nat
        /\ v.player.occ \in Occurrences /\ v.player.pos \in Positions
    OBVIOUS
  <2>4. /\ v.own.failed \in BOOLEAN /\ v.own.gate \in BOOLEAN /\ v.own.dirty \in BOOLEAN
        /\ v.own.slot.fresh \in BOOLEAN /\ v.disk.open \in BOOLEAN
        /\ v.player.runs \in BOOLEAN /\ v.started \in BOOLEAN
    OBVIOUS
  <2>5. QED  BY <2>1, <2>2, <2>3, <2>4
<1>4. Consistent(v)
  BY <1>2 DEF Good, Consistent, Typed
<1>5. Reopened(w) = IF w.disk.open THEN w ELSE v
  BY DEF Reopened, v, pos
<1>6. Follows(w, w) /\ Follows(w, v)
  BY <1>1, <1>2, <1>3, <1>4 DEF Follows, Good, Typed
<1>7. QED  BY <1>2, <1>5, <1>6, <1>q

\* Playback starts over an open attempt only.
LEMMA PlayingFollows ==
  ASSUME NEW w, Good(w), w.own.plan = NoPlan, w.disk.open
  PROVE  Follows(w, Playing(w))
<1> DEFINE v == [w EXCEPT !.own.gate = TRUE, !.own.status = "Playing", !.own.failed = FALSE]
<1>1. Shape(v)
  BY DEF Good, Shape
<1>2. /\ v.own.queue = w.own.queue /\ v.own.cur = w.own.cur /\ v.own.pos = w.own.pos
      /\ v.own.status = "Playing" /\ v.own.failed = FALSE /\ v.own.gen = w.own.gen
      /\ v.own.epoch = w.own.epoch /\ v.own.gate = TRUE /\ v.own.dirty = w.own.dirty
      /\ v.own.plan = w.own.plan
      /\ v.own.slot = w.own.slot
      /\ v.disk = w.disk
      /\ v.player = w.player
      /\ v.started = w.started
  BY DEF Good, Shape
<1> HIDE DEF v
<1>3. Typed(v)
  <2> USE <1>2 DEF Good, Typed, Statuses
  <2>1. /\ v.own.queue \in Nat /\ v.own.cur \in Occurrences /\ v.own.pos \in Positions
        /\ v.own.status \in Statuses /\ v.own.gen \in Nat /\ v.own.epoch \in Nat
    OBVIOUS
  <2>2. /\ v.own.slot.gen \in 0..v.own.gen /\ v.own.slot.occ \in Occurrences
        /\ v.own.slot.pos \in Positions /\ v.disk.pos \in Positions
    OBVIOUS
  <2>3. /\ v.player.gen \in 0..v.own.gen /\ v.player.epoch \in Nat
        /\ v.player.occ \in Occurrences /\ v.player.pos \in Positions
    OBVIOUS
  <2>4. /\ v.own.failed \in BOOLEAN /\ v.own.gate \in BOOLEAN /\ v.own.dirty \in BOOLEAN
        /\ v.own.slot.fresh \in BOOLEAN /\ v.disk.open \in BOOLEAN
        /\ v.player.runs \in BOOLEAN /\ v.started \in BOOLEAN
    OBVIOUS
  <2>5. QED  BY <2>1, <2>2, <2>3, <2>4
<1>4. Consistent(v)
  BY <1>2 DEF Good, Consistent, Typed
<1>5. Follows(w, v)
  BY <1>1, <1>2, <1>3, <1>4 DEF Follows, Good, Typed
<1>6. Follows(v, Start(v))
  BY <1>5, StartFollows DEF Follows
<1>7. Playing(w) = Start(v)
  BY DEF Playing, v
<1>8. QED  BY <1>5, <1>6, <1>7, FollowsFollow

\* Pause.
LEMMA PauseFollows ==
  ASSUME NEW w, Good(w)
  PROVE  Follows(w, Pause(w).world)
<1> DEFINE pos == Captured(w)
           v   == [w EXCEPT !.own.pos = pos, !.own.gate = FALSE, !.own.status = "Paused"]
<1>p. pos \in Positions
  BY DEF Captured, Good, Typed
<1> HIDE DEF pos
<1>1. Shape(v)
  BY DEF Good, Shape
<1>2. /\ v.own.queue = w.own.queue /\ v.own.cur = w.own.cur /\ v.own.pos = pos
      /\ v.own.status = "Paused" /\ v.own.failed = w.own.failed /\ v.own.gen = w.own.gen
      /\ v.own.epoch = w.own.epoch /\ v.own.gate = FALSE /\ v.own.dirty = w.own.dirty
      /\ v.own.plan = w.own.plan
      /\ v.own.slot = w.own.slot
      /\ v.disk = w.disk
      /\ v.player = w.player
      /\ v.started = w.started
  BY DEF Good, Shape
<1> HIDE DEF v
<1>3. Typed(v)
  <2> USE <1>2, <1>p DEF Good, Typed, Statuses
  <2>1. /\ v.own.queue \in Nat /\ v.own.cur \in Occurrences /\ v.own.pos \in Positions
        /\ v.own.status \in Statuses /\ v.own.gen \in Nat /\ v.own.epoch \in Nat
    OBVIOUS
  <2>2. /\ v.own.slot.gen \in 0..v.own.gen /\ v.own.slot.occ \in Occurrences
        /\ v.own.slot.pos \in Positions /\ v.disk.pos \in Positions
    OBVIOUS
  <2>3. /\ v.player.gen \in 0..v.own.gen /\ v.player.epoch \in Nat
        /\ v.player.occ \in Occurrences /\ v.player.pos \in Positions
    OBVIOUS
  <2>4. /\ v.own.failed \in BOOLEAN /\ v.own.gate \in BOOLEAN /\ v.own.dirty \in BOOLEAN
        /\ v.own.slot.fresh \in BOOLEAN /\ v.disk.open \in BOOLEAN
        /\ v.player.runs \in BOOLEAN /\ v.started \in BOOLEAN
    OBVIOUS
  <2>5. QED  BY <2>1, <2>2, <2>3, <2>4
<1>4. Consistent(v)
  BY <1>2 DEF Good, Consistent, Typed
<1>5. Follows(w, v)
  BY <1>1, <1>2, <1>3, <1>4 DEF Follows, Good, Typed
<1>6. Follows(v, NextEpoch(v))
  BY <1>5, NextEpochFollows DEF Follows
<1>7. Follows(NextEpoch(v), Retain(NextEpoch(v)))
  BY <1>6, RetainFollows DEF Follows
<1>8. Pause(w).world = Retain(NextEpoch(v))
  BY DEF Pause, Done, v, pos
<1>9. QED  BY <1>5, <1>6, <1>7, <1>8, FollowsFollow

\* Resume.
LEMMA ResumeFollows ==
  ASSUME NEW w, Good(w), w.own.plan = NoPlan, NEW ok \in BOOLEAN
  PROVE  Follows(w, Resume(w, ok).world)
<1> DEFINE reopened == Reopened(w)
           next     == NextEpoch(reopened)
           again    == Retain(next)
           renewed  == IF w.own.status \in {"Completed", "Error"} \/ w.own.failed
                       THEN NewGeneration(again) ELSE again
<1>1. CASE w.own.gate \/ (~w.disk.open /\ ~ok)
  <2>1. Resume(w, ok) \in {Done(w), Refused(w)}
    <3>1. CASE w.own.gate
      BY <3>1, Zenon DEF Resume
    <3>2. CASE ~w.own.gate
      BY <1>1, <3>2, Zenon DEF Resume
    <3>3. QED  BY <3>1, <3>2
  <2>2. Resume(w, ok).world = w
    BY <2>1 DEF Done, Refused
  <2>3. QED
    BY <2>2 DEF Follows, Good, Typed
<1>2. CASE ~(w.own.gate \/ (~w.disk.open /\ ~ok))
  <2>1. Resume(w, ok).world = Playing(renewed)
    BY <1>2 DEF Resume, Done
  <2> HIDE DEF renewed
  <2>2. Follows(w, reopened) /\ reopened.own.plan = NoPlan /\ reopened.disk.open
    BY ReopenedFollows
  <2> HIDE DEF reopened
  <2>3. Follows(reopened, next) /\ next.own.plan = NoPlan /\ next.disk.open
    BY <2>2, NextEpochFollows DEF Follows, Same
  <2> HIDE DEF next
  <2>4. Follows(next, again) /\ again.own.plan = NoPlan /\ again.disk.open
    BY <2>3, RetainFollows DEF Follows, Same
  <2> HIDE DEF again
  <2>5. Follows(again, again)
    BY <2>4 DEF Follows, Good, Typed
  <2>6. Follows(again, NewGeneration(again)) /\ Same(again, NewGeneration(again))
    BY <2>4, NewGenerationFollows DEF Follows
  <2>7. Follows(again, renewed) /\ renewed.own.plan = NoPlan /\ renewed.disk.open
    BY <2>4, <2>5, <2>6 DEF renewed, Same
  <2>8. Follows(renewed, Playing(renewed))
    BY <2>7, PlayingFollows DEF Follows
  <2>9. QED
    BY <2>1, <2>2, <2>3, <2>4, <2>7, <2>8, FollowsFollow
<1>3. QED  BY <1>1, <1>2

\* Retry of what failed.
LEMMA RetryFollows ==
  ASSUME NEW w, Good(w), w.own.plan = NoPlan, NEW ok \in BOOLEAN
  PROVE  Follows(w, Retry(w, ok).world)
<1> DEFINE reopened == Reopened(w)
           next     == NextEpoch(reopened)
           renewed  == NewGeneration(next)
<1>1. CASE w.own.status # "Error" \/ (~w.disk.open /\ ~ok)
  <2>1. Retry(w, ok) = Refused(w)
    BY <1>1, Zenon DEF Retry
  <2>2. Retry(w, ok).world = w
    BY <2>1 DEF Refused
  <2>3. QED
    BY <2>2 DEF Follows, Good, Typed
<1>2. CASE ~(w.own.status # "Error" \/ (~w.disk.open /\ ~ok))
  <2>1. Retry(w, ok).world = Playing(renewed)
    BY <1>2 DEF Retry, Done
  <2>2. Follows(w, reopened) /\ reopened.own.plan = NoPlan /\ reopened.disk.open
    BY ReopenedFollows
  <2> HIDE DEF reopened
  <2>3. Follows(reopened, next) /\ next.own.plan = NoPlan /\ next.disk.open
    BY <2>2, NextEpochFollows DEF Follows, Same
  <2> HIDE DEF next
  <2>4. Follows(next, renewed) /\ renewed.own.plan = NoPlan /\ renewed.disk.open
    BY <2>3, NewGenerationFollows DEF Follows, Same
  <2> HIDE DEF renewed
  <2>5. Follows(renewed, Playing(renewed))
    BY <2>4, PlayingFollows DEF Follows
  <2>6. QED
    BY <2>1, <2>2, <2>3, <2>4, <2>5, FollowsFollow
<1>3. QED  BY <1>1, <1>2

\* Next.
LEMMA SkipToFollows ==
  ASSUME NEW w, Good(w), w.own.plan = NoPlan, NEW ok \in BOOLEAN
  PROVE  Follows(w, SkipTo(w, ok).world)
<1> DEFINE status == IF w.own.status = "Playing" THEN "Playing"
                     ELSE IF w.own.status \in {"Stopped", "Completed"} THEN "Stopped"
                     ELSE "Paused"
           plan == Plan(w, w.own.cur + 1, 0, status, FALSE, ~w.disk.open)
           next == NextEpoch(w)
           left == Commit(next, plan, FALSE, ok)
<1>1. CASE w.own.cur = Last
  <2>1. SkipTo(w, ok) = Refused(w)
    BY <1>1, Zenon DEF SkipTo
  <2>2. SkipTo(w, ok).world = w
    BY <2>1 DEF Refused
  <2>3. QED
    BY <2>2 DEF Follows, Good, Typed
<1>2. CASE w.own.cur # Last
  <2>1. \/ SkipTo(w, ok).world = left
        \/ SkipTo(w, ok).world = Start(left)
    BY <1>2 DEF SkipTo, Done, Refused
  <2>2. status \in Statuses
    BY DEF Statuses
  <2> HIDE DEF status
  <2>3. w.own.cur + 1 \in Occurrences /\ w.own.cur # w.own.cur + 1 /\ 0 \in Positions
    BY <1>2, OwnerAssumption DEF Good, Typed, Occurrences, Positions
  <2>4. IsPlan(plan)
    BY <2>2, <2>3 DEF IsPlan, Plan, Good, Typed
  <2> HIDE DEF plan
  <2>5. Follows(w, next)
    BY NextEpochFollows
  <2> HIDE DEF next
  <2>6. Follows(next, left)
    BY <2>4, <2>5, CommitFollows DEF Follows
  <2> HIDE DEF left
  <2>7. Follows(left, Start(left))
    BY <2>6, StartFollows DEF Follows
  <2>8. QED
    BY <2>1, <2>5, <2>6, <2>7, FollowsFollow
<1>3. QED  BY <1>1, <1>2

\* Stop drops the plan, silences the gate and returns to the beginning.
LEMMA StoppedFollows ==
  ASSUME NEW w, Good(w)
  PROVE  LET v == [w EXCEPT !.own.plan = NoPlan, !.own.gate = FALSE, !.own.pos = 0,
                            !.own.status = "Stopped", !.own.dirty = TRUE]
         IN /\ Follows(w, v) /\ v.own.plan = NoPlan /\ v.own.gen = w.own.gen
            /\ v.own.cur = w.own.cur /\ v.own.pos = 0 /\ v.own.status = "Stopped"
            /\ v.disk = w.disk /\ v.own.slot = w.own.slot /\ v.player = w.player
<1> DEFINE v == [w EXCEPT !.own.plan = NoPlan, !.own.gate = FALSE, !.own.pos = 0,
                          !.own.status = "Stopped", !.own.dirty = TRUE]
           u1 == [w EXCEPT !.own.plan = NoPlan, !.own.gate = FALSE, !.own.pos = 0]
           u2 == [u1 EXCEPT !.own.status = "Stopped", !.own.dirty = TRUE]
<1>p. 0 \in Positions
  BY OwnerAssumption DEF Positions
<1>a. v = u2
  OBVIOUS
<1> HIDE DEF v
<1>u1. /\ Shape(u1)
      /\ u1.own.queue = w.own.queue /\ u1.own.cur = w.own.cur /\ u1.own.pos = 0
      /\ u1.own.status = w.own.status /\ u1.own.failed = w.own.failed /\ u1.own.gen = w.own.gen
      /\ u1.own.epoch = w.own.epoch /\ u1.own.gate = FALSE /\ u1.own.dirty = w.own.dirty
      /\ u1.own.plan = NoPlan
      /\ u1.own.slot = w.own.slot
      /\ u1.disk = w.disk
      /\ u1.player = w.player
      /\ u1.started = w.started
  BY DEF Good, Shape
<1> HIDE DEF u1
<1>u2. /\ Shape(u2)
      /\ u2.own.queue = u1.own.queue /\ u2.own.cur = u1.own.cur /\ u2.own.pos = u1.own.pos
      /\ u2.own.status = "Stopped" /\ u2.own.failed = u1.own.failed /\ u2.own.gen = u1.own.gen
      /\ u2.own.epoch = u1.own.epoch /\ u2.own.gate = u1.own.gate /\ u2.own.dirty = TRUE
      /\ u2.own.plan = u1.own.plan
      /\ u2.own.slot = u1.own.slot
      /\ u2.disk = u1.disk
      /\ u2.player = u1.player
      /\ u2.started = u1.started
  BY <1>u1 DEF Good, Shape
<1> HIDE DEF u2
<1>1. Shape(v)
  BY <1>a, <1>u2
<1>2. /\ v.own.queue = w.own.queue /\ v.own.cur = w.own.cur /\ v.own.pos = 0
      /\ v.own.status = "Stopped" /\ v.own.failed = w.own.failed /\ v.own.gen = w.own.gen
      /\ v.own.epoch = w.own.epoch /\ v.own.gate = FALSE /\ v.own.dirty = TRUE
      /\ v.own.plan = NoPlan
      /\ v.own.slot = w.own.slot
      /\ v.disk = w.disk
      /\ v.player = w.player
      /\ v.started = w.started
  BY <1>a, <1>u1, <1>u2
<1>3. Typed(v)
  <2> USE <1>2, <1>p DEF Good, Typed, Statuses
  <2>1. /\ v.own.queue \in Nat /\ v.own.cur \in Occurrences /\ v.own.pos \in Positions
        /\ v.own.status \in Statuses /\ v.own.gen \in Nat /\ v.own.epoch \in Nat
    OBVIOUS
  <2>2. /\ v.own.slot.gen \in 0..v.own.gen /\ v.own.slot.occ \in Occurrences
        /\ v.own.slot.pos \in Positions /\ v.disk.pos \in Positions
    OBVIOUS
  <2>3. /\ v.player.gen \in 0..v.own.gen /\ v.player.epoch \in Nat
        /\ v.player.occ \in Occurrences /\ v.player.pos \in Positions
    OBVIOUS
  <2>4. /\ v.own.failed \in BOOLEAN /\ v.own.gate \in BOOLEAN /\ v.own.dirty \in BOOLEAN
        /\ v.own.slot.fresh \in BOOLEAN /\ v.disk.open \in BOOLEAN
        /\ v.player.runs \in BOOLEAN /\ v.started \in BOOLEAN
    OBVIOUS
  <2>5. QED  BY <2>1, <2>2, <2>3, <2>4
<1>4. Consistent(v)
  BY <1>2, <1>p DEF Good, Consistent, Typed
<1>5. Follows(w, v)
  BY <1>1, <1>2, <1>3, <1>4 DEF Follows, Good, Typed
<1>6. QED  BY <1>2, <1>5 DEF v

\* Stop, with the checkpoint of its position.
LEMMA StopFollows ==
  ASSUME NEW w, Good(w), NEW ok \in BOOLEAN
  PROVE  Follows(w, Stop(w, ok).world)
<1> DEFINE v    == [w EXCEPT !.own.plan = NoPlan, !.own.gate = FALSE, !.own.pos = 0,
                             !.own.status = "Stopped", !.own.dirty = TRUE]
           next == NextEpoch(v)
           renewed == NewGeneration(next)
<1>1. Stop(w, ok).world = Checkpoint(renewed, ok)
  BY DEF Stop, Done, Refused
<1>2. Follows(w, v) /\ v.own.plan = NoPlan
  BY StoppedFollows
<1> HIDE DEF v
<1>3. Follows(v, next) /\ next.own.plan = NoPlan
  BY <1>2, NextEpochFollows DEF Follows, Same
<1> HIDE DEF next
<1>4. Follows(next, renewed)
  BY <1>3, NewGenerationFollows DEF Follows
<1> HIDE DEF renewed
<1>5. Follows(renewed, Checkpoint(renewed, ok))
  BY <1>4, CheckpointFollows DEF Follows
<1>6. QED  BY <1>1, <1>2, <1>3, <1>4, <1>5, FollowsFollow

\* A new queue starts at its first occurrence, which is on disk with an open attempt.
LEMMA ReplacedFollows ==
  ASSUME NEW w, Good(w), NEW queue \in Nat
  PROVE  LET v == [w EXCEPT !.own.queue = queue, !.own.cur = 1, !.own.pos = 0,
                            !.own.dirty = FALSE, !.own.plan = NoPlan,
                            !.disk = [queue |-> queue, cur |-> 1, pos |-> 0, open |-> TRUE]]
         IN /\ Follows(w, v) /\ v.own.plan = NoPlan /\ v.disk.open
            /\ v.own.gen = w.own.gen /\ v.own.cur = 1 /\ v.own.pos = 0 /\ v.disk.pos = 0
            /\ v.own.slot = w.own.slot /\ v.player = w.player
<1> DEFINE v == [w EXCEPT !.own.queue = queue, !.own.cur = 1, !.own.pos = 0, !.own.dirty = FALSE,
                          !.own.plan = NoPlan,
                          !.disk = [queue |-> queue, cur |-> 1, pos |-> 0, open |-> TRUE]]
           u1 == [w EXCEPT !.own.queue = queue, !.own.cur = 1, !.own.pos = 0]
           u2 == [u1 EXCEPT !.own.dirty = FALSE, !.own.plan = NoPlan]
           u3 == [u2 EXCEPT !.disk = [queue |-> queue, cur |-> 1, pos |-> 0, open |-> TRUE]]
<1>p. 0 \in Positions /\ 1 \in Occurrences
  BY OwnerAssumption DEF Positions, Occurrences
<1>a. v = u3
  OBVIOUS
<1> HIDE DEF v
<1>u1. /\ Shape(u1)
      /\ u1.own.queue = queue /\ u1.own.cur = 1 /\ u1.own.pos = 0 /\ u1.own.status = w.own.status
      /\ u1.own.failed = w.own.failed /\ u1.own.gen = w.own.gen /\ u1.own.epoch = w.own.epoch
      /\ u1.own.gate = w.own.gate /\ u1.own.dirty = w.own.dirty /\ u1.own.plan = w.own.plan
      /\ u1.own.slot = w.own.slot
      /\ u1.disk = w.disk
      /\ u1.player = w.player
      /\ u1.started = w.started
  BY DEF Good, Shape
<1> HIDE DEF u1
<1>u2. /\ Shape(u2)
      /\ u2.own.queue = u1.own.queue /\ u2.own.cur = u1.own.cur /\ u2.own.pos = u1.own.pos
      /\ u2.own.status = u1.own.status /\ u2.own.failed = u1.own.failed /\ u2.own.gen = u1.own.gen
      /\ u2.own.epoch = u1.own.epoch /\ u2.own.gate = u1.own.gate /\ u2.own.dirty = FALSE
      /\ u2.own.plan = NoPlan
      /\ u2.own.slot = u1.own.slot
      /\ u2.disk = u1.disk
      /\ u2.player = u1.player
      /\ u2.started = u1.started
  BY <1>u1 DEF Good, Shape
<1> HIDE DEF u2
<1>u3. /\ Shape(u3)
      /\ u3.own.queue = u2.own.queue /\ u3.own.cur = u2.own.cur /\ u3.own.pos = u2.own.pos
      /\ u3.own.status = u2.own.status /\ u3.own.failed = u2.own.failed /\ u3.own.gen = u2.own.gen
      /\ u3.own.epoch = u2.own.epoch /\ u3.own.gate = u2.own.gate /\ u3.own.dirty = u2.own.dirty
      /\ u3.own.plan = u2.own.plan
      /\ u3.own.slot = u2.own.slot
      /\ u3.disk.queue = queue /\ u3.disk.cur = 1 /\ u3.disk.pos = 0 /\ u3.disk.open = TRUE
      /\ u3.player = u2.player
      /\ u3.started = u2.started
  BY <1>u2 DEF Good, Shape
<1> HIDE DEF u3
<1>1. Shape(v)
  BY <1>a, <1>u3
<1>2. /\ v.own.queue = queue /\ v.own.cur = 1 /\ v.own.pos = 0 /\ v.own.status = w.own.status
      /\ v.own.failed = w.own.failed /\ v.own.gen = w.own.gen /\ v.own.epoch = w.own.epoch
      /\ v.own.gate = w.own.gate /\ v.own.dirty = FALSE /\ v.own.plan = NoPlan
      /\ v.own.slot = w.own.slot
      /\ v.disk.queue = queue /\ v.disk.cur = 1 /\ v.disk.pos = 0 /\ v.disk.open = TRUE
      /\ v.player = w.player
      /\ v.started = w.started
  BY <1>a, <1>u1, <1>u2, <1>u3
<1>3. Typed(v)
  <2> USE <1>2, <1>p DEF Good, Typed
  <2>1. /\ v.own.queue \in Nat /\ v.own.cur \in Occurrences /\ v.own.pos \in Positions
        /\ v.own.status \in Statuses /\ v.own.gen \in Nat /\ v.own.epoch \in Nat
    OBVIOUS
  <2>2. /\ v.own.slot.gen \in 0..v.own.gen /\ v.own.slot.occ \in Occurrences
        /\ v.own.slot.pos \in Positions /\ v.disk.pos \in Positions
    OBVIOUS
  <2>3. /\ v.player.gen \in 0..v.own.gen /\ v.player.epoch \in Nat
        /\ v.player.occ \in Occurrences /\ v.player.pos \in Positions
    OBVIOUS
  <2>4. /\ v.own.failed \in BOOLEAN /\ v.own.gate \in BOOLEAN /\ v.own.dirty \in BOOLEAN
        /\ v.own.slot.fresh \in BOOLEAN /\ v.disk.open \in BOOLEAN
        /\ v.player.runs \in BOOLEAN /\ v.started \in BOOLEAN
    OBVIOUS
  <2>5. QED  BY <2>1, <2>2, <2>3, <2>4
<1>4. Consistent(v)
  BY <1>2, <1>p DEF Good, Consistent, Typed
<1>5. Follows(w, v)
  BY <1>1, <1>2, <1>3, <1>4 DEF Follows, Good, Typed
<1>6. QED  BY <1>2, <1>5 DEF v

\* Play, of a new queue.
LEMMA ReplaceFollows ==
  ASSUME NEW w, Good(w), NEW command, NEW ok \in BOOLEAN
  PROVE  Follows(w, Replace(w, command, ok).world)
<1> DEFINE queue == w.own.queue + 1
           v     == [w EXCEPT !.own.queue = queue, !.own.cur = 1, !.own.pos = 0,
                              !.own.dirty = FALSE, !.own.plan = NoPlan,
                              !.disk = [queue |-> queue, cur |-> 1, pos |-> 0, open |-> TRUE]]
           next  == NextEpoch(v)
           renewed == NewGeneration(next)
<1>1. CASE command.queue # w.own.queue \/ ~ok
  <2>1. Replace(w, command, ok) = Refused(w)
    BY <1>1, Zenon DEF Replace
  <2>2. Replace(w, command, ok).world = w
    BY <2>1 DEF Refused
  <2>3. QED
    BY <2>2 DEF Follows, Good, Typed
<1>2. CASE ~(command.queue # w.own.queue \/ ~ok)
  <2>1. Replace(w, command, ok).world = Playing(renewed)
    BY <1>2 DEF Replace, Done
  <2>2. queue \in Nat
    BY DEF Good, Typed
  <2> HIDE DEF queue
  <2>3. Follows(w, v) /\ v.own.plan = NoPlan /\ v.disk.open
    BY <2>2, ReplacedFollows
  <2> HIDE DEF v
  <2>4. Follows(v, next) /\ next.own.plan = NoPlan /\ next.disk.open
    BY <2>3, NextEpochFollows DEF Follows, Same
  <2> HIDE DEF next
  <2>5. Follows(next, renewed) /\ renewed.own.plan = NoPlan /\ renewed.disk.open
    BY <2>4, NewGenerationFollows DEF Follows, Same
  <2> HIDE DEF renewed
  <2>6. Follows(renewed, Playing(renewed))
    BY <2>5, PlayingFollows DEF Follows
  <2>7. QED
    BY <2>1, <2>3, <2>4, <2>5, <2>6, FollowsFollow
<1>3. QED  BY <1>1, <1>2

\* control_inner.
LEMMA ControlFollows ==
  ASSUME NEW w, Good(w), NEW command, command.kind \in Kinds \ {"Play"},
         NEW adopted \in BOOLEAN, NEW ok \in BOOLEAN
  PROVE  Follows(w, Control(w, command, adopted, ok).world)
<1> DEFINE v == Adopt(w, adopted)
           recovered == Commit(v, v.own.plan, TRUE, ok)
           world == Control(w, command, adopted, ok).world
<1>1. Follows(w, v)
  BY AdoptFollows
<1>2. \/ world = v
      \/ v.own.plan # NoPlan /\ world = recovered
      \/ v.own.plan = NoPlan /\ world \in {Pause(v).world, Resume(v, ok).world,
                                          Retry(v, ok).world, SkipTo(v, ok).world}
      \/ world = Stop(v, ok).world
  BY DEF Control, Kinds, Done, Refused
<1> HIDE DEF v, recovered, world
<1>3. Follows(v, v)
  BY <1>1 DEF Follows, Good, Typed
<1>4. ASSUME v.own.plan # NoPlan PROVE Follows(v, recovered)
  <2>1. IsPlan(v.own.plan)
    BY <1>1, <1>4 DEF Follows, Good, Consistent
  <2>2. QED
    BY <1>1, <2>1, CommitFollows DEF recovered, Follows
<1>5. ASSUME v.own.plan = NoPlan
      PROVE  /\ Follows(v, Pause(v).world) /\ Follows(v, Resume(v, ok).world)
             /\ Follows(v, Retry(v, ok).world) /\ Follows(v, SkipTo(v, ok).world)
  BY <1>1, <1>5, PauseFollows, ResumeFollows, RetryFollows, SkipToFollows DEF Follows
<1>6. Follows(v, Stop(v, ok).world)
  BY <1>1, StopFollows DEF Follows
<1>7. Follows(v, world)
  BY <1>2, <1>3, <1>4, <1>5, <1>6
<1>8. QED  BY <1>1, <1>7, FollowsFollow DEF world

\* The audio failed.
LEMMA FailedFollows ==
  ASSUME NEW w, Good(w), NEW ok \in BOOLEAN
  PROVE  Follows(w, Failed(w, ok))
<1> DEFINE v == Sample(w)
           plan == Plan(v, v.own.cur, v.own.pos, "Error", TRUE, FALSE)
           left == Commit(v, plan, FALSE, ok)
<1>1. Failed(w, ok) \in {w, ResetSlot(left), RefreshSlot(left)}
  BY DEF Failed
<1>2. Follows(w, w)
  BY DEF Follows, Good, Typed
<1>3. Follows(w, v)
  BY SampleFollows
<1> HIDE DEF v
<1>4. IsPlan(plan)
  BY <1>3 DEF IsPlan, Plan, Follows, Good, Typed, Statuses
<1> HIDE DEF plan
<1>5. Follows(v, left)
  BY <1>3, <1>4, CommitFollows DEF Follows
<1> HIDE DEF left
<1>6. Follows(left, ResetSlot(left)) /\ Follows(left, RefreshSlot(left))
  BY <1>5, ResetSlotFollows, RefreshSlotFollows DEF Follows
<1>7. Follows(w, left)
  BY <1>3, <1>5, FollowsFollow
<1>8. Follows(w, ResetSlot(left)) /\ Follows(w, RefreshSlot(left))
  BY <1>6, <1>7, FollowsFollow
<1>9. QED  BY <1>1, <1>2, <1>8

\* complete_occurrence.
LEMMA CompletedFollows ==
  ASSUME NEW w, Good(w), NEW ok \in BOOLEAN
  PROVE  Follows(w, Completed(w, ok))
<1> DEFINE next == IF w.own.cur = Last THEN w.own.cur ELSE w.own.cur + 1
           plan == IF next = w.own.cur THEN Plan(w, next, End, "Completed", FALSE, FALSE)
                   ELSE Plan(w, next, 0, IF w.own.status = "Playing" THEN "Playing" ELSE "Paused",
                             FALSE, FALSE)
           left == Commit(w, plan, FALSE, ok)
           started == IF left.own.gate THEN Start(left) ELSE left
<1>1. Completed(w, ok) \in {w, ResetSlot(started)}
  BY DEF Completed
<1>2. Follows(w, w)
  BY DEF Follows, Good, Typed
<1>3. next \in Occurrences /\ 0 \in Positions /\ End \in Positions
  BY OwnerAssumption DEF Good, Typed, Occurrences, Positions
<1> HIDE DEF next
<1>4. IsPlan(plan)
  BY <1>3 DEF IsPlan, Plan, Good, Typed, Statuses
<1> HIDE DEF plan
<1>5. Follows(w, left)
  BY <1>4, CommitFollows
<1> HIDE DEF left
<1>6. Follows(left, Start(left)) /\ Follows(left, left)
  BY <1>5, StartFollows DEF Follows, Good, Typed
<1>7. Follows(w, started)
  BY <1>5, <1>6, FollowsFollow
<1> HIDE DEF started
<1>8. Follows(started, ResetSlot(started))
  BY <1>7, ResetSlotFollows DEF Follows
<1>9. Follows(w, ResetSlot(started))
  BY <1>7, <1>8, FollowsFollow
<1>10. QED  BY <1>1, <1>2, <1>9

\* The gate closes.
LEMMA ClosedFollows ==
  ASSUME NEW w, Good(w)
  PROVE  LET v == [w EXCEPT !.own.gate = FALSE]
         IN Follows(w, v) /\ v.own.plan = w.own.plan
<1> DEFINE v == [w EXCEPT !.own.gate = FALSE]
<1>1. Shape(v)
  BY DEF Good, Shape
<1>2. /\ v.own.queue = w.own.queue /\ v.own.cur = w.own.cur /\ v.own.pos = w.own.pos
      /\ v.own.status = w.own.status /\ v.own.failed = w.own.failed /\ v.own.gen = w.own.gen
      /\ v.own.epoch = w.own.epoch /\ v.own.gate = FALSE /\ v.own.dirty = w.own.dirty
      /\ v.own.plan = w.own.plan
      /\ v.own.slot = w.own.slot
      /\ v.disk = w.disk
      /\ v.player = w.player
      /\ v.started = w.started
  BY DEF Good, Shape
<1> HIDE DEF v
<1>3. Typed(v)
  <2> USE <1>2 DEF Good, Typed
  <2>1. /\ v.own.queue \in Nat /\ v.own.cur \in Occurrences /\ v.own.pos \in Positions
        /\ v.own.status \in Statuses /\ v.own.gen \in Nat /\ v.own.epoch \in Nat
    OBVIOUS
  <2>2. /\ v.own.slot.gen \in 0..v.own.gen /\ v.own.slot.occ \in Occurrences
        /\ v.own.slot.pos \in Positions /\ v.disk.pos \in Positions
    OBVIOUS
  <2>3. /\ v.player.gen \in 0..v.own.gen /\ v.player.epoch \in Nat
        /\ v.player.occ \in Occurrences /\ v.player.pos \in Positions
    OBVIOUS
  <2>4. /\ v.own.failed \in BOOLEAN /\ v.own.gate \in BOOLEAN /\ v.own.dirty \in BOOLEAN
        /\ v.own.slot.fresh \in BOOLEAN /\ v.disk.open \in BOOLEAN
        /\ v.player.runs \in BOOLEAN /\ v.started \in BOOLEAN
    OBVIOUS
  <2>5. QED  BY <2>1, <2>2, <2>3, <2>4
<1>4. Consistent(v)
  BY <1>2 DEF Good, Consistent, Typed
<1>5. QED  BY <1>1, <1>2, <1>3, <1>4 DEF v, Follows, Same, Good, Typed

\* The error of a lost rendering, at the position that was captured.
LEMMA LostFields ==
  ASSUME NEW w, Good(w), ~w.own.gate, NEW pos \in Positions
  PROVE  LET v == [w EXCEPT !.own.pos = pos, !.own.dirty = TRUE, !.own.status = "Error",
                            !.own.failed = TRUE]
         IN Follows(w, v) /\ v.own.plan = w.own.plan
<1> DEFINE v == [w EXCEPT !.own.pos = pos, !.own.dirty = TRUE, !.own.status = "Error",
                        !.own.failed = TRUE]
<1>1. Shape(v)
  BY DEF Good, Shape
<1>2. /\ v.own.queue = w.own.queue /\ v.own.cur = w.own.cur /\ v.own.pos = pos
      /\ v.own.status = "Error" /\ v.own.failed = TRUE /\ v.own.gen = w.own.gen
      /\ v.own.epoch = w.own.epoch /\ v.own.gate = w.own.gate /\ v.own.dirty = TRUE
      /\ v.own.plan = w.own.plan
      /\ v.own.slot = w.own.slot
      /\ v.disk = w.disk
      /\ v.player = w.player
      /\ v.started = w.started
  BY DEF Good, Shape
<1> HIDE DEF v
<1>3. Typed(v)
  <2> USE <1>2 DEF Good, Typed, Statuses
  <2>1. /\ v.own.queue \in Nat /\ v.own.cur \in Occurrences /\ v.own.pos \in Positions
        /\ v.own.status \in Statuses /\ v.own.gen \in Nat /\ v.own.epoch \in Nat
    OBVIOUS
  <2>2. /\ v.own.slot.gen \in 0..v.own.gen /\ v.own.slot.occ \in Occurrences
        /\ v.own.slot.pos \in Positions /\ v.disk.pos \in Positions
    OBVIOUS
  <2>3. /\ v.player.gen \in 0..v.own.gen /\ v.player.epoch \in Nat
        /\ v.player.occ \in Occurrences /\ v.player.pos \in Positions
    OBVIOUS
  <2>4. /\ v.own.failed \in BOOLEAN /\ v.own.gate \in BOOLEAN /\ v.own.dirty \in BOOLEAN
        /\ v.own.slot.fresh \in BOOLEAN /\ v.disk.open \in BOOLEAN
        /\ v.player.runs \in BOOLEAN /\ v.started \in BOOLEAN
    OBVIOUS
  <2>5. QED  BY <2>1, <2>2, <2>3, <2>4
<1>4. Consistent(v)
  BY <1>2 DEF Good, Consistent, Typed
<1>5. QED  BY <1>1, <1>2, <1>3, <1>4 DEF v, Follows, Same, Good, Typed

\* OUTPUT_LOST.
LEMMA LostFollows ==
  ASSUME NEW w, Good(w), w.own.plan = NoPlan, NEW ok \in BOOLEAN
  PROVE  Follows(w, Lost(w, ok))
<1> DEFINE closed == [w EXCEPT !.own.gate = FALSE]
           v      == Sample(closed)
           pos    == IF Captured(v) > v.own.pos THEN Captured(v) ELSE v.own.pos
           lost   == [v EXCEPT !.own.pos = pos, !.own.dirty = TRUE, !.own.status = "Error",
                               !.own.failed = TRUE]
           renewed == NewGeneration(lost)
           fresh   == RefreshSlot(renewed)
<1>1. Lost(w, ok) = Checkpoint(fresh, ok)
  BY DEF Lost
<1>2. Follows(w, closed) /\ closed.own.plan = NoPlan /\ ~closed.own.gate
  BY ClosedFollows DEF Good, Shape
<1> HIDE DEF closed
<1>3. Follows(closed, v) /\ v.own.plan = NoPlan /\ ~v.own.gate
  BY <1>2, SampleFollows DEF Follows, Same
<1> HIDE DEF v
<1>4. pos \in Positions
  BY <1>3 DEF Captured, Follows, Good, Typed
<1> HIDE DEF pos
<1>5. Follows(v, lost) /\ lost.own.plan = NoPlan
  BY <1>3, <1>4, LostFields DEF Follows
<1> HIDE DEF lost
<1>6. Follows(lost, renewed)
  BY <1>5, NewGenerationFollows DEF Follows
<1> HIDE DEF renewed
<1>7. Follows(renewed, fresh)
  BY <1>6, RefreshSlotFollows DEF Follows
<1> HIDE DEF fresh
<1>8. Follows(fresh, Checkpoint(fresh, ok))
  BY <1>7, CheckpointFollows DEF Follows
<1>9. Follows(w, v) /\ Follows(v, fresh)
  BY <1>2, <1>3, <1>5, <1>6, <1>7, FollowsFollow DEF Follows
<1>10. QED  BY <1>1, <1>3, <1>8, <1>9, FollowsFollow DEF Follows

\* Any event.
LEMMA AppliedFollows ==
  ASSUME NEW w, Good(w), NEW e, e.kind \in {"Failed", "Completed", "Lost"}, NEW ok \in BOOLEAN
  PROVE  Follows(w, Applied(w, e, ok))
<1>1. Follows(w, w)
  BY DEF Follows, Good, Typed
<1>2. Follows(w, Failed(w, ok)) /\ Follows(w, Completed(w, ok))
  BY FailedFollows, CompletedFollows
<1>3. w.own.plan = NoPlan => Follows(w, Lost(w, ok))
  BY LostFollows
<1>4. QED  BY <1>1, <1>2, <1>3 DEF Applied

-----------------------------------------------------------------------------
(* The invariant of the states.                                            *)

IsEvent(e) ==
  e = NoEvent \/ (e.gen \in Generations /\ e.kind \in {"Failed", "Lost", "Completed"})
\* What the mailbox can hold: a repetition is of what was executed.
Messages ==
  [id : Ids, kind : Kinds, gen : Nat, occ : Occurrences, queue : Nat]
    \cup {Repetition(id) : id \in executed}

Waiting ==
  /\ IsEvent(event) /\ IsEvent(drained)
  /\ held \in Messages \cup {NoCommand} /\ inbox \in Seq(Messages)
Counted ==
  /\ executed \subseteq Ids /\ skipped \subseteq Occurrences
  /\ admitted \in 0..MaxCommands /\ faults \in 0..MaxFaults
Fence ==
  /\ save \in {"none", "asked", "saved", "failed"} /\ fenced \in BOOLEAN
  /\ save # "none" => fenced

OwnerInv == Good(Now) /\ Waiting /\ Counted /\ Fence

\* A world that follows from this one becomes a good one.
LEMMA BecomesGood ==
  ASSUME NEW w, Good(Now), Follows(Now, w), Becomes(w)
  PROVE  Good(Now)' /\ own.gen <= own'.gen
<1>1. own' = w.own /\ disk' = w.disk /\ player' = w.player
  BY DEF Becomes
<1>2. Shape(Now)'
  BY <1>1 DEF Follows, Good, Shape, Now, World
<1>3. Typed(Now)'
  BY <1>1 DEF Follows, Good, Typed, Now, World
<1>4. Consistent(Now)'
  BY <1>1 DEF Follows, Good, Consistent, Now, World
<1>5. own.gen <= own'.gen
  BY <1>1 DEF Follows, Now, World
<1>6. QED  BY <1>2, <1>3, <1>4, <1>5 DEF Good

\* What waits in a mailbox is a message still when more has been executed.
LEMMA MoreIsExecuted ==
  ASSUME executed \subseteq executed'
  PROVE  Messages \subseteq Messages' /\ Seq(Messages) \subseteq Seq(Messages')
<1>1. Messages \subseteq Messages'
  BY DEF Messages, Ids, Kinds, Occurrences, Repetition
<1> HIDE DEF Messages
<1>2. ASSUME NEW s \in Seq(Messages) PROVE s \in Seq(Messages')
  <2>1. /\ Len(s) \in Nat /\ DOMAIN s = 1..Len(s) /\ \A i \in 1..Len(s) : s[i] \in Messages
        /\ s = [i \in 1..Len(s) |-> s[i]]
    OBVIOUS
  <2>2. [i \in 1..Len(s) |-> s[i]] \in Seq(Messages')
    BY <1>1, <2>1, IsASeq
  <2>3. QED
    BY <2>1, <2>2
<1>3. QED  BY <1>1, <1>2

\* What waits is not disturbed by a newer generation.
LEMMA WaitingStays ==
  ASSUME Waiting, Typed(Now), own.gen <= own'.gen, own'.gen \in Nat, executed \subseteq executed',
         event' \in {event, NoEvent} \/ IsEvent(event)',
         drained' \in {event, drained, NoEvent},
         held' \in {held, NoCommand} \/ held' \in Messages,
         inbox' \in Seq(Messages) \/ inbox' \in Seq(Messages')
  PROVE  Waiting'
<1>1. ASSUME NEW e, IsEvent(e) PROVE e = NoEvent \/ (e.gen \in 0..own'.gen
                                       /\ e.kind \in {"Failed", "Lost", "Completed"})
  BY <1>1 DEF IsEvent, Generations, Typed, Now, World
<1>2. IsEvent(NoEvent)
  BY DEF IsEvent
<1>3. IsEvent(event)'
  BY <1>1, <1>2 DEF IsEvent, Generations, Waiting
<1>4. IsEvent(drained)'
  BY <1>1, <1>2 DEF IsEvent, Generations, Waiting
<1>5. held' \in Messages' \cup {NoCommand}
  BY MoreIsExecuted DEF Waiting
<1>6. inbox' \in Seq(Messages')
  BY MoreIsExecuted
<1>7. QED  BY <1>3, <1>4, <1>5, <1>6 DEF Waiting, NoCommand, Repetition

\* The failures are counted.
LEMMA SpendCounts ==
  ASSUME NEW ok \in BOOLEAN, faults \in 0..MaxFaults, Write(ok), Spend(ok)
  PROVE  faults' \in 0..MaxFaults
BY OwnerAssumption DEF Write, Spend

\* The final checkpoint.
LEMMA ServeSaveKeeps ==
  ASSUME OwnerInv, NEW ok \in BOOLEAN, ServeSave(ok)
  PROVE  OwnerInv'
<1>1. Follows(Now, Sample(Now))
  BY SampleFollows DEF OwnerInv
<1>2. Follows(Sample(Now), Checkpoint(Sample(Now), ok))
  BY <1>1, CheckpointFollows DEF Follows
<1>3. Follows(Now, Checkpoint(Sample(Now), ok)) /\ Becomes(Checkpoint(Sample(Now), ok))
  BY <1>1, <1>2, FollowsFollow DEF OwnerInv, ServeSave
<1>4. Good(Now)' /\ own.gen <= own'.gen
  BY <1>3, BecomesGood DEF OwnerInv
<1>5. Waiting'
  <2>1. inbox' \in Seq(Messages')
    BY DEF ServeSave
  <2>2. Typed(Now) /\ Typed(Now)'
    BY <1>4 DEF OwnerInv, Good
  <2>3. own'.gen \in Nat
    BY <2>2 DEF Typed, Now, World
  <2>4. QED
    BY <1>4, <2>1, <2>2, <2>3, WaitingStays DEF OwnerInv, ServeSave
<1>6. Counted'
  BY SpendCounts DEF OwnerInv, Counted, ServeSave
<1>7. Fence'
  BY DEF OwnerInv, Fence, ServeSave
<1>8. QED  BY <1>4, <1>5, <1>6, <1>7 DEF OwnerInv

\* A turn of the loop.
LEMMA TurnKeeps ==
  ASSUME OwnerInv, NEW ok \in BOOLEAN, Turn(ok)
  PROVE  OwnerInv'
<1>1. Follows(Now, Adopt(Now, ok)) /\ Becomes(Adopt(Now, ok))
  BY AdoptFollows DEF OwnerInv, Turn
<1>2. Good(Now)' /\ own.gen <= own'.gen
  BY <1>1, BecomesGood DEF OwnerInv
<1>3. Waiting'
  <2>1. inbox \in Seq(Messages)
    BY DEF OwnerInv, Waiting
  <2>2. inbox' \in Seq(Messages)
    BY <2>1 DEF Turn
  <2>3. held' = NoCommand \/ held' \in Messages
    BY <2>1 DEF Turn
  <2>4. Typed(Now) /\ Typed(Now)'
    BY <1>2 DEF OwnerInv, Good
  <2>5. own'.gen \in Nat
    BY <2>4 DEF Typed, Now, World
  <2>6. QED
    BY <1>2, <2>2, <2>3, <2>4, <2>5, WaitingStays DEF OwnerInv, Turn
<1>4. Counted'
  BY SpendCounts DEF OwnerInv, Counted, Turn
<1>5. Fence'
  BY DEF OwnerInv, Fence, Turn
<1>6. QED  BY <1>2, <1>3, <1>4, <1>5 DEF OwnerInv

\* An event that was drained.
LEMMA ApplyEventKeeps ==
  ASSUME OwnerInv, NEW ok \in BOOLEAN, ApplyEvent(ok)
  PROVE  OwnerInv'
<1>1. drained.kind \in {"Failed", "Lost", "Completed"}
  BY DEF OwnerInv, Waiting, IsEvent, ApplyEvent
<1>2. Follows(Now, Applied(Now, drained, ok)) /\ Becomes(Applied(Now, drained, ok))
  BY <1>1, AppliedFollows DEF OwnerInv, ApplyEvent
<1>3. Good(Now)' /\ own.gen <= own'.gen
  BY <1>2, BecomesGood DEF OwnerInv
<1>4. Waiting'
  <2>1. Typed(Now) /\ Typed(Now)'
    BY <1>3 DEF OwnerInv, Good
  <2>2. own'.gen \in Nat
    BY <2>1 DEF Typed, Now, World
  <2>3. inbox' \in Seq(Messages)
    BY DEF OwnerInv, Waiting, ApplyEvent, clientVars
  <2>4. QED
    BY <1>3, <2>1, <2>2, <2>3, WaitingStays DEF OwnerInv, ApplyEvent, clientVars
<1>5. Counted'
  BY SpendCounts DEF OwnerInv, Counted, ApplyEvent, clientVars
<1>6. Fence'
  BY DEF OwnerInv, Fence, ApplyEvent
<1>7. QED  BY <1>3, <1>4, <1>5, <1>6 DEF OwnerInv

\* A command that is executed leaves a world that follows.
LEMMA ExecutesFollows ==
  ASSUME NEW w, Good(w), NEW command, command.kind \in Kinds,
         NEW adopted \in BOOLEAN, NEW ok \in BOOLEAN,
         NEW outcome, outcome = IF command.kind = "Play" THEN Replace(w, command, ok)
                                ELSE Control(w, command, adopted, ok)
  PROVE  Follows(w, outcome.world) /\ Follows(w, RefreshSlot(outcome.world))
<1>1. Follows(w, outcome.world)
  <2>1. CASE command.kind = "Play"
    BY <2>1, ReplaceFollows
  <2>2. CASE command.kind # "Play"
    BY <2>2, ControlFollows
  <2>3. QED
    BY <2>1, <2>2
<1>2. Follows(outcome.world, RefreshSlot(outcome.world))
  BY <1>1, RefreshSlotFollows DEF Follows
<1>3. QED  BY <1>1, <1>2, FollowsFollow

\* A command that is executed, from a world that is sampled or not.
LEMMA ExecutesKeeps ==
  ASSUME OwnerInv, NEW adopted \in BOOLEAN, NEW ok \in BOOLEAN, NEW w, Follows(Now, w),
         held # NoCommand, held.id \notin executed, held' = NoCommand, Executes(w, adopted, ok),
         UNCHANGED <<renderings, event, drained, fenced, save, inbox, admitted>>
  PROVE  OwnerInv'
<1>1. held \in [id : Ids, kind : Kinds, gen : Nat, occ : Occurrences, queue : Nat]
  BY DEF OwnerInv, Waiting, Messages, Repetition
<1> DEFINE outcome == IF held.kind = "Play" THEN Replace(w, held, ok)
                      ELSE Control(w, held, adopted, ok)
           after   == IF outcome.result = "ok" THEN RefreshSlot(outcome.world) ELSE outcome.world
<1>2. /\ Write(adopted /\ ok) /\ Spend(adopted /\ ok) /\ Becomes(after)
      /\ executed' = executed \cup {held.id}
      /\ skipped' \in {{}, skipped, skipped \cup {held.occ}}
  BY DEF Executes
<1>3. Follows(w, outcome.world) /\ Follows(w, RefreshSlot(outcome.world))
  <2>1. Good(w) /\ held.kind \in Kinds
    BY <1>1 DEF Follows
  <2>2. QED
    BY <2>1, ExecutesFollows
<1>4. Follows(w, after)
  BY <1>3
<1> HIDE DEF outcome, after
<1>5. Follows(Now, after)
  BY <1>4, FollowsFollow DEF OwnerInv
<1>6. Good(Now)' /\ own.gen <= own'.gen
  BY <1>2, <1>5, BecomesGood DEF OwnerInv
<1>7. Waiting'
  <2>1. Typed(Now) /\ Typed(Now)'
    BY <1>6 DEF OwnerInv, Good
  <2>2. own'.gen \in Nat
    BY <2>1 DEF Typed, Now, World
  <2>3. inbox' \in Seq(Messages)
    BY DEF OwnerInv, Waiting
  <2>4. QED
    BY <1>2, <1>6, <2>1, <2>2, <2>3, WaitingStays DEF OwnerInv
<1>8. Counted'
  <2>1. faults' \in 0..MaxFaults
    BY <1>2, SpendCounts DEF OwnerInv, Counted
  <2>2. QED
    BY <1>1, <1>2, <2>1 DEF OwnerInv, Counted
<1>9. Fence'
  BY DEF OwnerInv, Fence
<1>10. QED  BY <1>6, <1>7, <1>8, <1>9 DEF OwnerInv

\* An action that leaves the owner, the disk and the worker alone, or moves them to a good
\* world of the same generation.
LEMMA RestKeeps ==
  ASSUME OwnerInv, Good(Now)', own'.gen = own.gen,
         event' = event \/ IsEvent(event)', drained' = drained,
         held' \in {held, NoCommand}, inbox' \in Seq(Messages), executed' = executed,
         skipped' = skipped, admitted' \in 0..MaxCommands, faults' \in 0..MaxFaults, Fence'
  PROVE  OwnerInv'
<1>1. Typed(Now) /\ own.gen \in Nat
  BY DEF OwnerInv, Good, Typed, Now, World
<1>2. Waiting'
  BY <1>1, WaitingStays DEF OwnerInv
<1>3. QED  BY <1>2 DEF OwnerInv, Counted

\* A command, executed or answered from the dedup table.
LEMMA ExecuteKeeps ==
  ASSUME OwnerInv, NEW adopted \in BOOLEAN, NEW ok \in BOOLEAN, Execute(adopted, ok)
  PROVE  OwnerInv'
<1>1. CASE fenced \/ held.id \in executed
  <2>1. UNCHANGED <<own, disk, player, executed, skipped, faults, event, drained, fenced, save,
                    inbox, admitted>> /\ held' = NoCommand
    BY <1>1 DEF Execute
  <2>2. Good(Now)' /\ Fence'
    BY <2>1 DEF OwnerInv, Good, Shape, Typed, Consistent, Now, World, Fence
  <2>3. inbox' \in Seq(Messages)
    BY <2>1 DEF OwnerInv, Waiting
  <2>4. QED
    BY <2>1, <2>2, <2>3, RestKeeps DEF OwnerInv, Counted
<1>2. CASE ~(fenced \/ held.id \in executed)
  <2>1. /\ held # NoCommand /\ held.id \notin executed /\ held' = NoCommand
        /\ UNCHANGED <<renderings, event, drained, fenced, save, inbox, admitted>>
        /\ Executes(Sample(Now), adopted, ok) \/ Executes(Now, adopted, ok)
    BY <1>2 DEF Execute
  <2>2. Follows(Now, Sample(Now)) /\ Follows(Now, Now)
    <3>1. Good(Now)
      BY DEF OwnerInv
    <3>2. Now.own.gen <= Now.own.gen
      BY <3>1 DEF Good, Typed
    <3>3. QED
      BY <3>1, <3>2, SampleFollows DEF Follows
  <2>3. QED
    BY <2>1, <2>2, ExecutesKeeps
<1>3. QED  BY <1>1, <1>2

\* The sample and the checkpoint of the timer.
LEMMA PeriodicKeeps ==
  ASSUME OwnerInv, NEW ok \in BOOLEAN, Periodic(ok)
  PROVE  OwnerInv'
<1>1. PICK w : Follows(Now, w) /\ Becomes(w)
  BY SampleFollows, CheckpointFollows DEF OwnerInv, Periodic
<1>2. Good(Now)' /\ own.gen <= own'.gen
  BY <1>1, BecomesGood DEF OwnerInv
<1>3. Waiting'
  <2>1. Typed(Now) /\ Typed(Now)'
    BY <1>2 DEF OwnerInv, Good
  <2>2. own'.gen \in Nat
    BY <2>1 DEF Typed, Now, World
  <2>3. inbox' \in Seq(Messages)
    BY DEF OwnerInv, Waiting, Periodic, clientVars
  <2>4. QED
    BY <1>2, <2>1, <2>2, <2>3, WaitingStays DEF OwnerInv, Periodic, clientVars
<1>4. Counted'
  BY SpendCounts DEF OwnerInv, Counted, Periodic, clientVars
<1>5. Fence'
  BY DEF OwnerInv, Fence, Periodic
<1>6. QED  BY <1>2, <1>3, <1>4, <1>5 DEF OwnerInv

-----------------------------------------------------------------------------
(* The preparations, the worker, the clients.                              *)

\* An installed pipeline that only moves, or is renamed to the current epoch.
LEMMA PlayerKeeps ==
  ASSUME OwnerInv, own' = own, disk' = disk,
         DOMAIN player' = {"gen", "epoch", "occ", "pos", "runs"},
         player'.gen \in Generations, player'.epoch \in Nat, player'.occ \in Occurrences,
         player'.pos \in Positions, player'.runs \in BOOLEAN,
         event' = event \/ IsEvent(event)', drained' = drained, held' = held,
         UNCHANGED <<clientVars, fenced, save>>, faults' \in 0..MaxFaults
  PROVE  OwnerInv'
<1>1. Good(Now)
  BY DEF OwnerInv
<1>2. Shape(Now)'
  BY <1>1 DEF Good, Shape, Now, World
<1>3. Typed(Now)'
  BY <1>1 DEF Good, Typed, Now, World, Generations
<1>4. Consistent(Now)'
  BY <1>1 DEF Good, Consistent, Now, World
<1>5. inbox' \in Seq(Messages) /\ Fence'
  BY DEF OwnerInv, Waiting, Fence, clientVars
<1>6. QED
  BY <1>2, <1>3, <1>4, <1>5, RestKeeps DEF OwnerInv, Good, Counted, clientVars

\* How a rendering ended is published under a generation that was current.
LEMMA PublishedIsEvent ==
  ASSUME OwnerInv, own' = own, NEW gen, NEW kind \in {"Failed", "Lost", "Completed"},
         event' = Published(gen, kind)
  PROVE  event' = event \/ IsEvent(event)'
<1>1. own.gen \in Nat
  BY DEF OwnerInv, Good, Typed, Now, World
<1>2. QED
  BY <1>1 DEF Published, IsEvent, Generations

\* What the owner knows of the worker.
LEMMA PlayerTypes ==
  ASSUME OwnerInv
  PROVE  /\ DOMAIN player = {"gen", "epoch", "occ", "pos", "runs"}
         /\ player.gen \in Generations /\ player.epoch \in Nat /\ player.occ \in Occurrences
         /\ player.pos \in Positions /\ player.runs \in BOOLEAN
         /\ own.gen \in Generations /\ own.epoch \in Nat /\ own.cur \in Occurrences
         /\ own.pos \in Positions /\ own.gen \in Nat
         /\ faults \in 0..MaxFaults /\ 0 \in Positions /\ End \in Positions
BY OwnerAssumption
   DEF OwnerInv, Good, Shape, Typed, Now, World, Generations, Counted, Positions

\* The steps of a preparation.
LEMMA PrepKeeps ==
  ASSUME OwnerInv, NEW p,
         PrepEnds(p) \/ PrepDispatches(p) \/ PrepInstalls(p) \/ PrepFails(p) \/ PublishFailure(p)
  PROVE  OwnerInv'
<1>1. CASE PrepEnds(p) \/ PrepFails(p)
  BY <1>1, PlayerTypes, PlayerKeeps, OwnerAssumption DEF PrepEnds, PrepFails
<1>2. CASE PrepDispatches(p)
  <2>1. p.epoch = own.epoch
    BY <1>2 DEF PrepDispatches, Valid
  <2>2. /\ DOMAIN player' = {"gen", "epoch", "occ", "pos", "runs"}
        /\ player'.gen = player.gen /\ player'.occ = player.occ /\ player'.pos = player.pos
        /\ player'.runs = player.runs /\ player'.epoch \in {player.epoch, own.epoch}
    BY <1>2, <2>1, PlayerTypes DEF PrepDispatches
  <2>3. QED
    BY <1>2, <2>2, PlayerTypes, PlayerKeeps DEF PrepDispatches
<1>3. CASE PrepInstalls(p)
  <2>1. p.gen = own.gen /\ p.epoch = own.epoch
    BY <1>3 DEF PrepInstalls, Valid
  <2>2. /\ DOMAIN player' = {"gen", "epoch", "occ", "pos", "runs"}
        /\ player'.gen = own.gen /\ player'.occ = own.cur /\ player'.pos \in {0, own.pos}
        /\ player'.runs = TRUE /\ player'.epoch = own.epoch
    BY <1>3, <2>1 DEF PrepInstalls
  <2>3. QED
    BY <1>3, <2>2, PlayerTypes, PlayerKeeps DEF PrepInstalls
<1>4. CASE PublishFailure(p)
  <2>1. event' = event \/ IsEvent(event)'
    BY <1>4, PublishedIsEvent DEF PublishFailure
  <2>2. QED
    BY <1>4, <2>1, PlayerTypes, PlayerKeeps DEF PublishFailure
<1>5. QED  BY <1>1, <1>2, <1>3, <1>4

\* A sample of the position: only the slot moves.
LEMMA ReportKeeps ==
  ASSUME OwnerInv, ReportProgress
  PROVE  OwnerInv'
<1>1. Good(Now)
  BY DEF OwnerInv
<1>2. /\ DOMAIN own' = DOMAIN own /\ DOMAIN own'.slot = DOMAIN own.slot
      /\ own'.queue = own.queue /\ own'.cur = own.cur /\ own'.pos = own.pos
      /\ own'.status = own.status /\ own'.failed = own.failed /\ own'.gen = own.gen
      /\ own'.epoch = own.epoch /\ own'.gate = own.gate /\ own'.dirty = own.dirty
      /\ own'.plan = own.plan /\ own'.slot.gen = own.slot.gen /\ own'.slot.occ = own.slot.occ
      /\ own'.slot.pos = player.pos /\ own'.slot.fresh = TRUE
      /\ disk' = disk /\ player' = player
  BY <1>1 DEF ReportProgress, Good, Shape, Now, World
<1>3. Shape(Now)'
  BY <1>1, <1>2 DEF Good, Shape, Now, World
<1>4. Typed(Now)'
  BY <1>1, <1>2 DEF Good, Typed, Now, World
<1>5. Consistent(Now)'
  BY <1>1, <1>2 DEF Good, Consistent, Now, World
<1>6. inbox' \in Seq(Messages) /\ Fence'
  BY DEF OwnerInv, Waiting, Fence, ReportProgress, clientVars
<1>7. QED
  BY <1>2, <1>3, <1>4, <1>5, <1>6, RestKeeps
     DEF OwnerInv, Good, Counted, ReportProgress, clientVars

\* The steps of the worker.
LEMMA WorkerKeeps ==
  ASSUME OwnerInv,
         Plays \/ Completes \/ Presents \/ \E kind \in {"Failed", "Lost"} : Fails(kind)
  PROVE  OwnerInv'
<1>1. CASE Plays
  <2>1. /\ DOMAIN player' = {"gen", "epoch", "occ", "pos", "runs"}
        /\ player'.gen = player.gen /\ player'.occ = player.occ
        /\ player'.pos = player.pos + 1 /\ player.pos < End
        /\ player'.runs = player.runs /\ player'.epoch = player.epoch
    BY <1>1, PlayerTypes DEF Plays
  <2>2. player'.pos \in Positions
    BY <2>1, PlayerTypes, OwnerAssumption DEF Positions
  <2>3. QED
    BY <1>1, <2>1, <2>2, PlayerTypes, PlayerKeeps DEF Plays
<1>2. CASE Presents
  <2>1. /\ DOMAIN player' = {"gen", "epoch", "occ", "pos", "runs"}
        /\ player'.gen = player.gen /\ player'.occ = own.cur + 1 /\ own.cur < Last
        /\ player'.pos = 0 /\ player'.runs = player.runs /\ player'.epoch = player.epoch
    BY <1>2, PlayerTypes DEF Presents
  <2>2. player'.occ \in Occurrences
    BY <2>1, PlayerTypes, OwnerAssumption DEF Occurrences
  <2>3. QED
    BY <1>2, <2>1, <2>2, PlayerTypes, PlayerKeeps DEF Presents, audioVars
<1>3. CASE Completes
  <2>1. event' = event \/ IsEvent(event)'
    BY <1>3, PublishedIsEvent DEF Completes
  <2>2. /\ DOMAIN player' = {"gen", "epoch", "occ", "pos", "runs"}
        /\ player'.gen = player.gen /\ player'.occ = player.occ /\ player'.pos = player.pos
        /\ player'.runs = FALSE /\ player'.epoch = player.epoch
    BY <1>3, PlayerTypes DEF Completes
  <2>3. QED
    BY <1>3, <2>1, <2>2, PlayerTypes, PlayerKeeps DEF Completes
<1>4. ASSUME NEW kind \in {"Failed", "Lost"}, Fails(kind) PROVE OwnerInv'
  <2>1. event' = event \/ IsEvent(event)'
    BY <1>4, PublishedIsEvent DEF Fails
  <2>2. /\ DOMAIN player' = {"gen", "epoch", "occ", "pos", "runs"}
        /\ player'.gen = player.gen /\ player'.occ = player.occ /\ player'.pos = player.pos
        /\ player'.runs = FALSE /\ player'.epoch = player.epoch
    BY <1>4, PlayerTypes DEF Fails
  <2>3. faults' \in 0..MaxFaults
    BY <1>4, PlayerTypes, OwnerAssumption DEF Fails
  <2>4. QED
    BY <1>4, <2>1, <2>2, <2>3, PlayerTypes, PlayerKeeps DEF Fails
<1>5. QED  BY <1>1, <1>2, <1>3, <1>4

\* Commands carry what their client saw; a repetition, an id that was executed.
LEMMA ClientsKeep ==
  ASSUME OwnerInv, (\E kind \in Kinds : Admit(kind)) \/ \E id \in executed : Repeat(id)
  PROVE  OwnerInv'
<1>1. Good(Now) /\ inbox \in Seq(Messages) /\ admitted \in 0..MaxCommands
  BY DEF OwnerInv, Waiting, Counted
<1>2. PICK m \in Messages : inbox' = Append(inbox, m)
  <2>1. ASSUME NEW kind \in Kinds, Admit(kind) PROVE Command(admitted + 1, kind) \in Messages
    <3>1. own.gen \in Nat /\ own.cur \in Occurrences /\ own.queue \in Nat
      BY <1>1 DEF Good, Typed, Now, World
    <3>2. admitted + 1 \in Ids
      BY <1>1, <2>1, OwnerAssumption DEF Admit, Ids
    <3>3. QED
      BY <3>1, <3>2 DEF Command, Messages
  <2>2. ASSUME NEW id \in executed PROVE Repetition(id) \in Messages
    BY DEF Messages
  <2>3. QED
    BY <2>1, <2>2 DEF Admit, Repeat
<1>3. inbox' \in Seq(Messages)
  BY <1>1, <1>2
<1>4. /\ UNCHANGED <<own, disk, player, event, drained, held, executed, skipped, fenced, save>>
      /\ admitted' \in 0..MaxCommands /\ faults' \in 0..MaxFaults
  <2>1. ASSUME NEW kind \in Kinds, Admit(kind)
        PROVE  admitted' \in 0..MaxCommands /\ faults' \in 0..MaxFaults
    BY <1>1, <2>1, OwnerAssumption DEF Admit, OwnerInv, Counted
  <2>2. ASSUME NEW id \in executed, Repeat(id)
        PROVE  admitted' \in 0..MaxCommands /\ faults' \in 0..MaxFaults
    BY <1>1, <2>2, OwnerAssumption DEF Repeat, OwnerInv, Counted
  <2>3. QED
    BY <2>1, <2>2 DEF Admit, Repeat, audioVars
<1>5. Good(Now)' /\ Fence'
  BY <1>1, <1>4 DEF Good, Shape, Typed, Consistent, Now, World, OwnerInv, Fence
<1>6. QED
  BY <1>3, <1>4, <1>5, RestKeeps

\* The fence closes the gate.
LEMMA ShutdownKeeps ==
  ASSUME OwnerInv, BeginShutdown
  PROVE  OwnerInv'
<1>1. Good(Now)
  BY DEF OwnerInv
<1>2. /\ DOMAIN own' = DOMAIN own /\ own'.slot = own.slot
      /\ own'.queue = own.queue /\ own'.cur = own.cur /\ own'.pos = own.pos
      /\ own'.status = own.status /\ own'.failed = own.failed /\ own'.gen = own.gen
      /\ own'.epoch = own.epoch /\ own'.gate = FALSE /\ own'.dirty = own.dirty
      /\ own'.plan = own.plan /\ disk' = disk /\ player' = player
  BY <1>1 DEF BeginShutdown, Good, Shape, Now, World
<1>3. Shape(Now)'
  BY <1>1, <1>2 DEF Good, Shape, Now, World
<1>4. Typed(Now)'
  BY <1>1, <1>2 DEF Good, Typed, Now, World
<1>5. Consistent(Now)'
  BY <1>1, <1>2 DEF Good, Consistent, Now, World
<1>6. inbox' \in Seq(Messages) /\ Fence'
  BY DEF OwnerInv, Waiting, Fence, BeginShutdown, clientVars
<1>7. QED
  BY <1>2, <1>3, <1>4, <1>5, <1>6, RestKeeps
     DEF OwnerInv, Good, Counted, BeginShutdown, clientVars

\* What a process restores from a row that is typed is consistent.
LEMMA RestoredIsGood ==
  ASSUME NEW d, DOMAIN d = {"queue", "cur", "pos", "open"}, d.queue \in Nat,
         d.cur \in Occurrences, d.pos \in Positions, d.open \in BOOLEAN
  PROVE  Good(World(Restored(d, 1), d, NoPlayer, FALSE))
<1> DEFINE w == World(Restored(d, 1), d, NoPlayer, FALSE)
<1>1. Shape(w)
  BY DEF Shape, World, Restored, NoPlayer
<1>2. /\ w.own.queue = d.queue /\ w.own.cur = d.cur /\ w.own.pos = d.pos
      /\ w.own.status = "Paused" /\ w.own.failed = FALSE /\ w.own.gen = 1 /\ w.own.epoch = 0
      /\ w.own.gate = FALSE /\ w.own.dirty = FALSE /\ w.own.plan = NoPlan
      /\ w.own.slot.gen = 1 /\ w.own.slot.occ = d.cur /\ w.own.slot.pos = d.pos
      /\ w.own.slot.fresh = FALSE /\ w.disk = d /\ w.player.gen = 0 /\ w.player.epoch = 0
      /\ w.player.occ = 1 /\ w.player.pos = 0 /\ w.player.runs = FALSE /\ w.started = FALSE
  BY DEF World, Restored, NoPlayer
<1> HIDE DEF w
<1>3. Typed(w)
  <2>1. 0 \in Positions /\ 1 \in Occurrences
    BY OwnerAssumption DEF Positions, Occurrences
  <2>2. /\ w.own.queue \in Nat /\ w.own.cur \in Occurrences /\ w.own.pos \in Positions
        /\ w.own.status \in Statuses /\ w.own.gen \in Nat /\ w.own.epoch \in Nat
    BY <1>2 DEF Statuses
  <2>3. /\ w.own.slot.gen \in 0..w.own.gen /\ w.own.slot.occ \in Occurrences
        /\ w.own.slot.pos \in Positions /\ w.disk.pos \in Positions
    BY <1>2
  <2>4. /\ w.player.gen \in 0..w.own.gen /\ w.player.epoch \in Nat
        /\ w.player.occ \in Occurrences /\ w.player.pos \in Positions
    BY <1>2, <2>1
  <2>5. /\ w.own.failed \in BOOLEAN /\ w.own.gate \in BOOLEAN /\ w.own.dirty \in BOOLEAN
        /\ w.own.slot.fresh \in BOOLEAN /\ w.disk.open \in BOOLEAN
        /\ w.player.runs \in BOOLEAN /\ w.started \in BOOLEAN
    BY <1>2
  <2>6. QED  BY <2>2, <2>3, <2>4, <2>5 DEF Typed
<1>4. Consistent(w)
  BY <1>2 DEF Consistent
<1>5. QED  BY <1>1, <1>3, <1>4 DEF w, Good

\* The mailbox of a process that begins.
LEMMA EmptyMailbox == <<>> \in Seq(Messages)
OBVIOUS

\* The first process finds a typed row.
LEMMA InitGood ==
  ASSUME Init
  PROVE  OwnerInv
<1>1. Good(World(Restored(disk, 1), disk, NoPlayer, FALSE))
  <2>1. 0 \in Positions /\ 1 \in Occurrences
    BY OwnerAssumption DEF Positions, Occurrences
  <2>2. /\ DOMAIN disk = {"queue", "cur", "pos", "open"} /\ disk.queue \in Nat
        /\ disk.cur \in Occurrences /\ disk.pos \in Positions /\ disk.open \in BOOLEAN
    BY <2>1 DEF Init
  <2>3. QED
    BY <2>2, RestoredIsGood
<1>2. Good(Now)
  BY <1>1 DEF Init, Now
<1>3. Waiting
  BY EmptyMailbox DEF Init, Waiting, IsEvent
<1>4. Counted
  <2>1. executed = {} /\ skipped = {} /\ admitted = 0 /\ faults = 0
    BY DEF Init
  <2>2. QED
    BY <2>1, OwnerAssumption DEF Counted
<1>5. Fence
  <2>1. save = "none" /\ fenced = FALSE
    BY DEF Init
  <2>2. QED
    BY <2>1 DEF Fence
<1>6. QED  BY <1>2, <1>3, <1>4, <1>5 DEF OwnerInv

\* A restart begins again from the row.
LEMMA RestartKeeps ==
  ASSUME OwnerInv, Restart
  PROVE  OwnerInv'
<1>1. /\ DOMAIN disk = {"queue", "cur", "pos", "open"} /\ disk.queue \in Nat
      /\ disk.cur \in Occurrences /\ disk.pos \in Positions /\ disk.open \in BOOLEAN
  BY DEF OwnerInv, Good, Shape, Typed, Consistent, Now, World
<1>2. Good(World(Restored(disk, 1), disk, NoPlayer, FALSE))
  BY <1>1, RestoredIsGood
<1>3. Good(Now)'
  BY <1>2 DEF Restart, Now
<1>4. Waiting'
  BY EmptyMailbox DEF Restart, Waiting, IsEvent
<1>5. faults' \in 0..MaxFaults
  BY OwnerAssumption DEF Restart, OwnerInv, Counted
<1>6. QED
  BY <1>3, <1>4, <1>5 DEF Restart, OwnerInv, Counted, Fence

-----------------------------------------------------------------------------
(* What was heard, of the worlds.                                         *)

\* An occurrence the cursor may have passed.
Passed(o, h, s) == h[o] = End \/ o \in s

\* What a plan says of a track was heard, and leaves it for the next one rightly.
Earns(plan, h, s) ==
  /\ plan.pos <= h[plan.to]
  /\ plan.to # plan.occ => plan.to = plan.occ + 1 /\ Passed(plan.occ, h, s)
  /\ plan.status = "Completed" => plan.to = Last /\ h[Last] = End

\* Every position of a world was heard, and its cursor is earned, where h was heard and the
\* client asked to leave s. A pipeline of this rendering is at the cursor, or has gone on.
Honest(w, h, s) ==
  /\ w.own.pos <= h[w.own.cur] /\ w.disk.pos <= h[w.own.cur]
  /\ w.own.slot.gen = w.own.gen => w.own.slot.pos <= h[w.own.slot.occ]
  /\ w.player.gen = w.own.gen =>
       /\ w.player.pos <= h[w.player.occ]
       /\ w.player.occ = w.own.cur \/ (w.player.occ = w.own.cur + 1 /\ h[w.own.cur] = End)
  /\ w.own.plan # NoPlan => Earns(w.own.plan, h, s)
  /\ \A o \in Occurrences : o < w.own.cur => Passed(o, h, s)
  /\ w.own.status = "Completed" => w.own.cur = Last /\ h[Last] = End

Histories == [Occurrences -> Positions]

\* A handler that is honest moves the cursor of a rendering to what it plays already only.
Leads(w, v, h, s) ==
  /\ Follows(w, v) /\ Honest(v, h, s)
  /\ v.player.gen = w.player.gen /\ v.player.occ = w.player.occ /\ v.player.pos = w.player.pos
  /\ v.own.gen = w.own.gen => v.own.cur = w.own.cur \/ Presented(w)

\* One that keeps the track, and takes no position from elsewhere.
Stays(w, v, h, s) ==
  /\ v.own.cur = w.own.cur /\ v.own.pos <= h[w.own.cur] /\ v.disk.pos <= h[w.own.cur]
  /\ v.own.status = w.own.status \/ v.own.status # "Completed"
  /\ v.player.gen = w.player.gen /\ v.player.occ = w.player.occ /\ v.player.pos = w.player.pos
  /\ \/ /\ v.own.slot.gen = w.own.slot.gen /\ v.own.slot.occ = w.own.slot.occ
        /\ v.own.slot.pos = w.own.slot.pos
     \/ v.own.slot.occ = w.own.cur /\ v.own.slot.pos <= h[w.own.cur]
  /\ v.own.plan \in {w.own.plan, NoPlan} \/ Earns(v.own.plan, h, s)

\* Such a handler is honest.
LEMMA StaysLeads ==
  ASSUME NEW h \in Histories, NEW s, NEW w, NEW v, Good(w), Honest(w, h, s), Follows(w, v),
         Stays(w, v, h, s)
  PROVE  Leads(w, v, h, s)
<1>1. w.own.gen \in Nat /\ v.own.gen \in Nat /\ w.own.gen <= v.own.gen
  BY DEF Follows, Good, Typed
<1>2. w.own.slot.gen \in 0..w.own.gen /\ w.player.gen \in 0..w.own.gen
  BY DEF Good, Typed
<1>3. v.own.slot.gen = v.own.gen => v.own.slot.pos <= h[v.own.slot.occ]
  BY <1>1, <1>2 DEF Stays, Honest
<1>4. v.player.gen = v.own.gen =>
       /\ v.player.pos <= h[v.player.occ]
       /\ v.player.occ = v.own.cur \/ (v.player.occ = v.own.cur + 1 /\ h[v.own.cur] = End)
  BY <1>1, <1>2 DEF Stays, Honest
<1>5. v.own.plan # NoPlan => Earns(v.own.plan, h, s)
  BY DEF Stays, Honest
<1>6. QED  BY <1>3, <1>4, <1>5 DEF Stays, Honest, Leads

\* Handlers compose.
LEMMA LeadsLead ==
  ASSUME NEW h, NEW s, NEW a, NEW b, NEW c, Good(a), Leads(a, b, h, s), Leads(b, c, h, s)
  PROVE  Leads(a, c, h, s)
<1>1. Follows(a, c)
  BY FollowsFollow DEF Leads
<1>2. a.own.gen \in Nat /\ b.own.gen \in Nat /\ c.own.gen \in Nat
  BY <1>1 DEF Leads, Follows, Good, Typed
<1>3. a.own.gen <= b.own.gen /\ b.own.gen <= c.own.gen
  BY DEF Leads, Follows
<1>4. c.own.gen = a.own.gen => c.own.cur = a.own.cur \/ Presented(a)
  BY <1>2, <1>3 DEF Leads, Presented
<1>5. QED  BY <1>1, <1>4 DEF Leads

\* What is heard of a track is a number.
LEMMA HeardTypes ==
  ASSUME NEW h \in Histories, NEW w, Good(w)
  PROVE  /\ h[w.own.cur] \in Positions /\ h[w.own.cur] \in Nat /\ h[w.own.cur] <= End
         /\ w.own.pos \in Nat /\ w.disk.pos \in Nat /\ w.player.pos \in Nat
         /\ w.player.pos <= End /\ w.own.cur \in Nat /\ w.own.gen \in Nat
<1>1. /\ w.own.cur \in Occurrences /\ w.own.pos \in Positions /\ w.disk.pos \in Positions
      /\ w.player.pos \in Positions /\ w.own.gen \in Nat
  BY DEF Good, Typed
<1>2. h[w.own.cur] \in Positions
  BY <1>1 DEF Histories
<1>3. QED  BY <1>1, <1>2, OwnerAssumption DEF Positions, Occurrences

\* The position a pause or a lost output captures was heard, of the current track.
LEMMA CapturedWasHeard ==
  ASSUME NEW h \in Histories, NEW s, NEW w, Good(w), Honest(w, h, s)
  PROVE  Captured(w) <= h[w.own.cur]
BY HeardTypes DEF Captured, Honest

\* What is of an old rendering says nothing of the new one.
LEMMA NewGenerationLeads ==
  ASSUME NEW h \in Histories, NEW s, NEW w, Good(w), Honest(w, h, s), w.own.plan = NoPlan
  PROVE  Leads(w, NewGeneration(w), h, s)
<1>1. Stays(w, NewGeneration(w), h, s)
  BY DEF NewGeneration, Good, Shape, Stays, Honest
<1>2. QED  BY <1>1, NewGenerationFollows, StaysLeads

\* An epoch moves no position.
LEMMA NextEpochLeads ==
  ASSUME NEW h \in Histories, NEW s, NEW w, Good(w), Honest(w, h, s)
  PROVE  Leads(w, NextEpoch(w), h, s)
<1>1. Stays(w, NextEpoch(w), h, s)
  BY DEF NextEpoch, Good, Shape, Stays, Honest
<1>2. QED  BY <1>1, NextEpochFollows, StaysLeads

\* A plan that is kept is one that is earned.
LEMMA FreezeLeads ==
  ASSUME NEW h \in Histories, NEW s, NEW w, Good(w), Honest(w, h, s), NEW plan, IsPlan(plan),
         plan.gen = w.own.gen, plan.occ = w.own.cur, Earns(plan, h, s)
  PROVE  Leads(w, Freeze(w, plan), h, s)
<1> DEFINE v == Freeze(w, plan)
<1>1. /\ Follows(w, v) /\ v.own.plan = plan /\ LeavesTrack(w, v) /\ v.own.status = "Error"
  BY FreezeFollows
<1> HIDE DEF v
<1>2. Stays(w, v, h, s)
  BY <1>1 DEF LeavesTrack, Stays, Honest
<1>3. QED  BY <1>1, <1>2, StaysLeads DEF v

\* The slot starts over from the position that is shown.
LEMMA ResetSlotLeads ==
  ASSUME NEW h \in Histories, NEW s, NEW w, Good(w), Honest(w, h, s)
  PROVE  Leads(w, ResetSlot(w), h, s)
<1>1. Stays(w, ResetSlot(w), h, s)
  BY DEF ResetSlot, Good, Shape, Stays, Honest
<1>2. QED  BY <1>1, ResetSlotFollows, StaysLeads

\* Doing nothing is honest.
LEMMA SameLeads ==
  ASSUME NEW h, NEW s, NEW w, Good(w), Honest(w, h, s)
  PROVE  Leads(w, w, h, s)
BY DEF Leads, Follows, Good, Typed

\* The slot is renewed or left alone.
LEMMA RefreshSlotLeads ==
  ASSUME NEW h \in Histories, NEW s, NEW w, Good(w), Honest(w, h, s)
  PROVE  Leads(w, RefreshSlot(w), h, s)
BY ResetSlotLeads, SameLeads DEF RefreshSlot

\* An effect starts a preparation, and moves nothing.
LEMMA StartLeads ==
  ASSUME NEW h \in Histories, NEW s, NEW w, Good(w), Honest(w, h, s)
  PROVE  Leads(w, Start(w), h, s)
<1>1. Stays(w, Start(w), h, s)
  BY DEF Start, Good, Shape, Stays, Honest
<1>2. QED  BY <1>1, StartFollows, StaysLeads

\* A sample is taken of this rendering and of this track only.
LEMMA SampleLeads ==
  ASSUME NEW h \in Histories, NEW s, NEW w, Good(w), Honest(w, h, s)
  PROVE  Leads(w, Sample(w), h, s)
<1> DEFINE v     == Sample(w)
           taken == /\ w.own.slot.fresh
                    /\ w.own.plan = NoPlan /\ w.own.status \notin {"Completed", "Error"}
                    /\ w.own.slot.gen = w.own.gen /\ w.own.slot.occ = w.own.cur
<1>1. /\ v.own.cur = w.own.cur /\ v.own.pos = IF taken THEN w.own.slot.pos ELSE w.own.pos
      /\ v.own.status = w.own.status /\ v.own.plan = w.own.plan
      /\ v.own.slot.gen = w.own.slot.gen /\ v.own.slot.occ = w.own.slot.occ
      /\ v.own.slot.pos = w.own.slot.pos /\ v.disk = w.disk /\ v.player = w.player
  BY DEF Sample, Good, Shape
<1>2. taken => w.own.slot.pos <= h[w.own.cur]
  BY DEF Honest
<1> HIDE DEF v, taken
<1>3. Stays(w, v, h, s)
  BY <1>1, <1>2 DEF Stays, Honest
<1>4. QED  BY <1>3, SampleFollows, StaysLeads DEF v

\* What is written is the position that is shown.
LEMMA CheckpointLeads ==
  ASSUME NEW h \in Histories, NEW s, NEW w, Good(w), Honest(w, h, s), NEW ok \in BOOLEAN
  PROVE  Leads(w, Checkpoint(w, ok), h, s)
<1> DEFINE v == [w EXCEPT !.disk.pos = w.own.pos, !.own.dirty = FALSE]
<1>1. Stays(w, v, h, s)
  BY DEF Good, Shape, Stays, Honest
<1>2. Checkpoint(w, ok) = v \/ Checkpoint(w, ok) = w
  BY DEF Checkpoint
<1> HIDE DEF v
<1>3. Follows(w, Checkpoint(w, ok))
  BY CheckpointFollows
<1>4. QED  BY <1>1, <1>2, <1>3, StaysLeads, SameLeads

\* The pipeline goes on where it is.
LEMMA RetainLeads ==
  ASSUME NEW h \in Histories, NEW s, NEW w, Good(w), Honest(w, h, s)
  PROVE  Leads(w, Retain(w), h, s)
<1> DEFINE v == [w EXCEPT !.player.epoch = w.own.epoch]
<1>1. Stays(w, v, h, s)
  BY DEF Good, Shape, Stays, Honest
<1>2. Retain(w) = v \/ Retain(w) = w
  BY DEF Retain
<1> HIDE DEF v
<1>3. Follows(w, Retain(w))
  BY RetainFollows
<1>4. QED  BY <1>1, <1>2, <1>3, StaysLeads, SameLeads

\* commit_terminal, of a plan that is earned.
LEMMA CommitLeads ==
  ASSUME NEW h \in Histories, NEW s, NEW w, Good(w), Honest(w, h, s),
         NEW plan, IsPlan(plan), Earns(plan, h, s), NEW recovery \in BOOLEAN, NEW ok \in BOOLEAN
  PROVE  Leads(w, Commit(w, plan, recovery, ok), h, s)
<1> DEFINE leaves == plan.to # plan.occ
           moves  == leaves \/ recovery
           status == IF recovery /\ plan.status = "Playing" THEN "Paused" ELSE plan.status
           gate   == status = "Playing"
           m == IF moves THEN NewGeneration([w EXCEPT !.own.epoch = @ + 1]) ELSE w
           v == Written(m, plan, status, gate, leaves)
<1>1. CASE plan.gen # w.own.gen \/ plan.occ # w.own.cur
  <2>1. Stays(w, [w EXCEPT !.own.plan = NoPlan], h, s)
    BY DEF Good, Shape, Stays, Honest
  <2>2. QED
    BY <1>1, <2>1, DroppedFollows, StaysLeads DEF Commit
<1>2. CASE /\ plan.gen = w.own.gen /\ plan.occ = w.own.cur
           /\ ~ok \/ ~(plan.keeps \/ w.disk.open)
  BY <1>2, FreezeLeads DEF Commit
<1>3. CASE /\ plan.gen = w.own.gen /\ plan.occ = w.own.cur
           /\ ok /\ (plan.keeps \/ w.disk.open)
  <2>1. /\ status \in Statuses /\ leaves \in BOOLEAN /\ moves \in BOOLEAN
        /\ gate \in BOOLEAN /\ (gate => leaves)
    BY DEF IsPlan, Statuses
  <2>2. Commit(w, plan, recovery, ok) = v
    BY <1>3 DEF Commit, Written
  <2>3. (leaves => moves) /\ (status = "Completed" => plan.status = "Completed")
    OBVIOUS
  <2>a. leaves <=> plan.to # w.own.cur
    BY <1>3
  <2> HIDE DEF status, moves, leaves, gate
  <2>4. /\ Follows(w, v) /\ v.own.plan = NoPlan /\ v.own.status = status
        /\ v.own.cur = plan.to /\ v.own.pos = plan.pos /\ v.disk.pos = plan.pos
        /\ v.own.gen = IF moves THEN w.own.gen + 1 ELSE w.own.gen
        /\ v.own.slot = w.own.slot /\ v.player.gen = w.player.gen
        /\ v.player.occ = w.player.occ /\ v.player.pos = w.player.pos
    BY <1>3, <2>1, CommittedFollows
  <2> HIDE DEF v
  <2>5. /\ w.own.gen \in Nat /\ w.own.slot.gen \in 0..w.own.gen /\ w.player.gen \in 0..w.own.gen
        /\ w.own.cur \in Nat
    BY DEF Good, Typed, Occurrences
  <2>6. moves => v.own.slot.gen # v.own.gen /\ v.player.gen # v.own.gen
    BY <2>4, <2>5
  <2>7. ~moves => v.own.cur = w.own.cur /\ v.own.gen = w.own.gen
    BY <2>3, <2>4, <2>a
  <2>8. ASSUME NEW o \in Occurrences, o < v.own.cur PROVE Passed(o, h, s)
    <3>1. CASE o < w.own.cur
      BY <3>1 DEF Honest
    <3>2. CASE ~(o < w.own.cur)
      <4>1. leaves /\ plan.to = w.own.cur + 1 /\ Passed(w.own.cur, h, s)
        BY <1>3, <2>8, <2>4, <2>a, <3>2 DEF Earns
      <4>2. o = w.own.cur
        BY <2>4, <2>5, <2>8, <3>2, <4>1 DEF Occurrences
      <4>3. QED  BY <4>1, <4>2
    <3>3. QED  BY <3>1, <3>2
  <2>9. v.own.status = "Completed" => v.own.cur = Last /\ h[Last] = End
    BY <2>3, <2>4 DEF Earns
  <2>10. Honest(v, h, s)
    <3>1. v.own.pos <= h[v.own.cur] /\ v.disk.pos <= h[v.own.cur]
      BY <2>4 DEF Earns
    <3>2. v.own.slot.gen = v.own.gen => v.own.slot.pos <= h[v.own.slot.occ]
      BY <2>4, <2>6, <2>7 DEF Honest
    <3>3. v.player.gen = v.own.gen =>
            /\ v.player.pos <= h[v.player.occ]
            /\ v.player.occ = v.own.cur \/ (v.player.occ = v.own.cur + 1 /\ h[v.own.cur] = End)
      BY <2>4, <2>6, <2>7 DEF Honest
    <3>4. QED  BY <2>4, <2>8, <2>9, <3>1, <3>2, <3>3 DEF Honest
  <2>11. v.own.gen = w.own.gen => v.own.cur = w.own.cur
    BY <2>4, <2>5, <2>7
  <2>12. Leads(w, v, h, s)
    BY <2>4, <2>10, <2>11 DEF Leads
  <2>13. QED  BY <2>2, <2>12 DEF v
<1>4. QED  BY <1>1, <1>2, <1>3

\* A handoff is adopted of a track that was heard to its end.
LEMMA AdoptLeads ==
  ASSUME NEW h \in Histories, NEW s, NEW w, Good(w), Honest(w, h, s), NEW ok \in BOOLEAN
  PROVE  Leads(w, Adopt(w, ok), h, s) /\ Adopt(w, ok).own.gen = w.own.gen
<1> DEFINE plan == Plan(w, w.player.occ, w.player.pos, "Paused", FALSE, FALSE)
           status == IF w.own.gate THEN "Playing" ELSE "Paused"
           v == [w EXCEPT
                   !.own.cur = w.player.occ, !.own.pos = w.player.pos, !.own.status = status,
                   !.own.failed = FALSE, !.own.dirty = FALSE,
                   !.disk = [@ EXCEPT !.cur = w.player.occ, !.pos = w.player.pos]]
<1>a. w.own.cur \in Nat /\ w.own.cur \in Occurrences
  BY DEF Good, Typed, Occurrences
<1>b. Adopts(w) => /\ w.own.plan = NoPlan /\ w.player.gen = w.own.gen
                   /\ w.player.occ = w.own.cur + 1 /\ h[w.own.cur] = End
                   /\ w.player.pos <= h[w.player.occ] /\ Presented(w)
  BY <1>a DEF Adopts, Presented, Honest
<1>1. CASE ~Adopts(w)
  BY <1>1, SameLeads DEF Adopt
<1>2. CASE Adopts(w) /\ ~(ok /\ w.disk.open)
  <2>1. /\ IsPlan(plan) /\ plan.gen = w.own.gen /\ plan.occ = w.own.cur
        /\ plan.to = w.player.occ /\ plan.pos = w.player.pos /\ plan.status = "Paused"
    BY DEF Plan, IsPlan, Good, Typed, Statuses
  <2> HIDE DEF plan
  <2>2. Earns(plan, h, s)
    BY <1>2, <1>b, <2>1 DEF Earns, Passed
  <2>3. Leads(w, Freeze(w, plan), h, s) /\ Freeze(w, plan).own.gen = w.own.gen
    BY <2>1, <2>2, FreezeLeads, FreezeFollows DEF LeavesTrack
  <2>4. QED  BY <1>2, <2>3 DEF Adopt, plan
<1>3. CASE Adopts(w) /\ ok /\ w.disk.open
  <2>1. status \in Statuses /\ status # "Completed"
    BY DEF Statuses
  <2>2. Adopt(w, ok) = ResetSlot(v)
    BY <1>3 DEF Adopt
  <2> HIDE DEF status
  <2>3. /\ Follows(w, v) /\ v.own.gen = w.own.gen /\ v.own.cur = w.player.occ
        /\ v.own.pos = w.player.pos /\ v.disk.pos = w.player.pos
        /\ v.own.status = status /\ v.own.plan = NoPlan
        /\ v.own.slot = w.own.slot /\ v.player = w.player
    BY <1>3, <2>1, AdoptedFollows DEF Adopts
  <2> HIDE DEF v
  <2>4. ASSUME NEW o \in Occurrences, o < v.own.cur PROVE Passed(o, h, s)
    <3>1. o \in Nat /\ o < w.own.cur + 1
      BY <1>3, <1>b, <2>3, <2>4 DEF Occurrences
    <3>2. o = w.own.cur \/ o < w.own.cur
      BY <1>a, <3>1
    <3>3. QED  BY <1>3, <1>b, <3>2 DEF Honest, Passed
  <2>5. Honest(v, h, s)
    BY <1>3, <1>b, <2>1, <2>3, <2>4 DEF Honest
  <2>6. Leads(w, v, h, s)
    BY <1>3, <1>b, <2>3, <2>5 DEF Leads
  <2>7. Leads(v, ResetSlot(v), h, s) /\ ResetSlot(v).own.gen = v.own.gen
    BY <2>3, <2>5, ResetSlotLeads DEF Follows, ResetSlot, Good, Shape
  <2>8. QED  BY <2>2, <2>3, <2>6, <2>7, LeadsLead
<1>4. QED  BY <1>1, <1>2, <1>3

\* Another attempt begins where the last one ended, or at the beginning.
LEMMA ReopenedLeads ==
  ASSUME NEW h \in Histories, NEW s, NEW w, Good(w), Honest(w, h, s)
  PROVE  Leads(w, Reopened(w), h, s)
<1> DEFINE v == Reopened(w)
<1>1. /\ Follows(w, v) /\ v.own.plan = w.own.plan /\ v.own.pos \in {0, w.own.pos}
      /\ v.disk.pos \in {w.disk.pos, v.own.pos} /\ v.own.cur = w.own.cur
      /\ v.own.status = w.own.status /\ v.own.slot = w.own.slot /\ v.player = w.player
  BY ReopenedFollows
<1> HIDE DEF v
<1>2. Stays(w, v, h, s)
  BY <1>1, HeardTypes DEF Stays, Honest, Positions
<1>3. QED  BY <1>1, <1>2, StaysLeads DEF v

\* Playback starts where it is.
LEMMA PlayingLeads ==
  ASSUME NEW h \in Histories, NEW s, NEW w, Good(w), Honest(w, h, s), w.own.plan = NoPlan,
         w.disk.open
  PROVE  Leads(w, Playing(w), h, s)
<1>1. Stays(w, Playing(w), h, s)
  BY DEF Playing, Start, Good, Shape, Stays, Honest
<1>2. QED  BY <1>1, PlayingFollows, StaysLeads

\* A pause takes the position of the pipeline, which was heard.
LEMMA PauseLeads ==
  ASSUME NEW h \in Histories, NEW s, NEW w, Good(w), Honest(w, h, s)
  PROVE  Leads(w, Pause(w).world, h, s)
<1> DEFINE pos == Captured(w)
           v   == [w EXCEPT !.own.pos = pos, !.own.gate = FALSE, !.own.status = "Paused"]
           x   == NextEpoch(v)
<1>1. Pause(w).world = Retain(x)
  BY DEF Pause, Done
<1>2. pos <= h[w.own.cur]
  BY CapturedWasHeard
<1> HIDE DEF pos
<1>3. /\ v.own.cur = w.own.cur /\ v.own.pos = pos /\ v.own.status = "Paused"
      /\ v.own.plan = w.own.plan /\ v.own.slot = w.own.slot /\ v.disk = w.disk
      /\ v.player = w.player
  BY DEF Good, Shape
<1>4. /\ x.own.cur = v.own.cur /\ x.own.pos = v.own.pos /\ x.own.status = v.own.status
      /\ x.own.plan = v.own.plan /\ x.own.slot = v.own.slot /\ x.disk = v.disk
      /\ x.player = v.player
  <2>1. DOMAIN v = DOMAIN w /\ DOMAIN v.own = DOMAIN w.own
    OBVIOUS
  <2> HIDE DEF v
  <2>2. QED  BY <2>1 DEF NextEpoch, Good, Shape
<1> HIDE DEF v, x
<1>5. /\ Retain(x).own = x.own /\ Retain(x).disk = x.disk
      /\ Retain(x).player.gen = x.player.gen /\ Retain(x).player.occ = x.player.occ
      /\ Retain(x).player.pos = x.player.pos
  <2>1. DOMAIN x = DOMAIN w /\ DOMAIN x.player = DOMAIN w.player
    BY <1>3, <1>4 DEF x, v, NextEpoch
  <2>2. QED  BY <2>1 DEF Retain, Good, Shape
<1>6. Stays(w, Retain(x), h, s)
  BY <1>2, <1>3, <1>4, <1>5 DEF Stays, Honest
<1>7. QED  BY <1>1, <1>6, PauseFollows, StaysLeads

\* Resume starts where playback was left.
LEMMA ResumeLeads ==
  ASSUME NEW h \in Histories, NEW s, NEW w, Good(w), Honest(w, h, s), w.own.plan = NoPlan,
         NEW ok \in BOOLEAN
  PROVE  Leads(w, Resume(w, ok).world, h, s)
<1> DEFINE reopened == Reopened(w)
           next     == NextEpoch(reopened)
           again    == Retain(next)
           renewed  == IF w.own.status \in {"Completed", "Error"} \/ w.own.failed
                       THEN NewGeneration(again) ELSE again
<1>1. CASE w.own.gate \/ (~w.disk.open /\ ~ok)
  <2>1. Resume(w, ok) \in {Done(w), Refused(w)}
    <3>1. CASE w.own.gate
      BY <3>1, Zenon DEF Resume
    <3>2. CASE ~w.own.gate
      BY <1>1, <3>2, Zenon DEF Resume
    <3>3. QED  BY <3>1, <3>2
  <2>2. Resume(w, ok).world = w
    BY <2>1 DEF Done, Refused
  <2>3. QED  BY <2>2, SameLeads
<1>2. CASE ~(w.own.gate \/ (~w.disk.open /\ ~ok))
  <2>1. Resume(w, ok).world = Playing(renewed)
    BY <1>2 DEF Resume, Done
  <2> HIDE DEF renewed
  <2>2. /\ Leads(w, reopened, h, s) /\ Good(reopened) /\ Honest(reopened, h, s)
        /\ reopened.own.plan = NoPlan /\ reopened.disk.open
    BY ReopenedFollows, ReopenedLeads DEF Leads, Follows
  <2> HIDE DEF reopened
  <2>3. /\ Leads(reopened, next, h, s) /\ Good(next) /\ Honest(next, h, s)
        /\ next.own.plan = NoPlan /\ next.disk.open
    BY <2>2, NextEpochFollows, NextEpochLeads DEF Leads, Follows, Same
  <2> HIDE DEF next
  <2>4. /\ Leads(next, again, h, s) /\ Good(again) /\ Honest(again, h, s)
        /\ again.own.plan = NoPlan /\ again.disk.open
    BY <2>3, RetainFollows, RetainLeads DEF Leads, Follows, Same
  <2> HIDE DEF again
  <2>5. /\ Leads(again, renewed, h, s) /\ Good(renewed) /\ Honest(renewed, h, s)
        /\ renewed.own.plan = NoPlan /\ renewed.disk.open
    BY <2>4, NewGenerationFollows, NewGenerationLeads, SameLeads
       DEF Leads, Follows, Same, renewed
  <2>6. Leads(renewed, Playing(renewed), h, s)
    BY <2>5, PlayingLeads
  <2>7. QED  BY <2>1, <2>2, <2>3, <2>4, <2>5, <2>6, LeadsLead
<1>3. QED  BY <1>1, <1>2

\* So does Retry.
LEMMA RetryLeads ==
  ASSUME NEW h \in Histories, NEW s, NEW w, Good(w), Honest(w, h, s), w.own.plan = NoPlan,
         NEW ok \in BOOLEAN
  PROVE  Leads(w, Retry(w, ok).world, h, s)
<1> DEFINE reopened == Reopened(w)
           next     == NextEpoch(reopened)
           renewed  == NewGeneration(next)
<1>1. CASE w.own.status # "Error" \/ (~w.disk.open /\ ~ok)
  <2>1. Retry(w, ok) = Refused(w)
    BY <1>1, Zenon DEF Retry
  <2>2. QED  BY <2>1, SameLeads DEF Refused
<1>2. CASE ~(w.own.status # "Error" \/ (~w.disk.open /\ ~ok))
  <2>1. Retry(w, ok).world = Playing(renewed)
    BY <1>2 DEF Retry, Done
  <2>2. /\ Leads(w, reopened, h, s) /\ Good(reopened) /\ Honest(reopened, h, s)
        /\ reopened.own.plan = NoPlan /\ reopened.disk.open
    BY ReopenedFollows, ReopenedLeads DEF Leads, Follows
  <2> HIDE DEF reopened
  <2>3. /\ Leads(reopened, next, h, s) /\ Good(next) /\ Honest(next, h, s)
        /\ next.own.plan = NoPlan /\ next.disk.open
    BY <2>2, NextEpochFollows, NextEpochLeads DEF Leads, Follows, Same
  <2> HIDE DEF next
  <2>4. /\ Leads(next, renewed, h, s) /\ Good(renewed) /\ Honest(renewed, h, s)
        /\ renewed.own.plan = NoPlan /\ renewed.disk.open
    BY <2>3, NewGenerationFollows, NewGenerationLeads DEF Leads, Follows, Same
  <2> HIDE DEF renewed
  <2>5. Leads(renewed, Playing(renewed), h, s)
    BY <2>4, PlayingLeads
  <2>6. QED  BY <2>1, <2>2, <2>3, <2>4, <2>5, LeadsLead
<1>3. QED  BY <1>1, <1>2

\* Next leaves a track that the client asked to leave.
LEMMA SkipToLeads ==
  ASSUME NEW h \in Histories, NEW s, NEW w, Good(w), Honest(w, h, s), w.own.plan = NoPlan,
         w.own.cur \in s, NEW ok \in BOOLEAN
  PROVE  Leads(w, SkipTo(w, ok).world, h, s)
<1> DEFINE status == IF w.own.status = "Playing" THEN "Playing"
                     ELSE IF w.own.status \in {"Stopped", "Completed"} THEN "Stopped"
                     ELSE "Paused"
           plan == Plan(w, w.own.cur + 1, 0, status, FALSE, ~w.disk.open)
           next == NextEpoch(w)
           left == Commit(next, plan, FALSE, ok)
<1>1. CASE w.own.cur = Last
  <2>1. SkipTo(w, ok) = Refused(w)
    BY <1>1, Zenon DEF SkipTo
  <2>2. QED  BY <2>1, SameLeads DEF Refused
<1>2. CASE w.own.cur # Last
  <2>1. \/ SkipTo(w, ok).world = left
        \/ SkipTo(w, ok).world = Start(left)
    BY <1>2 DEF SkipTo, Done, Refused
  <2>2. status \in Statuses /\ status # "Completed"
    BY DEF Statuses
  <2> HIDE DEF status
  <2>3. w.own.cur + 1 \in Occurrences /\ w.own.cur # w.own.cur + 1 /\ 0 \in Positions
    BY <1>2, OwnerAssumption DEF Good, Typed, Occurrences, Positions
  <2>4. 0 <= h[w.own.cur + 1]
    BY <2>3, OwnerAssumption DEF Histories, Positions
  <2>5. IsPlan(plan) /\ Earns(plan, h, s)
    BY <2>2, <2>3, <2>4 DEF IsPlan, Plan, Good, Typed, Earns, Passed
  <2> HIDE DEF plan
  <2>6. Leads(w, next, h, s) /\ Good(next) /\ Honest(next, h, s)
    BY NextEpochLeads DEF Leads, Follows
  <2> HIDE DEF next
  <2>7. Leads(next, left, h, s)
    BY <2>5, <2>6, CommitLeads
  <2> HIDE DEF left
  <2>8. Good(left) /\ Honest(left, h, s)
    BY <2>7 DEF Leads, Follows
  <2>9. Leads(left, Start(left), h, s)
    BY <2>8, StartLeads
  <2>10. QED  BY <2>1, <2>6, <2>7, <2>9, LeadsLead
<1>3. QED  BY <1>1, <1>2

\* Stop returns to the beginning of the track.
LEMMA StopLeads ==
  ASSUME NEW h \in Histories, NEW s, NEW w, Good(w), Honest(w, h, s), NEW ok \in BOOLEAN
  PROVE  Leads(w, Stop(w, ok).world, h, s)
<1> DEFINE v    == [w EXCEPT !.own.plan = NoPlan, !.own.gate = FALSE, !.own.pos = 0,
                             !.own.status = "Stopped", !.own.dirty = TRUE]
           next == NextEpoch(v)
           renewed == NewGeneration(next)
<1>1. Stop(w, ok).world = Checkpoint(renewed, ok)
  BY DEF Stop, Done, Refused
<1>2. /\ Follows(w, v) /\ v.own.plan = NoPlan
      /\ v.own.cur = w.own.cur /\ v.own.pos = 0 /\ v.own.status = "Stopped"
      /\ v.disk = w.disk /\ v.own.slot = w.own.slot /\ v.player = w.player
  BY StoppedFollows
<1> HIDE DEF v
<1>3. Stays(w, v, h, s)
  BY <1>2, HeardTypes DEF Stays, Honest, Positions
<1>4. Leads(w, v, h, s) /\ Good(v) /\ Honest(v, h, s)
  BY <1>2, <1>3, StaysLeads DEF Leads, Follows
<1>5. Leads(v, next, h, s) /\ Good(next) /\ Honest(next, h, s) /\ next.own.plan = NoPlan
  BY <1>2, <1>4, NextEpochFollows, NextEpochLeads DEF Leads, Follows, Same
<1> HIDE DEF next
<1>6. Leads(next, renewed, h, s) /\ Good(renewed) /\ Honest(renewed, h, s)
  BY <1>5, NewGenerationLeads DEF Leads, Follows
<1> HIDE DEF renewed
<1>7. Leads(renewed, Checkpoint(renewed, ok), h, s)
  BY <1>6, CheckpointLeads
<1>8. QED  BY <1>1, <1>4, <1>5, <1>6, <1>7, LeadsLead

\* Nothing of a new queue has been heard, and it begins at the beginning.
LEMMA ReplaceLeads ==
  ASSUME NEW h \in Histories, NEW s, NEW w, Good(w), Honest(w, h, s), NEW command,
         NEW ok \in BOOLEAN
  PROVE  LET v == Replace(w, command, ok).world
         IN \/ Replace(w, command, ok).result = "error" /\ v = w
            \/ /\ Replace(w, command, ok).result = "ok"
               /\ Honest(v, [o \in Occurrences |-> 0], {})
               /\ w.own.gen < v.own.gen
<1> DEFINE queue == w.own.queue + 1
           v     == [w EXCEPT !.own.queue = queue, !.own.cur = 1, !.own.pos = 0,
                              !.own.dirty = FALSE, !.own.plan = NoPlan,
                              !.disk = [queue |-> queue, cur |-> 1, pos |-> 0, open |-> TRUE]]
           next  == NextEpoch(v)
           renewed == NewGeneration(next)
           zero  == [o \in Occurrences |-> 0]
<1>1. CASE command.queue # w.own.queue \/ ~ok
  <2>1. Replace(w, command, ok) = Refused(w)
    BY <1>1, Zenon DEF Replace
  <2>2. QED  BY <2>1 DEF Refused
<1>2. CASE ~(command.queue # w.own.queue \/ ~ok)
  <2>1. Replace(w, command, ok).world = Playing(renewed) /\ Replace(w, command, ok).result = "ok"
    BY <1>2 DEF Replace, Done
  <2>2. queue \in Nat
    BY DEF Good, Typed
  <2> HIDE DEF queue
  <2>3. /\ Follows(w, v) /\ v.own.plan = NoPlan /\ v.disk.open
        /\ v.own.gen = w.own.gen /\ v.own.cur = 1 /\ v.own.pos = 0 /\ v.disk.pos = 0
        /\ v.own.slot = w.own.slot /\ v.player = w.player
    BY <2>2, ReplacedFollows
  <2> HIDE DEF v
  <2>4. /\ next.own.plan = NoPlan /\ next.own.gen = w.own.gen
        /\ next.own.cur = 1 /\ next.own.pos = 0 /\ next.disk.pos = 0
        /\ next.own.slot = w.own.slot /\ next.player = w.player /\ Shape(next)
    BY <2>3 DEF NextEpoch, Follows, Good, Shape
  <2> HIDE DEF next
  <2>5. /\ renewed.own.plan = NoPlan /\ renewed.own.gen = w.own.gen + 1
        /\ renewed.own.cur = 1 /\ renewed.own.pos = 0 /\ renewed.disk.pos = 0
        /\ renewed.own.slot = w.own.slot /\ renewed.player.gen = w.player.gen /\ Shape(renewed)
    BY <2>4 DEF NewGeneration, Shape
  <2> HIDE DEF renewed
  <2> DEFINE x == Playing(renewed)
  <2>6. /\ x.own.plan = NoPlan /\ x.own.gen = w.own.gen + 1 /\ x.own.status = "Playing"
        /\ x.own.cur = 1 /\ x.own.pos = 0 /\ x.disk.pos = 0
        /\ x.own.slot = w.own.slot /\ x.player.gen = w.player.gen
    BY <2>5 DEF Playing, Start, Shape
  <2> HIDE DEF x
  <2>7. /\ w.own.gen \in Nat /\ w.own.slot.gen \in 0..w.own.gen /\ w.player.gen \in 0..w.own.gen
        /\ 1 \in Occurrences
    BY OwnerAssumption DEF Good, Typed, Occurrences
  <2>8. \A o \in Occurrences : ~(o < 1)
    BY DEF Occurrences
  <2>9. zero[1] = 0
    BY <2>7
  <2> HIDE DEF zero
  <2>10. Honest(x, zero, {})
    BY <2>6, <2>7, <2>8, <2>9 DEF Honest
  <2>11. QED  BY <2>1, <2>6, <2>7, <2>10 DEF x, zero
<1>3. QED  BY <1>1, <1>2

\* control_inner, where a Next is of a track the client asked to leave.
LEMMA ControlLeads ==
  ASSUME NEW h \in Histories, NEW s, NEW w, Good(w), Honest(w, h, s),
         NEW command, command.kind \in Kinds \ {"Play"},
         command.kind = "Next" /\ command.gen = w.own.gen => command.occ \in s,
         NEW adopted \in BOOLEAN, NEW ok \in BOOLEAN
  PROVE  Leads(w, Control(w, command, adopted, ok).world, h, s)
<1> DEFINE v == Adopt(w, adopted)
           recovered == Commit(v, v.own.plan, TRUE, ok)
           world == Control(w, command, adopted, ok).world
<1>1. Leads(w, v, h, s) /\ v.own.gen = w.own.gen
  BY AdoptLeads
<1>2. \/ world = v
      \/ v.own.plan # NoPlan /\ world = recovered
      \/ v.own.plan = NoPlan /\ world \in {Pause(v).world, Resume(v, ok).world,
                                          Retry(v, ok).world}
      \/ /\ v.own.plan = NoPlan /\ world = SkipTo(v, ok).world
         /\ command.kind = "Next" /\ command.gen = v.own.gen /\ command.occ = v.own.cur
      \/ world = Stop(v, ok).world
  BY DEF Control, Kinds, Done, Refused
<1> HIDE DEF v, world
<1>3. Good(v) /\ Honest(v, h, s)
  BY <1>1 DEF Leads, Follows
<1>4. ASSUME v.own.plan # NoPlan PROVE Leads(v, recovered, h, s)
  <2>1. IsPlan(v.own.plan) /\ Earns(v.own.plan, h, s)
    BY <1>3, <1>4 DEF Good, Consistent, Honest
  <2>2. QED
    BY <1>3, <2>1, CommitLeads
<1> HIDE DEF recovered
<1>5. ASSUME v.own.plan = NoPlan
      PROVE  /\ Leads(v, Pause(v).world, h, s) /\ Leads(v, Resume(v, ok).world, h, s)
             /\ Leads(v, Retry(v, ok).world, h, s)
  BY <1>3, <1>5, PauseLeads, ResumeLeads, RetryLeads
<1>6. ASSUME v.own.plan = NoPlan, command.kind = "Next", command.gen = v.own.gen,
             command.occ = v.own.cur
      PROVE  Leads(v, SkipTo(v, ok).world, h, s)
  <2>1. v.own.cur \in s
    BY <1>1, <1>6
  <2>2. QED  BY <1>3, <1>6, <2>1, SkipToLeads
<1>7. Leads(v, Stop(v, ok).world, h, s) /\ Leads(v, v, h, s)
  BY <1>3, StopLeads, SameLeads
<1>8. Leads(v, world, h, s)
  BY <1>2, <1>4, <1>5, <1>6, <1>7
<1>9. QED  BY <1>1, <1>8, LeadsLead DEF world

\* A failure keeps the last sample.
LEMMA FailedLeads ==
  ASSUME NEW h \in Histories, NEW s, NEW w, Good(w), Honest(w, h, s), NEW ok \in BOOLEAN
  PROVE  Leads(w, Failed(w, ok), h, s)
<1> DEFINE v == Sample(w)
           plan == Plan(v, v.own.cur, v.own.pos, "Error", TRUE, FALSE)
           left == Commit(v, plan, FALSE, ok)
<1>1. Failed(w, ok) \in {w, ResetSlot(left), RefreshSlot(left)}
  BY DEF Failed
<1>2. Leads(w, v, h, s) /\ Good(v) /\ Honest(v, h, s)
  BY SampleLeads DEF Leads, Follows
<1> HIDE DEF v
<1>3. IsPlan(plan) /\ Earns(plan, h, s)
  BY <1>2 DEF IsPlan, Plan, Good, Typed, Statuses, Honest, Earns
<1> HIDE DEF plan
<1>4. Leads(v, left, h, s)
  BY <1>2, <1>3, CommitLeads
<1> HIDE DEF left
<1>5. Good(left) /\ Honest(left, h, s)
  BY <1>4 DEF Leads, Follows
<1>6. /\ Leads(w, w, h, s) /\ Leads(w, left, h, s)
      /\ Leads(left, ResetSlot(left), h, s) /\ Leads(left, RefreshSlot(left), h, s)
  BY <1>2, <1>4, <1>5, LeadsLead, ResetSlotLeads, RefreshSlotLeads, SameLeads
<1>7. Leads(w, ResetSlot(left), h, s) /\ Leads(w, RefreshSlot(left), h, s)
  BY <1>6, LeadsLead
<1>8. QED  BY <1>1, <1>6, <1>7

\* complete_occurrence, of a track that was heard to its end.
LEMMA CompletedLeads ==
  ASSUME NEW h \in Histories, NEW s, NEW w, Good(w), Honest(w, h, s), h[w.own.cur] = End,
         NEW ok \in BOOLEAN
  PROVE  Leads(w, Completed(w, ok), h, s)
<1> DEFINE next == IF w.own.cur = Last THEN w.own.cur ELSE w.own.cur + 1
           plan == IF next = w.own.cur THEN Plan(w, next, End, "Completed", FALSE, FALSE)
                   ELSE Plan(w, next, 0, IF w.own.status = "Playing" THEN "Playing" ELSE "Paused",
                             FALSE, FALSE)
           left == Commit(w, plan, FALSE, ok)
           started == IF left.own.gate THEN Start(left) ELSE left
<1>1. Completed(w, ok) \in {w, ResetSlot(started)}
  BY DEF Completed
<1>a. w.own.cur \in Occurrences
  BY DEF Good, Typed
<1>b. /\ next \in Occurrences /\ 0 \in Positions /\ End \in Positions
      /\ next # w.own.cur => next = w.own.cur + 1
      /\ next = w.own.cur => w.own.cur = Last
  BY <1>a, OwnerAssumption DEF Occurrences, Positions
<1> HIDE DEF next
<1>2. h[next] \in Positions
  BY <1>b DEF Histories
<1>3. IsPlan(plan)
  BY <1>b DEF IsPlan, Plan, Good, Typed, Statuses
<1>4. Earns(plan, h, s)
  <2>1. CASE next = w.own.cur
    BY <1>b, <2>1, OwnerAssumption DEF Plan, Earns
  <2>2. CASE next # w.own.cur
    BY <1>b, <1>2, <2>2 DEF Plan, Earns, Passed, Positions
  <2>3. QED  BY <2>1, <2>2
<1> HIDE DEF plan
<1>5. Leads(w, left, h, s)
  BY <1>3, <1>4, CommitLeads
<1> HIDE DEF left
<1>6. Good(left) /\ Honest(left, h, s)
  BY <1>5 DEF Leads, Follows
<1>7. Leads(left, started, h, s)
  BY <1>6, StartLeads, SameLeads
<1> HIDE DEF started
<1>8. Good(started) /\ Honest(started, h, s)
  BY <1>7 DEF Leads, Follows
<1>9. Leads(w, w, h, s) /\ Leads(started, ResetSlot(started), h, s)
  BY <1>8, ResetSlotLeads, SameLeads
<1>10. Leads(w, ResetSlot(started), h, s)
  BY <1>5, <1>6, <1>7, <1>8, <1>9, LeadsLead
<1>11. QED  BY <1>1, <1>9, <1>10

\* A lost output keeps what was captured of this track.
LEMMA LostLeads ==
  ASSUME NEW h \in Histories, NEW s, NEW w, Good(w), Honest(w, h, s), w.own.plan = NoPlan,
         NEW ok \in BOOLEAN
  PROVE  Leads(w, Lost(w, ok), h, s)
<1> DEFINE closed == [w EXCEPT !.own.gate = FALSE]
           v      == Sample(closed)
           pos    == IF Captured(v) > v.own.pos THEN Captured(v) ELSE v.own.pos
           lost   == [v EXCEPT !.own.pos = pos, !.own.dirty = TRUE, !.own.status = "Error",
                               !.own.failed = TRUE]
           renewed == NewGeneration(lost)
           fresh   == RefreshSlot(renewed)
<1>1. Lost(w, ok) = Checkpoint(fresh, ok)
  BY DEF Lost
<1>2. /\ Follows(w, closed) /\ closed.own.plan = NoPlan /\ ~closed.own.gate
      /\ Stays(w, closed, h, s)
  BY ClosedFollows DEF Good, Shape, Stays, Honest
<1> HIDE DEF closed
<1>3. Leads(w, closed, h, s) /\ Good(closed) /\ Honest(closed, h, s)
  BY <1>2, StaysLeads DEF Leads, Follows
<1>4. /\ Leads(closed, v, h, s) /\ Good(v) /\ Honest(v, h, s)
      /\ v.own.plan = NoPlan /\ ~v.own.gate
  BY <1>2, <1>3, SampleFollows, SampleLeads DEF Leads, Follows, Same
<1> HIDE DEF v
<1>5. pos \in Positions /\ pos <= h[v.own.cur]
  BY <1>4, CapturedWasHeard DEF Captured, Good, Typed, Honest
<1> HIDE DEF pos
<1>6. /\ Follows(v, lost) /\ lost.own.plan = NoPlan
      /\ Stays(v, lost, h, s)
  BY <1>4, <1>5, LostFields DEF Good, Shape, Stays, Honest
<1> HIDE DEF lost
<1>7. Leads(v, lost, h, s) /\ Good(lost) /\ Honest(lost, h, s)
  BY <1>4, <1>6, StaysLeads DEF Leads, Follows
<1>8. Leads(lost, renewed, h, s) /\ Good(renewed) /\ Honest(renewed, h, s)
  BY <1>6, <1>7, NewGenerationLeads DEF Leads, Follows
<1> HIDE DEF renewed
<1>9. Leads(renewed, fresh, h, s) /\ Good(fresh) /\ Honest(fresh, h, s)
  BY <1>8, RefreshSlotLeads DEF Leads, Follows
<1> HIDE DEF fresh
<1>10. Leads(fresh, Checkpoint(fresh, ok), h, s)
  BY <1>9, CheckpointLeads
<1>11. Leads(w, v, h, s) /\ Leads(v, renewed, h, s)
  BY <1>3, <1>4, <1>7, <1>8, LeadsLead
<1>12. QED  BY <1>1, <1>4, <1>8, <1>9, <1>10, <1>11, LeadsLead

\* An event of this rendering that says it is complete says so of what was heard.
LEMMA AppliedLeads ==
  ASSUME NEW h \in Histories, NEW s, NEW w, Good(w), Honest(w, h, s),
         NEW e, e.kind \in {"Failed", "Completed", "Lost"},
         e.kind = "Completed" /\ e.gen = w.own.gen => h[w.own.cur] = End, NEW ok \in BOOLEAN
  PROVE  Leads(w, Applied(w, e, ok), h, s)
<1>1. Leads(w, w, h, s) /\ Leads(w, Failed(w, ok), h, s)
  BY SameLeads, FailedLeads
<1>2. w.own.plan = NoPlan => Leads(w, Lost(w, ok), h, s)
  BY LostLeads
<1>3. e.kind = "Completed" /\ e.gen = w.own.gen => Leads(w, Completed(w, ok), h, s)
  BY CompletedLeads
<1>4. QED  BY <1>1, <1>2, <1>3 DEF Applied

-----------------------------------------------------------------------------
(* What was heard, of the states.                                          *)

\* A completion that waits is of the track at the cursor, and of nothing that plays on.
CompletionTrue ==
  CompletionWaits => heard[own.cur] = End /\ (player.gen = own.gen => player.occ = own.cur)

HeardInv == heard \in Histories /\ Honest(Now, heard, skipped) /\ CompletionTrue

\* More may be heard, and more be skipped.
LEMMA HonestGrows ==
  ASSUME NEW h \in Histories, NEW s, NEW w, Good(w), Honest(w, h, s),
         NEW g \in Histories, \A o \in Occurrences : h[o] <= g[o], NEW r, s \subseteq r
  PROVE  Honest(w, g, r)
<1>1. ASSUME NEW o \in Occurrences
      PROVE  /\ h[o] \in Nat /\ g[o] \in Nat /\ g[o] <= End /\ h[o] <= g[o]
             /\ h[o] = End => g[o] = End
             /\ Passed(o, h, s) => Passed(o, g, r)
  BY OwnerAssumption DEF Histories, Positions, Passed
<1>2. /\ w.own.cur \in Occurrences /\ w.own.pos \in Nat /\ w.disk.pos \in Nat
      /\ w.own.slot.occ \in Occurrences /\ w.own.slot.pos \in Nat
      /\ w.player.occ \in Occurrences /\ w.player.pos \in Nat /\ Last \in Occurrences
  BY OwnerAssumption DEF Good, Typed, Positions, Occurrences
<1>3. w.own.plan # NoPlan => Earns(w.own.plan, g, r)
  <2> SUFFICES ASSUME w.own.plan # NoPlan PROVE Earns(w.own.plan, g, r)
    OBVIOUS
  <2>1. /\ w.own.plan.to \in Occurrences /\ w.own.plan.occ \in Occurrences
        /\ w.own.plan.pos \in Nat
    BY <1>2 DEF Good, Consistent, IsPlan, Positions
  <2>2. QED  BY <1>1, <1>2, <2>1 DEF Honest, Earns
<1>4. w.own.pos <= g[w.own.cur] /\ w.disk.pos <= g[w.own.cur]
  BY <1>1, <1>2 DEF Honest
<1>5. /\ w.own.slot.gen = w.own.gen => w.own.slot.pos <= g[w.own.slot.occ]
      /\ w.player.gen = w.own.gen => w.player.pos <= g[w.player.occ]
  BY <1>1, <1>2 DEF Honest
<1>6. QED  BY <1>1, <1>2, <1>3, <1>4, <1>5 DEF Honest

\* No more events wait than did, and the rendering stays where it was or is another one.
LEMMA CompletionStays ==
  ASSUME OwnerInv, CompletionTrue,
         event' \in {event, drained, NoEvent}, drained' \in {event, drained, NoEvent},
         own'.gen \in Nat, own.gen <= own'.gen,
         own'.gen = own.gen =>
           /\ own'.cur = own.cur \/ Presented(Now)
           /\ heard[own.cur] = End => heard'[own.cur] = End
           /\ player'.gen = player.gen /\ player'.occ = player.occ
  PROVE  CompletionTrue'
<1>1. SUFFICES ASSUME NEW e \in {event, drained}, e.kind = "Completed", e.gen = own'.gen
               PROVE  heard'[own'.cur] = End /\ (player'.gen = own'.gen => player'.occ = own'.cur)
  <2>1. NoEvent.kind # "Completed"
    BY DEF NoEvent
  <2>2. QED  BY <2>1 DEF CompletionTrue, CompletionWaits
<1>2. e.gen \in 0..own.gen /\ own.gen \in Nat /\ own.cur \in Nat
  BY <1>1 DEF OwnerInv, Waiting, IsEvent, NoEvent, Generations, Good, Typed, Now, World, Occurrences
<1>3. own'.gen = own.gen
  BY <1>1, <1>2
<1>4. CompletionWaits
  BY <1>1, <1>3 DEF CompletionWaits
<1>5. heard[own.cur] = End /\ (player.gen = own.gen => player.occ = own.cur)
  BY <1>4 DEF CompletionTrue
<1>6. ~Presented(Now)
  BY <1>2, <1>5 DEF Presented, Now, World
<1>7. QED  BY <1>3, <1>5, <1>6

\* The owner takes an honest step.
LEMMA BecomesHonest ==
  ASSUME OwnerInv, HeardInv, NEW w, Leads(Now, w, heard, skipped'), Becomes(w), heard' = heard,
         event' \in {event, drained, NoEvent}, drained' \in {event, drained, NoEvent}
  PROVE  HeardInv'
<1>1. own' = w.own /\ disk' = w.disk /\ player' = w.player
  BY DEF Becomes
<1>2. Honest(Now, heard, skipped)'
  BY <1>1 DEF Leads, Honest, Now, World
<1>3. /\ own'.gen \in Nat /\ own.gen <= own'.gen
      /\ own'.gen = own.gen => own'.cur = own.cur \/ Presented(Now)
      /\ player'.gen = player.gen /\ player'.occ = player.occ
  BY <1>1 DEF Leads, Follows, Good, Typed, Now, World
<1>4. CompletionTrue'
  BY <1>3, CompletionStays DEF HeardInv
<1>5. QED  BY <1>2, <1>4 DEF HeardInv

\* The turns of the owner, but for its commands.
LEMMA OwnerHears ==
  ASSUME OwnerInv, HeardInv, NEW ok \in BOOLEAN,
         ServeSave(ok) \/ Turn(ok) \/ ApplyEvent(ok) \/ Periodic(ok)
  PROVE  HeardInv'
<1>1. Good(Now) /\ Honest(Now, heard, skipped) /\ heard \in Histories
  BY DEF OwnerInv, HeardInv
<1>2. Leads(Now, Sample(Now), heard, skipped) /\ Leads(Now, Checkpoint(Now, ok), heard, skipped)
  BY <1>1, SampleLeads, CheckpointLeads
<1>3. CASE ServeSave(ok)
  <2>1. Leads(Sample(Now), Checkpoint(Sample(Now), ok), heard, skipped)
    BY <1>1, <1>2, CheckpointLeads DEF Leads, Follows
  <2>2. Leads(Now, Checkpoint(Sample(Now), ok), heard, skipped)
    BY <1>1, <1>2, <2>1, LeadsLead
  <2>3. QED  BY <1>3, <2>2, BecomesHonest DEF ServeSave
<1>4. CASE Turn(ok)
  <2>1. Leads(Now, Adopt(Now, ok), heard, skipped)
    BY <1>1, AdoptLeads
  <2>2. QED  BY <1>4, <2>1, BecomesHonest DEF Turn
<1>5. CASE ApplyEvent(ok)
  <2>1. drained.kind \in {"Failed", "Lost", "Completed"}
    BY <1>5 DEF OwnerInv, Waiting, IsEvent, ApplyEvent
  <2>2. drained.kind = "Completed" /\ drained.gen = Now.own.gen => heard[Now.own.cur] = End
    BY DEF HeardInv, CompletionTrue, CompletionWaits, Now, World
  <2>3. Leads(Now, Applied(Now, drained, ok), heard, skipped)
    BY <1>1, <2>1, <2>2, AppliedLeads
  <2>4. QED  BY <1>5, <2>3, BecomesHonest DEF ApplyEvent, clientVars
<1>6. CASE Periodic(ok)
  <2>1. PICK w : Leads(Now, w, heard, skipped) /\ Becomes(w)
    BY <1>2, <1>6 DEF Periodic
  <2>2. QED  BY <1>6, <2>1, BecomesHonest DEF Periodic, clientVars
<1>7. QED  BY <1>3, <1>4, <1>5, <1>6

\* A command that is executed, from a world that is sampled or not.
LEMMA ExecutesHears ==
  ASSUME OwnerInv, HeardInv, OwnerInv', NEW adopted \in BOOLEAN, NEW ok \in BOOLEAN,
         NEW w, Leads(Now, w, heard, skipped), w.own.gen = own.gen,
         held # NoCommand, held.id \notin executed, Executes(w, adopted, ok),
         event' = event, drained' = drained
  PROVE  HeardInv'
<1>a. held \in [id : Ids, kind : Kinds, gen : Nat, occ : Occurrences, queue : Nat]
  BY DEF OwnerInv, Waiting, Messages, Repetition
<1>b. Good(Now) /\ Good(w) /\ Honest(w, heard, skipped) /\ heard \in Histories
  BY DEF OwnerInv, HeardInv, Leads, Follows
<1> DEFINE outcome == IF held.kind = "Play" THEN Replace(w, held, ok)
                      ELSE Control(w, held, adopted, ok)
           replaced == held.kind = "Play" /\ outcome.result = "ok"
           after   == IF outcome.result = "ok" THEN RefreshSlot(outcome.world) ELSE outcome.world
<1>1. /\ Becomes(after)
      /\ heard' = IF replaced THEN [o \in Occurrences |-> 0] ELSE heard
      /\ skipped' = IF replaced THEN {}
                    ELSE IF held.kind = "Next" /\ held.gen = own.gen
                    THEN skipped \cup {held.occ} ELSE skipped
  BY DEF Executes
<1>2. CASE replaced
  <2>1. /\ Honest(outcome.world, [o \in Occurrences |-> 0], {})
        /\ w.own.gen < outcome.world.own.gen /\ Good(outcome.world)
    BY <1>b, <1>2, ReplaceLeads, ReplaceFollows DEF Follows
  <2>2. heard' = [o \in Occurrences |-> 0] /\ skipped' = {} /\ heard' \in Histories
    BY <1>1, <1>2, OwnerAssumption DEF Histories, Positions
  <2>3. after = RefreshSlot(outcome.world)
    BY <1>2
  <2> HIDE DEF outcome, after, replaced
  <2>4. Leads(outcome.world, after, heard', skipped')
    BY <2>1, <2>2, <2>3, RefreshSlotLeads
  <2>5. /\ own' = after.own /\ disk' = after.disk /\ player' = after.player
    BY <1>1 DEF Becomes
  <2>6. Honest(Now, heard, skipped)'
    BY <2>4, <2>5 DEF Leads, Honest, Now, World
  <2>7. own.gen \in Nat /\ own'.gen \in Nat /\ own.gen < own'.gen
    BY <1>b, <2>1, <2>4, <2>5 DEF Leads, Follows, Good, Typed, Now, World
  <2>8. CompletionTrue'
    BY <2>7, CompletionStays DEF HeardInv
  <2>9. QED  BY <2>2, <2>6, <2>8 DEF HeardInv
<1>3. CASE ~replaced
  <2>1. heard' = heard /\ skipped \subseteq skipped'
    BY <1>1, <1>3
  <2>2. \A o \in Occurrences : heard[o] <= heard[o]
    BY <1>b DEF Histories, Positions
  <2>3. Honest(w, heard, skipped') /\ Leads(Now, w, heard, skipped')
    BY <1>b, <2>1, <2>2, HonestGrows DEF Leads
  <2>4. Leads(w, outcome.world, heard, skipped')
    <3>1. CASE held.kind = "Play"
      <4>1. outcome.world = w
        BY <1>b, <1>3, <3>1, ReplaceLeads
      <4>2. QED  BY <1>b, <2>3, <4>1, SameLeads
    <3>2. CASE held.kind # "Play"
      <4>1. held.kind = "Next" /\ held.gen = w.own.gen => held.occ \in skipped'
        BY <1>1, <1>3
      <4>2. Leads(w, Control(w, held, adopted, ok).world, heard, skipped')
        BY <1>a, <1>b, <2>3, <3>2, <4>1, ControlLeads
      <4>3. QED  BY <3>2, <4>2
    <3>3. QED  BY <3>1, <3>2
  <2> HIDE DEF outcome
  <2>5. Leads(outcome.world, RefreshSlot(outcome.world), heard, skipped')
    BY <1>b, <2>4, RefreshSlotLeads DEF Leads, Follows
  <2>6. Leads(w, after, heard, skipped')
    BY <1>b, <2>4, <2>5, LeadsLead
  <2> HIDE DEF after, replaced
  <2>7. Leads(Now, after, heard, skipped')
    BY <1>b, <2>3, <2>6, LeadsLead
  <2>8. QED  BY <1>1, <2>1, <2>7, BecomesHonest
<1>4. QED  BY <1>2, <1>3

\* A command, executed or answered from the dedup table.
LEMMA ExecuteHears ==
  ASSUME OwnerInv, HeardInv, OwnerInv', NEW adopted \in BOOLEAN, NEW ok \in BOOLEAN,
         Execute(adopted, ok)
  PROVE  HeardInv'
<1>1. CASE fenced \/ held.id \in executed
  <2>1. UNCHANGED <<own, disk, player, heard, skipped, event, drained>>
    BY <1>1 DEF Execute
  <2>2. QED
    BY <2>1 DEF HeardInv, Honest, CompletionTrue, CompletionWaits, Now, World
<1>2. CASE ~(fenced \/ held.id \in executed)
  <2>1. /\ held # NoCommand /\ held.id \notin executed
        /\ event' = event /\ drained' = drained
        /\ Executes(Sample(Now), adopted, ok) \/ Executes(Now, adopted, ok)
    BY <1>2 DEF Execute
  <2>2. Good(Now) /\ Honest(Now, heard, skipped) /\ heard \in Histories
    BY DEF OwnerInv, HeardInv
  <2>3. /\ Leads(Now, Sample(Now), heard, skipped) /\ Sample(Now).own.gen = own.gen
        /\ Leads(Now, Now, heard, skipped) /\ Now.own.gen = own.gen
    BY <2>2, SampleLeads, SampleFollows, SameLeads DEF Now, World
  <2>4. QED  BY <2>1, <2>3, ExecutesHears
<1>3. QED  BY <1>1, <1>2

\* A worker that moves, over an owner that does not.
LEMMA PlayerHears ==
  ASSUME OwnerInv, HeardInv, own' = own, disk' = disk, skipped' = skipped,
         heard' \in Histories, \A o \in Occurrences : heard[o] <= heard'[o],
         player'.gen = own.gen =>
           /\ player'.pos <= heard'[player'.occ]
           /\ \/ player'.occ = own.cur
              \/ player'.occ = own.cur + 1 /\ heard'[own.cur] = End,
         CompletionTrue'
  PROVE  HeardInv'
<1>1. Honest(Now, heard', skipped)
  BY HonestGrows DEF OwnerInv, HeardInv
<1>2. Honest(Now, heard, skipped)'
  BY <1>1 DEF Honest, Now, World
<1>3. QED  BY <1>2 DEF HeardInv

\* What the owner knows of the worker and its history.
LEMMA HeardOfPlayer ==
  ASSUME OwnerInv, HeardInv
  PROVE  /\ \A o \in Occurrences : heard[o] \in Nat /\ heard[o] <= End
         /\ own.cur \in Occurrences /\ own.cur \in Nat /\ player.occ \in Occurrences
         /\ own.pos \in Nat /\ player.pos \in Nat /\ player.pos <= End
         /\ own.pos <= heard[own.cur]
         /\ player.gen = own.gen =>
              /\ player.pos <= heard[player.occ]
              /\ player.occ = own.cur \/ (player.occ = own.cur + 1 /\ heard[own.cur] = End)
<1>1. /\ own.cur \in Occurrences /\ player.occ \in Occurrences
      /\ own.pos \in Positions /\ player.pos \in Positions
  BY DEF OwnerInv, Good, Typed, Now, World
<1>2. \A o \in Occurrences : heard[o] \in Positions
  BY DEF HeardInv, Histories
<1>3. own.cur \in Nat /\ \A x \in Positions : x \in Nat /\ x <= End
  BY <1>1, OwnerAssumption DEF Occurrences, Positions
<1>4. /\ own.pos <= heard[own.cur]
      /\ player.gen = own.gen =>
           /\ player.pos <= heard[player.occ]
           /\ player.occ = own.cur \/ (player.occ = own.cur + 1 /\ heard[own.cur] = End)
  BY DEF HeardInv, Honest, Now, World
<1>5. QED  BY <1>1, <1>2, <1>3, <1>4

\* How another rendering than the completed one ended is no completion.
LEMMA PublishedIsTrue ==
  ASSUME OwnerInv, HeardInv, own' = own, heard' = heard, drained' = drained,
         NEW gen, NEW kind \in {"Failed", "Lost", "Completed"}, event' = Published(gen, kind),
         player'.gen = player.gen, player'.occ = player.occ,
         kind = "Completed" =>
           heard[own.cur] = End /\ (player.gen = own.gen => player.occ = own.cur)
  PROVE  CompletionTrue'
<1>1. CASE kind = "Completed"
  BY <1>1 DEF CompletionTrue
<1>2. CASE kind # "Completed"
  <2>1. event' = event \/ event'.kind # "Completed"
    BY <1>2 DEF Published
  <2>2. CompletionWaits' => CompletionWaits
    BY <2>1 DEF CompletionWaits
  <2>3. QED  BY <2>2 DEF CompletionTrue, HeardInv
<1>3. QED  BY <1>1, <1>2

\* The steps of a preparation.
LEMMA PrepHears ==
  ASSUME OwnerInv, HeardInv, NEW p,
         PrepEnds(p) \/ PrepDispatches(p) \/ PrepInstalls(p) \/ PrepFails(p) \/ PublishFailure(p)
  PROVE  HeardInv'
<1>a. \A o \in Occurrences : heard[o] <= heard[o]
  BY HeardOfPlayer
<1>b. heard \in Histories /\ CompletionTrue
  BY DEF HeardInv
<1>1. CASE PrepEnds(p) \/ PrepFails(p) \/ PublishFailure(p)
  <2>1. UNCHANGED <<own, disk, player, heard, skipped, drained>>
    BY <1>1 DEF PrepEnds, PrepFails, PublishFailure, clientVars
  <2>2. CompletionTrue'
    <3>1. CASE event' = event
      BY <1>b, <2>1, <3>1 DEF CompletionTrue, CompletionWaits
    <3>2. CASE event' # event
      <4>1. event' = Published(p.gen, "Failed")
        BY <1>1, <3>2 DEF PrepEnds, PrepFails, PublishFailure
      <4>2. QED  BY <2>1, <4>1, PublishedIsTrue
    <3>3. QED  BY <3>1, <3>2
  <2>3. QED  BY <1>a, <1>b, <2>1, <2>2, HeardOfPlayer, PlayerHears
<1>2. CASE PrepDispatches(p)
  <2>1. /\ UNCHANGED <<own, disk, heard, skipped, event, drained>>
        /\ player'.gen = player.gen /\ player'.occ = player.occ /\ player'.pos = player.pos
    BY <1>2, PlayerTypes DEF PrepDispatches, clientVars
  <2>2. CompletionTrue'
    BY <1>b, <2>1 DEF CompletionTrue, CompletionWaits
  <2>3. QED  BY <1>a, <1>b, <2>1, <2>2, HeardOfPlayer, PlayerHears
<1>3. CASE PrepInstalls(p)
  <2>1. /\ UNCHANGED <<own, disk, heard, skipped, event, drained>>
        /\ player'.occ = own.cur /\ player'.pos = IF own.pos = End THEN 0 ELSE own.pos
    BY <1>3 DEF PrepInstalls, clientVars
  <2>2. CompletionTrue'
    BY <1>b, <2>1 DEF CompletionTrue, CompletionWaits
  <2>3. player'.pos <= heard[own.cur]
    BY <2>1, HeardOfPlayer
  <2>4. QED  BY <1>a, <1>b, <2>1, <2>2, <2>3, PlayerHears
<1>4. QED  BY <1>1, <1>2, <1>3

\* The steps of the worker. A pipeline that goes on to the next track has played this one to
\* its end, and no completion of it waits.
LEMMA WorkerHears ==
  ASSUME OwnerInv, HeardInv, ~LateTurns,
         Plays \/ Completes \/ Presents \/ \E kind \in {"Failed", "Lost"} : Fails(kind)
  PROVE  HeardInv'
<1>a. \A o \in Occurrences : heard[o] <= heard[o]
  BY HeardOfPlayer
<1>b. heard \in Histories /\ CompletionTrue
  BY DEF HeardInv
<1>1. CASE Plays
  <2>1. /\ UNCHANGED <<own, disk, skipped, event, drained>>
        /\ player'.gen = player.gen /\ player'.occ = player.occ /\ player'.pos = player.pos + 1
        /\ player.pos < End /\ player.gen = own.gen
        /\ heard' = [heard EXCEPT ![player.occ] =
                       IF @ > player.pos THEN @ ELSE player.pos + 1]
    BY <1>1, PlayerTypes DEF Plays, Sounds, clientVars
  <2>2. /\ heard' \in Histories /\ \A o \in Occurrences : heard[o] <= heard'[o]
        /\ player'.pos <= heard'[player.occ]
        /\ heard[own.cur] = End => heard'[own.cur] = End
    <3>1. heard' \in [Occurrences -> Nat] /\ DOMAIN heard = Occurrences
      BY <1>b, <2>1, HeardOfPlayer DEF Histories, Positions
    <3>2. heard'[player.occ] = IF heard[player.occ] > player.pos THEN heard[player.occ]
                               ELSE player.pos + 1
      BY <2>1, <3>1, HeardOfPlayer
    <3>3. \A o \in Occurrences : o # player.occ => heard'[o] = heard[o]
      BY <2>1, <3>1
    <3>4. \A o \in Occurrences : heard[o] <= heard'[o] /\ heard'[o] <= End
      BY <2>1, <3>2, <3>3, HeardOfPlayer, OwnerAssumption
    <3>5. \A o \in Occurrences : heard'[o] \in Nat
      BY <3>1
    <3>6. heard' \in Histories
      BY <3>1, <3>4, <3>5, OwnerAssumption DEF Histories, Positions
    <3>7. player'.pos <= heard'[player.occ]
      BY <2>1, <3>2, HeardOfPlayer, OwnerAssumption
    <3>8. heard[own.cur] = End => heard'[own.cur] = End
      BY <3>4, <3>5, HeardOfPlayer, OwnerAssumption
    <3>9. QED  BY <3>4, <3>6, <3>7, <3>8
  <2>3. CompletionTrue'
    BY <1>b, <2>1, <2>2 DEF CompletionTrue, CompletionWaits
  <2>4. QED  BY <2>1, <2>2, <2>3, HeardOfPlayer, PlayerHears
<1>2. CASE Presents
  <2>1. /\ UNCHANGED <<own, disk, heard, skipped, event, drained>>
        /\ player.pos = End /\ player.occ = own.cur /\ player.gen = own.gen
        /\ player'.occ = own.cur + 1 /\ player'.pos = 0 /\ own.cur < Last /\ ~CompletionWaits
    BY <1>2, PlayerTypes DEF Presents, Sounds, audioVars, clientVars
  <2>2. heard[own.cur] = End
    BY <2>1, HeardOfPlayer, OwnerAssumption
  <2>3. player'.pos <= heard[player'.occ]
    BY <2>1, HeardOfPlayer, OwnerAssumption DEF Occurrences
  <2>4. CompletionTrue'
    BY <2>1 DEF CompletionTrue, CompletionWaits
  <2>5. QED  BY <1>a, <1>b, <2>1, <2>2, <2>3, <2>4, PlayerHears
<1>3. CASE Completes
  <2>1. /\ UNCHANGED <<own, disk, heard, skipped, drained>>
        /\ player'.gen = player.gen /\ player'.occ = player.occ /\ player'.pos = player.pos
        /\ player.pos = End /\ player.occ = own.cur /\ player.gen = own.gen
        /\ event' = Published(player.gen, "Completed")
    BY <1>3, PlayerTypes DEF Completes, Sounds, audioVars, clientVars
  <2>2. heard[own.cur] = End
    BY <2>1, HeardOfPlayer, OwnerAssumption
  <2>3. CompletionTrue'
    BY <2>1, <2>2, PublishedIsTrue
  <2>4. QED  BY <1>a, <1>b, <2>1, <2>3, HeardOfPlayer, PlayerHears
<1>4. ASSUME NEW kind \in {"Failed", "Lost"}, Fails(kind) PROVE HeardInv'
  <2>1. /\ UNCHANGED <<own, disk, heard, skipped, drained>>
        /\ player'.gen = player.gen /\ player'.occ = player.occ /\ player'.pos = player.pos
        /\ event' = Published(player.gen, kind)
    BY <1>4, PlayerTypes DEF Fails, audioVars, clientVars
  <2>2. CompletionTrue'
    BY <2>1, PublishedIsTrue
  <2>3. QED  BY <1>a, <1>b, <2>1, <2>2, HeardOfPlayer, PlayerHears
<1>5. QED  BY <1>1, <1>2, <1>3, <1>4

\* A sample that is reported is of the rendering and the track of the slot.
LEMMA ReportHears ==
  ASSUME OwnerInv, HeardInv, ReportProgress
  PROVE  HeardInv'
<1>1. /\ own'.cur = own.cur /\ own'.pos = own.pos
      /\ own'.status = own.status /\ own'.gen = own.gen /\ own'.plan = own.plan
      /\ own'.slot.gen = player.gen /\ own'.slot.occ = player.occ /\ own'.slot.pos = player.pos
      /\ UNCHANGED <<disk, player, heard, skipped, event, drained>>
  BY DEF ReportProgress, OwnerInv, Good, Shape, Now, World, audioVars, clientVars
<1>2. Honest(Now, heard, skipped)'
  BY <1>1 DEF HeardInv, Honest, Now, World
<1>3. CompletionTrue'
  BY <1>1 DEF HeardInv, CompletionTrue, CompletionWaits
<1>4. QED  BY <1>1, <1>2, <1>3 DEF HeardInv

\* A restart finds on disk the track that was current, at a position that was heard.
LEMMA RestartHears ==
  ASSUME OwnerInv, HeardInv, Restart
  PROVE  HeardInv'
<1>1. /\ own' = Restored(disk, 1) /\ player' = NoPlayer /\ event' = NoEvent /\ drained' = NoEvent
      /\ UNCHANGED <<disk, heard, skipped>>
  BY DEF Restart
<1>2. /\ own'.cur = disk.cur /\ own'.pos = disk.pos /\ own'.status = "Paused" /\ own'.gen = 1
      /\ own'.plan = NoPlan /\ own'.slot.occ = disk.cur /\ own'.slot.pos = disk.pos
      /\ player'.gen = 0
  BY <1>1 DEF Restored, NoPlayer
<1>3. disk.cur = own.cur /\ disk.pos <= heard[own.cur]
  BY DEF OwnerInv, HeardInv, Good, Consistent, Honest, Now, World
<1>4. Honest(Now, heard, skipped)'
  BY <1>1, <1>2, <1>3 DEF HeardInv, Honest, Now, World
<1>5. CompletionTrue'
  BY <1>1 DEF CompletionTrue, CompletionWaits, NoEvent
<1>6. QED  BY <1>1, <1>4, <1>5 DEF HeardInv

\* At first nothing was heard.
LEMMA InitHears ==
  ASSUME Init
  PROVE  HeardInv
<1>1. /\ own.cur = 1 /\ own.pos = 0 /\ own.status = "Paused" /\ own.gen = 1
      /\ own.plan = NoPlan /\ own.slot.occ = 1 /\ own.slot.pos = 0
      /\ player.gen = 0 /\ disk.pos = 0
      /\ heard = [o \in Occurrences |-> 0] /\ event = NoEvent /\ drained = NoEvent
  BY DEF Init, Restored, NoPlayer
<1>2. 1 \in Occurrences /\ 0 \in Positions /\ \A o \in Occurrences : ~(o < 1)
  BY OwnerAssumption DEF Occurrences, Positions
<1>3. heard[1] = 0 /\ heard \in Histories
  BY <1>1, <1>2 DEF Histories
<1>4. Honest(Now, heard, skipped)
  BY <1>1, <1>2, <1>3 DEF Honest, Now, World
<1>5. CompletionTrue
  BY <1>1 DEF CompletionTrue, CompletionWaits, NoEvent
<1>6. QED  BY <1>3, <1>4, <1>5 DEF HeardInv

-----------------------------------------------------------------------------
(* The theorems.                                                           *)

\* The strengthened invariant: a good world, in which what waits is what was sent.
THEOREM OwnerInvariant == OwnerSpec => []OwnerInv
<1>1. Init => OwnerInv
  BY InitGood
<1>2. OwnerInv /\ [Next]_vars => OwnerInv'
  <2> SUFFICES ASSUME OwnerInv, [Next]_vars PROVE OwnerInv'
    OBVIOUS
  <2>1. ASSUME NEW ok \in BOOLEAN,
               ServeSave(ok) \/ Turn(ok) \/ ApplyEvent(ok) \/ Periodic(ok)
        PROVE  OwnerInv'
    BY <2>1, ServeSaveKeeps, TurnKeeps, ApplyEventKeeps, PeriodicKeeps
  <2>2. ASSUME NEW adopted \in BOOLEAN, NEW ok \in BOOLEAN, Execute(adopted, ok) PROVE OwnerInv'
    BY <2>2, ExecuteKeeps
  <2>3. CASE Audio
    BY <2>3, PrepKeeps, WorkerKeeps, ReportKeeps DEF Audio
  <2>4. CASE (\E kind \in Kinds : Admit(kind)) \/ \E id \in executed : Repeat(id)
    BY <2>4, ClientsKeep
  <2>5. CASE BeginShutdown
    BY <2>5, ShutdownKeeps
  <2>6. CASE Restart
    BY <2>6, RestartKeeps
  <2>7. CASE UNCHANGED vars
    <3>1. inbox' \in Seq(Messages) /\ Good(Now)' /\ Fence'
      BY <2>7 DEF vars, clientVars, OwnerInv, Waiting, Good, Shape, Typed, Consistent, Now, World,
                  Fence
    <3>2. QED
      BY <2>7, <3>1, RestKeeps DEF vars, clientVars, OwnerInv, Counted
  <2>8. QED
    BY <2>1, <2>2, <2>3, <2>4, <2>5, <2>6, <2>7 DEF Next
<1>3. QED  BY <1>1, <1>2, PTL DEF OwnerSpec

\* The types of the owner, the row and the worker.
THEOREM OwnerTypes == OwnerSpec => []OwnerTypeOK
<1>1. OwnerInv => OwnerTypeOK
  <2> SUFFICES ASSUME OwnerInv PROVE OwnerTypeOK
    OBVIOUS
  <2>1. own.plan = NoPlan \/ (own.plan.gen \in Generations /\ own.plan.to \in Occurrences)
    BY DEF OwnerInv, Good, Typed, Consistent, IsPlan, Now, World, Generations
  <2>2. held.id \in Ids \cup {0}
    BY DEF OwnerInv, Waiting, Counted, Messages, NoCommand, Repetition
  <2>3. /\ event = NoEvent \/ event.gen \in Generations
        /\ executed \subseteq Ids /\ skipped \subseteq Occurrences
        /\ save \in {"none", "asked", "saved", "failed"} /\ faults \in 0..MaxFaults
    BY DEF OwnerInv, Waiting, IsEvent, Counted, Fence
  <2>4. /\ own.queue \in Nat /\ own.cur \in Occurrences /\ own.pos \in Positions
        /\ own.status \in {"Paused", "Playing", "Stopped", "Completed", "Error"}
        /\ own.failed \in BOOLEAN /\ own.gate \in BOOLEAN /\ own.dirty \in BOOLEAN
        /\ own.slot.gen \in Generations /\ own.slot.occ \in Occurrences
        /\ own.slot.pos \in Positions /\ own.slot.fresh \in BOOLEAN
    BY DEF OwnerInv, Good, Typed, Statuses, Now, World, Generations
  <2>5. /\ disk.cur \in Occurrences /\ disk.pos \in Positions /\ disk.open \in BOOLEAN
        /\ player.gen \in Generations /\ player.occ \in Occurrences /\ player.pos \in Positions
    BY DEF OwnerInv, Good, Typed, Consistent, Now, World, Generations
  <2>6. QED
    BY <2>1, <2>2, <2>3, <2>4, <2>5 DEF OwnerTypeOK
<1>2. QED  BY <1>1, OwnerInvariant, PTL

\* What is shown as current is on disk, and a kept plan is of this rendering and silent.
THEOREM WhatIsShownIsOnDisk == OwnerSpec => []CursorIsCommitted
<1>1. OwnerInv => CursorIsCommitted
  BY DEF OwnerInv, Good, Consistent, Now, World, CursorIsCommitted
<1>2. QED  BY <1>1, OwnerInvariant, PTL

\* Nothing is audible without an attempt that is recorded as open.
THEOREM WhatIsHeardIsRecorded == OwnerSpec => []AudibleHasAttempt
<1>1. OwnerInv => AudibleHasAttempt
  BY DEF OwnerInv, Good, Consistent, Now, World, AudibleHasAttempt, Sounds
<1>2. QED  BY <1>1, OwnerInvariant, PTL

\* Behind an answered shutdown the disk does not change: the owner's own steps are all
\* behind the fence by then, and no other writes.
THEOREM FinalSaveIsFinal == OwnerSpec => NothingAfterSave
<1>1. OwnerInv /\ [Next]_vars => (save = "saved" => disk' = disk)
  <2> SUFFICES ASSUME OwnerInv, [Next]_vars, save = "saved" PROVE disk' = disk
    OBVIOUS
  <2>1. fenced
    BY DEF OwnerInv, Fence
  <2>2. ASSUME NEW ok \in BOOLEAN,
               ServeSave(ok) \/ Turn(ok) \/ ApplyEvent(ok) \/ Periodic(ok)
        PROVE  disk' = disk
    <3>1. CASE Turn(ok)
      <4>1. Adopt(Now, ok) = Now
        BY <2>1 DEF Adopt, Adopts
      <4>2. QED
        BY <3>1, <4>1 DEF Turn, Becomes, Now, World
    <3>2. CASE ApplyEvent(ok)
      <4>1. Applied(Now, drained, ok) = Now
        BY <2>1 DEF Applied
      <4>2. QED
        BY <3>2, <4>1 DEF ApplyEvent, Becomes, Now, World
    <3>3. QED
      BY <2>1, <2>2, <3>1, <3>2 DEF ServeSave, Periodic
  <2>3. ASSUME NEW adopted \in BOOLEAN, NEW ok \in BOOLEAN, Execute(adopted, ok)
        PROVE  disk' = disk
    BY <2>1, <2>3 DEF Execute
  <2>4. CASE Audio
    BY <2>4 DEF Audio, PrepEnds, PrepDispatches, PrepInstalls, PrepFails, PublishFailure, Plays,
                ReportProgress, Completes, Presents, Fails
  <2>5. CASE \/ \E kind \in Kinds : Admit(kind)
             \/ \E id \in executed : Repeat(id)
             \/ BeginShutdown \/ Restart
    BY <2>5 DEF Admit, Repeat, BeginShutdown, Restart
  <2>6. QED
    BY <2>2, <2>3, <2>4, <2>5 DEF Next, vars
<1>2. OwnerInv /\ [Next]_vars => [save = "saved" => disk' = disk]_vars
  BY <1>1
<1>3. QED  BY <1>2, OwnerInvariant, PTL DEF OwnerSpec, NothingAfterSave

\* What is shown and written was heard.
THEOREM HeardInvariant == ~LateTurns => (OwnerSpec => []HeardInv)
<1> SUFFICES ASSUME ~LateTurns PROVE OwnerSpec => []HeardInv
  OBVIOUS
<1>1. Init => HeardInv
  BY InitHears
<1>2. OwnerInv /\ OwnerInv' /\ HeardInv /\ [Next]_vars => HeardInv'
  <2> SUFFICES ASSUME OwnerInv, OwnerInv', HeardInv, [Next]_vars PROVE HeardInv'
    OBVIOUS
  <2>1. ASSUME NEW ok \in BOOLEAN,
               ServeSave(ok) \/ Turn(ok) \/ ApplyEvent(ok) \/ Periodic(ok)
        PROVE  HeardInv'
    BY <2>1, OwnerHears
  <2>2. ASSUME NEW adopted \in BOOLEAN, NEW ok \in BOOLEAN, Execute(adopted, ok) PROVE HeardInv'
    BY <2>2, ExecuteHears
  <2>3. CASE Audio
    BY <2>3, PrepHears, WorkerHears, ReportHears DEF Audio
  <2>4. CASE Restart
    BY <2>4, RestartHears
  <2>5. ASSUME \/ \E kind \in Kinds : Admit(kind)
               \/ \E id \in executed : Repeat(id)
               \/ BeginShutdown \/ UNCHANGED vars
        PROVE  HeardInv'
    <3>1. /\ own'.cur = own.cur /\ own'.pos = own.pos
          /\ own'.status = own.status /\ own'.gen = own.gen /\ own'.plan = own.plan
          /\ own'.slot = own.slot
          /\ UNCHANGED <<disk, player, heard, skipped, event, drained>>
      <4>1. CASE BeginShutdown
        BY <4>1 DEF BeginShutdown, OwnerInv, Good, Shape, Now, World, audioVars, clientVars
      <4>2. CASE ~BeginShutdown
        BY <2>5, <4>2 DEF Admit, Repeat, vars, audioVars, clientVars
      <4>3. QED  BY <4>1, <4>2
    <3>2. QED
      BY <3>1 DEF HeardInv, Honest, CompletionTrue, CompletionWaits, Now, World
  <2>6. QED
    BY <2>1, <2>2, <2>3, <2>4, <2>5 DEF Next
<1>3. QED  BY <1>1, <1>2, OwnerInvariant, PTL DEF OwnerSpec

\* The positions in memory and on disk were heard.
THEOREM PositionsWereHeard == ~LateTurns => (OwnerSpec => []PositionIsHeard)
<1>1. OwnerInv /\ HeardInv => PositionIsHeard
  BY DEF OwnerInv, HeardInv, Good, Consistent, Honest, Now, World, PositionIsHeard
<1>2. QED  BY <1>1, OwnerInvariant, HeardInvariant, PTL

\* The cursor is earned.
THEOREM CursorsAreEarned == ~LateTurns => (OwnerSpec => []CursorIsEarned)
<1>1. HeardInv => CursorIsEarned
  BY DEF HeardInv, Honest, Passed, Now, World, CursorIsEarned
<1>2. QED  BY <1>1, HeardInvariant, PTL
=============================================================================
