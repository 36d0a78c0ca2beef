---------------------------- MODULE PlaybackOwner ----------------------------
(***************************************************************************)
(* The thread that owns the playback session (playback/session.rs), with   *)
(* the rows it commits (playback/persistence.rs).                          *)
(* It takes commands of clients and events of the audio worker, samples    *)
(* the position and commits every end of a track before it shows it. A     *)
(* commit that fails is kept as one plan, to be retried or dropped. A      *)
(* generation names one rendering, an epoch the last accepted control:     *)
(* what carries an old one is stale. A shutdown fences the owner from      *)
(* another thread and asks for one last checkpoint.                        *)
(* Modelled is the main session over a queue that is only replaced as a    *)
(* whole; previews, radio, seeking, Back, the choice of outputs and what a *)
(* client is shown are left out. The position in a track is 0 .. End.      *)
(***************************************************************************)
EXTENDS Naturals, Sequences, FiniteSets

CONSTANTS
  Last,         \* the occurrences of the queue are 1 .. Last
  End,          \* the position at the end of each
  MaxCommands,  \* bound on the commands
  MaxRenderings, \* bound on the workers that are started
  MaxFaults,    \* bound on failed writes, failures of the audio, and crashes
  LateTurns     \* a rendering may be started, and heard to its end, before the owner
                \* drains the completion of the one before it

ASSUME OwnerAssumption ==
  /\ Last \in Nat \ {0} /\ End \in Nat \ {0}
  /\ MaxCommands \in Nat /\ MaxRenderings \in Nat /\ MaxFaults \in Nat
  /\ LateTurns \in BOOLEAN

VARIABLES
  own,      \* Inner, the output gate and the ingress
  disk,     \* the row of the session, and whether an attempt is active
  player,   \* the installed audio pipeline
  preps,    \* preparations of a pipeline
  event,    \* published, not drained
  drained,  \* drained, not applied
  fenced,   \* the shutdown fence
  save,     \* the final checkpoint, as its caller sees it
  held,     \* the command the owner received and has not executed
  admitted, \* how many commands have been given an id
  inbox,    \* the mailbox
  executed, \* the ids in the dedup tables
  skipped,  \* history: the occurrences of the queue a Next was executed for
  heard,    \* history: how far each occurrence of the queue has been audible
  renderings,
  faults

audioVars  == <<preps, heard, renderings>>
clientVars == <<admitted, inbox, executed, skipped>>
vars == <<own, disk, player, audioVars, event, drained, fenced, save, held, clientVars, faults>>

Ids == 1..MaxCommands
Occurrences == 1..Last
Kinds == {"Pause", "Resume", "Retry", "Next", "Stop", "Play"}
\* A control names the generation and the occurrence its client saw, Play the queue. A
\* repetition of what was executed has its id.
Command(id, kind) == [id |-> id, kind |-> kind, gen |-> own.gen, occ |-> own.cur,
                      queue |-> own.queue]
Repetition(id) == [id |-> id, kind |-> "any", gen |-> 0, occ |-> 0, queue |-> 0]
NoCommand == Repetition(0)
NoEvent == [gen |-> 0, kind |-> "none"]
NoPlan == [gen |-> 0, occ |-> 0, to |-> 0, pos |-> 0, status |-> "none", failed |-> FALSE,
           keeps |-> FALSE]

\* What one step of the owner computes from: its state, the disk and the worker.
World(o, d, p, started) == [own |-> o, disk |-> d, player |-> p, started |-> started]
Now == World(own, disk, player, FALSE)

\* restore: what the disk says, paused.
Restored(d, gen) ==
  [queue |-> d.queue, cur |-> d.cur, pos |-> d.pos, status |-> "Paused", failed |-> FALSE,
   gen |-> gen, epoch |-> 0, gate |-> FALSE, dirty |-> FALSE, plan |-> NoPlan,
   slot |-> [gen |-> gen, occ |-> d.cur, pos |-> d.pos, fresh |-> FALSE]]
NoPlayer == [gen |-> 0, epoch |-> 0, occ |-> 1, pos |-> 0, runs |-> FALSE]

Init ==
  /\ disk = [queue |-> 0, cur |-> 1, pos |-> 0, open |-> TRUE]
  /\ own = Restored(disk, 1)
  /\ player = NoPlayer /\ preps = {} /\ heard = [o \in Occurrences |-> 0] /\ renderings = 0
  /\ event = NoEvent /\ drained = NoEvent /\ fenced = FALSE /\ save = "none" /\ held = NoCommand
  /\ admitted = 0 /\ inbox = <<>> /\ executed = {} /\ skipped = {}
  /\ faults = 0

-----------------------------------------------------------------------------
(* What the handlers share.                                                *)

\* A write to the database, or a failure of it.
Write(ok) == ok \/ faults < MaxFaults
Spend(ok) == faults' = IF ok THEN faults ELSE faults + 1

\* control(Stop), a new serial and a new generation id.
NewGeneration(w) == [w EXCEPT !.player.runs = FALSE, !.own.gen = @ + 1]

\* reset_progress, refresh_ingress.
ResetSlot(w) ==
  [w EXCEPT !.own.slot = [gen |-> w.own.gen, occ |-> w.own.cur, pos |-> w.own.pos, fresh |-> FALSE]]
RefreshSlot(w) ==
  IF \/ w.own.slot.gen # w.own.gen \/ w.own.slot.occ # w.own.cur
     \/ w.own.status # "Playing" /\ w.own.slot.pos > w.own.pos
  THEN ResetSlot(w) ELSE w

\* sample_progress.
Sample(w) ==
  LET taken == /\ w.own.slot.fresh
               /\ w.own.plan = NoPlan /\ w.own.status \notin {"Completed", "Error"}
               /\ w.own.slot.gen = w.own.gen /\ w.own.slot.occ = w.own.cur
  IN [w EXCEPT !.own.slot.fresh = FALSE,
               !.own.pos = IF taken THEN w.own.slot.pos ELSE @,
               !.own.dirty = @ \/ taken]

\* checkpoint_inner: nothing to do while a plan is kept.
Checkpoints(w) == w.own.dirty /\ w.own.plan = NoPlan
Checkpoint(w, ok) ==
  IF Checkpoints(w) /\ ok
  THEN [w EXCEPT !.disk.pos = w.own.pos, !.own.dirty = FALSE]
  ELSE w

\* captured_position, of the pipeline that is installed.
Captured(w) == IF w.player.gen = w.own.gen THEN w.player.pos ELSE w.own.pos

\* freeze_terminal.
Freeze(w, plan) ==
  [w EXCEPT !.own.plan = plan, !.own.epoch = @ + 1, !.own.gate = FALSE, !.player.runs = FALSE,
            !.own.status = "Error", !.own.failed = TRUE]

\* terminal_plan, with the destination its callers fill in. A plan whose successor has
\* still to be resolved ends as this one does: the queue cannot change meanwhile.
Plan(w, to, pos, status, failed, keeps) ==
  [gen |-> w.own.gen, occ |-> w.own.cur, to |-> to, pos |-> pos, status |-> status,
   failed |-> failed, keeps |-> keeps]

\* commit_terminal, with persist_playback_terminal or, when the outcome is already on
\* disk, persist_playback_departure. The former finds no attempt to close unless one is
\* active. The successor becomes the current occurrence with an attempt of its own.
Commit(w, plan, recovery, ok) ==
  LET leaves == plan.to # plan.occ
      moved  == IF leaves \/ recovery THEN NewGeneration([w EXCEPT !.own.epoch = @ + 1]) ELSE w
      status == IF recovery /\ plan.status = "Playing" THEN "Paused" ELSE plan.status
  IN IF plan.gen # w.own.gen \/ plan.occ # w.own.cur THEN [w EXCEPT !.own.plan = NoPlan]
     ELSE IF ~ok \/ ~(plan.keeps \/ w.disk.open) THEN Freeze(w, plan)
     ELSE [moved EXCEPT !.own.cur = plan.to, !.own.pos = plan.pos, !.own.status = status,
                        !.own.failed = plan.failed, !.own.gate = (status = "Playing"),
                        !.own.dirty = FALSE, !.own.plan = NoPlan,
                        !.disk = [@ EXCEPT !.cur = plan.to, !.pos = plan.pos, !.open = leaves]]

\* The pipeline plays the successor already: a presented handoff.
Presented(w) == w.player.gen = w.own.gen /\ w.player.occ = w.own.cur + 1

\* reconcile_presented_handoff, adopt_presented_handoff. The fence has moved the serial.
Adopts(w) == Presented(w) /\ w.own.plan = NoPlan /\ w.player.epoch = w.own.epoch /\ ~fenced
Adopt(w, ok) ==
  IF ~Adopts(w) THEN w
  ELSE IF ~(ok /\ w.disk.open)
  THEN Freeze(w, Plan(w, w.player.occ, w.player.pos, "Paused", FALSE, FALSE))
  ELSE ResetSlot(
         [w EXCEPT !.own.cur = w.player.occ, !.own.pos = w.player.pos,
                   !.own.status = IF w.own.gate THEN "Playing" ELSE "Paused",
                   !.own.failed = FALSE, !.own.dirty = FALSE,
                   !.disk = [@ EXCEPT !.cur = w.player.occ, !.pos = w.player.pos]])

\* What a step of the owner leaves behind; an effect starts a preparation.
Becomes(w) ==
  /\ own' = w.own /\ disk' = w.disk /\ player' = w.player
  /\ preps' = IF w.started
              THEN preps \cup {[gen |-> w.own.gen, epoch |-> w.own.epoch, stage |-> "asked"]}
              ELSE preps
Start(w) == [w EXCEPT !.started = TRUE]

-----------------------------------------------------------------------------
(* The commands: each yields the world and whether it succeeded.           *)

Done(w) == [world |-> w, result |-> "ok"]
Refused(w) == [world |-> w, result |-> "error"]
NextEpoch(w) == [w EXCEPT !.own.epoch = @ + 1]
\* retain_control_epoch.
Retain(w) ==
  IF w.player.gen = w.own.gen THEN [w EXCEPT !.player.epoch = w.own.epoch] ELSE w

\* Slip: the commands that start playback again leave the ended attempt as it is.
ReopenedNever(w) == w

\* reset_playback_attempt: another attempt at an occurrence whose last one has ended.
Reopened(w) ==
  IF w.disk.open THEN w
  ELSE LET pos == IF w.own.status = "Completed" THEN 0 ELSE w.own.pos
       IN [w EXCEPT !.own.pos = pos, !.own.dirty = FALSE,
                    !.disk = [@ EXCEPT !.pos = pos, !.open = TRUE]]

Playing(w) == Start([w EXCEPT !.own.gate = TRUE, !.own.status = "Playing", !.own.failed = FALSE])

Pause(w) ==
  Done(Retain(NextEpoch([w EXCEPT !.own.pos = Captured(w), !.own.gate = FALSE,
                                  !.own.status = "Paused"])))

Resume(w, ok) ==
  IF w.own.gate THEN Done(w)
  ELSE IF ~w.disk.open /\ ~ok THEN Refused(w)
  ELSE LET again == Retain(NextEpoch(Reopened(w)))
       IN Done(Playing(IF w.own.status \in {"Completed", "Error"} \/ w.own.failed
                       THEN NewGeneration(again) ELSE again))

Retry(w, ok) ==
  IF w.own.status # "Error" \/ (~w.disk.open /\ ~ok) THEN Refused(w)
  ELSE Done(Playing(NewGeneration(NextEpoch(Reopened(w)))))

SkipTo(w, ok) ==
  IF w.own.cur = Last THEN Refused(w)
  ELSE LET status == IF w.own.status = "Playing" THEN "Playing"
                     ELSE IF w.own.status \in {"Stopped", "Completed"} THEN "Stopped"
                     ELSE "Paused"
           left == Commit(NextEpoch(w),
                          Plan(w, w.own.cur + 1, 0, status, FALSE, ~w.disk.open), FALSE, ok)
       IN IF left.own.plan # NoPlan THEN Refused(left)
          ELSE Done(IF status = "Playing" THEN Start(left) ELSE left)

Stop(w, ok) ==
  LET stopped == Checkpoint(NewGeneration(NextEpoch(
                   [w EXCEPT !.own.plan = NoPlan, !.own.gate = FALSE, !.own.pos = 0,
                             !.own.status = "Stopped", !.own.dirty = TRUE])), ok)
  IN IF stopped.own.dirty THEN Refused(stopped) ELSE Done(stopped)

\* control_inner: a handoff is adopted first; a kept plan admits Retry and Stop alone.
Control(w, command, adopted, ok) ==
  LET v == Adopt(w, adopted)
      occ == IF command.kind \in {"Pause", "Stop"} /\ command.occ = w.own.cur
             THEN v.own.cur ELSE command.occ
      recovered == Commit(v, v.own.plan, TRUE, ok)
  IN IF Presented(w) /\ w.own.plan = NoPlan /\ v.own.cur = w.own.cur THEN Refused(v)
     ELSE IF command.gen # v.own.gen \/ occ # v.own.cur THEN Refused(v)
     ELSE IF v.own.plan # NoPlan /\ command.kind = "Retry"
     THEN IF recovered.own.plan = NoPlan THEN Done(recovered) ELSE Refused(recovered)
     ELSE IF v.own.plan # NoPlan /\ command.kind # "Stop" THEN Refused(v)
     ELSE CASE command.kind = "Pause"  -> Pause(v)
            [] command.kind = "Resume" -> Resume(v, ok)
            [] command.kind = "Retry"  -> Retry(v, ok)
            [] command.kind = "Next"   -> SkipTo(v, ok)
            [] command.kind = "Stop"   -> Stop(v, ok)

\* apply_inner, a new queue that is to be played. It is on disk before anything changes.
Replace(w, command, ok) ==
  LET queue == w.own.queue + 1
  IN IF command.queue # w.own.queue \/ ~ok THEN Refused(w)
     ELSE Done(Playing(NewGeneration(NextEpoch(
            [w EXCEPT !.own.queue = queue, !.own.cur = 1, !.own.pos = 0, !.own.dirty = FALSE,
                      !.own.plan = NoPlan,
                      !.disk = [queue |-> queue, cur |-> 1, pos |-> 0, open |-> TRUE]]))))

-----------------------------------------------------------------------------
(* The events of the audio worker.                                         *)

\* publish_event, enqueue_event: how a rendering ended has one slot, and a failure in it
\* is not replaced by a completion.
Published(gen, kind) ==
  IF \/ gen # own.gen \/ fenced
     \/ kind = "Completed" /\ event.gen = gen /\ event.kind \in {"Failed", "Lost"}
  THEN event ELSE [gen |-> gen, kind |-> kind]

Failed(w, ok) ==
  LET v == Sample(w)
      left == Commit(v, Plan(v, v.own.cur, v.own.pos, "Error", TRUE, FALSE), FALSE, ok)
  IN IF w.own.status = "Error" THEN w
     ELSE IF left.own.plan # NoPlan THEN ResetSlot(left) ELSE RefreshSlot(left)

\* complete_occurrence: the successor plays on if this one was audible.
Completed(w, ok) ==
  LET next == IF w.own.cur = Last THEN w.own.cur ELSE w.own.cur + 1
      plan == IF next = w.own.cur THEN Plan(w, next, End, "Completed", FALSE, FALSE)
              ELSE Plan(w, next, 0, IF w.own.status = "Playing" THEN "Playing" ELSE "Paused",
                        FALSE, FALSE)
      left == Commit(w, plan, FALSE, ok)
  IN IF w.own.status \in {"Completed", "Error"} THEN w
     ELSE ResetSlot(IF left.own.gate THEN Start(left) ELSE left)

\* OUTPUT_LOST: the attempt stays open, the rendering is over.
Lost(w, ok) ==
  LET v == Sample([w EXCEPT !.own.gate = FALSE])
      pos == IF Captured(v) > v.own.pos THEN Captured(v) ELSE v.own.pos
  IN Checkpoint(RefreshSlot(NewGeneration(
       [v EXCEPT !.own.pos = pos, !.own.dirty = TRUE, !.own.status = "Error",
                 !.own.failed = TRUE])), ok)

\* Slip: the rendering of an event is not compared.
AppliedAny(w, e, ok) ==
  IF fenced \/ w.own.plan # NoPlan THEN w
  ELSE CASE e.kind = "Failed"    -> Failed(w, ok)
         [] e.kind = "Completed" -> Completed(w, ok)
         [] e.kind = "Lost"      -> Lost(w, ok)

\* Slip: the fence is not looked at.
AppliedFenced(w, e, ok) ==
  IF e.gen # w.own.gen \/ w.own.plan # NoPlan THEN w
  ELSE CASE e.kind = "Failed"    -> Failed(w, ok)
         [] e.kind = "Completed" -> Completed(w, ok)
         [] e.kind = "Lost"      -> Lost(w, ok)

\* What the owner does with an event: a stale one, and any while a plan is kept, is dropped.
Applied(w, e, ok) ==
  IF fenced \/ e.gen # w.own.gen \/ w.own.plan # NoPlan THEN w
  ELSE CASE e.kind = "Failed"    -> Failed(w, ok)
         [] e.kind = "Completed" -> Completed(w, ok)
         [] e.kind = "Lost"      -> Lost(w, ok)

-----------------------------------------------------------------------------
(* The loop of the owner.                                                  *)

\* Between two turns of the loop nothing is in hand.
AtTop == held = NoCommand /\ drained = NoEvent

\* A fenced checkpoint turns away what waits in the mailbox.
ServeSave(ok) ==
  /\ AtTop /\ save = "asked"
  /\ Write(ok) /\ Spend(ok)
  /\ LET w == Sample(Now) IN
       /\ ok \/ Checkpoints(w)
       /\ Becomes(Checkpoint(w, ok))
  /\ save' = IF ok THEN "saved" ELSE "failed"
  /\ inbox' = <<>>
  /\ UNCHANGED <<heard, renderings, event, drained, fenced, held, admitted, executed, skipped>>

\* A turn: a presented handoff is adopted, the next command received, the events drained.
Turn(ok) ==
  /\ AtTop /\ save # "asked"
  /\ inbox # <<>> \/ event # NoEvent \/ Adopts(Now)
  /\ Write(ok) /\ Spend(ok) /\ (ok \/ Adopts(Now))
  /\ Becomes(Adopt(Now, ok))
  /\ held' = IF inbox = <<>> THEN NoCommand ELSE Head(inbox)
  /\ inbox' = IF inbox = <<>> THEN inbox ELSE Tail(inbox)
  /\ drained' = event /\ event' = NoEvent
  /\ UNCHANGED <<heard, renderings, fenced, save, admitted, executed, skipped>>

ApplyEvent(ok) ==
  /\ drained # NoEvent
  /\ Write(ok) /\ Spend(ok)
  /\ ok \/ Applied(Now, drained, FALSE) # Applied(Now, drained, TRUE)
  /\ Becomes(Applied(Now, drained, ok))
  /\ drained' = NoEvent
  /\ UNCHANGED <<heard, renderings, event, fenced, save, held, clientVars>>

\* A command whose id was executed is answered with the stored result; a fenced owner
\* executes none. The position is sampled before a control, and before a Play if the last
\* sample is old.
Executes(w, adopted, ok) ==
  LET outcome == IF held.kind = "Play" THEN Replace(w, held, ok) ELSE Control(w, held, adopted, ok)
      replaced == held.kind = "Play" /\ outcome.result = "ok"
  IN /\ Write(adopted /\ ok) /\ Spend(adopted /\ ok) /\ (adopted \/ ok)
     /\ Becomes(IF outcome.result = "ok" THEN RefreshSlot(outcome.world) ELSE outcome.world)
     /\ executed' = executed \cup {held.id}
     /\ heard' = IF replaced THEN [o \in Occurrences |-> 0] ELSE heard
     /\ skipped' = IF replaced THEN {}
                   ELSE IF held.kind = "Next" /\ held.gen = own.gen
                   THEN skipped \cup {held.occ} ELSE skipped

Execute(adopted, ok) ==
  /\ held # NoCommand /\ drained = NoEvent
  /\ held' = NoCommand
  /\ IF fenced \/ held.id \in executed
     THEN /\ adopted /\ ok
          /\ UNCHANGED <<own, disk, player, preps, heard, executed, skipped, faults>>
     ELSE \/ Executes(Sample(Now), adopted, ok)
          \/ held.kind = "Play" /\ Executes(Now, adopted, ok)
  /\ UNCHANGED <<renderings, event, drained, fenced, save, inbox, admitted>>

\* The sample of every 250 ms and the checkpoint of every 5 s.
Periodic(ok) ==
  /\ AtTop /\ ~fenced
  /\ own.slot.fresh \/ Checkpoints(Now)
  /\ \/ ok /\ Becomes(Sample(Now))
     \/ Checkpoints(Now) /\ Becomes(Checkpoint(Now, ok))
  /\ Write(ok) /\ Spend(ok)
  /\ UNCHANGED <<heard, renderings, event, drained, fenced, save, held, clientVars>>

-----------------------------------------------------------------------------
(* The preparations and the worker.                                        *)

Valid(p) == p.gen = own.gen /\ p.epoch = own.epoch /\ ~fenced

\* A preparation that finds itself superseded ends without a word.
PrepEnds(p) ==
  /\ p.stage # "failing" /\ ~Valid(p) /\ preps' = preps \ {p}
  /\ UNCHANGED <<own, disk, player, heard, renderings, event, drained, fenced, save, held,
                 clientVars, faults>>

\* dispatch_effect: resume_existing, or the source is resolved.
PrepDispatches(p) ==
  /\ p.stage = "asked" /\ Valid(p)
  /\ IF player.runs /\ player.gen = p.gen
     THEN player' = [player EXCEPT !.epoch = p.epoch] /\ preps' = preps \ {p}
     ELSE player' = player /\ preps' = (preps \ {p}) \cup {[p EXCEPT !.stage = "resolving"]}
  /\ UNCHANGED <<own, disk, heard, renderings, event, drained, fenced, save, held, clientVars,
                 faults>>

\* A pipeline is installed; a position at the end is played from the start.
PrepInstalls(p) ==
  /\ p.stage = "resolving" /\ Valid(p) /\ preps' = preps \ {p}
  /\ renderings < MaxRenderings /\ renderings' = renderings + 1
  /\ player' = [gen |-> p.gen, epoch |-> p.epoch, occ |-> own.cur, runs |-> TRUE,
                pos |-> IF own.pos = End THEN 0 ELSE own.pos]
  /\ UNCHANGED <<own, disk, heard, event, drained, fenced, save, held, clientVars, faults>>

\* It fails while it is valid; the failure is published a moment later, without its epoch
\* being compared again.
PrepFails(p) ==
  /\ p.stage = "resolving" /\ Valid(p) /\ faults < MaxFaults /\ faults' = faults + 1
  /\ preps' = (preps \ {p}) \cup {[p EXCEPT !.stage = "failing"]}
  /\ UNCHANGED <<own, disk, player, heard, renderings, event, drained, fenced, save, held,
                 clientVars>>
PublishFailure(p) ==
  /\ p.stage = "failing" /\ preps' = preps \ {p}
  /\ event' = Published(p.gen, "Failed")
  /\ UNCHANGED <<own, disk, player, heard, renderings, drained, fenced, save, held, clientVars,
                 faults>>

\* The callback is silent behind a closed gate and under another serial.
Sounds == player.runs /\ own.gate /\ player.gen = own.gen /\ ~fenced

Plays ==
  /\ Sounds /\ player.pos < End
  /\ player' = [player EXCEPT !.pos = @ + 1]
  /\ heard' = [heard EXCEPT ![player.occ] = IF @ > player.pos THEN @ ELSE player.pos + 1]
  /\ UNCHANGED <<own, disk, preps, renderings, event, drained, fenced, save, held, clientVars,
                 faults>>

\* Slip: a sample is taken whatever rendering it is from.
ReportAny ==
  /\ player # NoPlayer /\ ~fenced
  /\ own.slot.occ = player.occ /\ player.pos >= own.slot.pos
  /\ own' = [own EXCEPT !.slot.pos = player.pos, !.slot.fresh = TRUE]
  /\ UNCHANGED <<disk, player, audioVars, event, drained, fenced, save, held, clientVars, faults>>

\* report_progress: a worker that was stopped may still report.
ReportProgress ==
  /\ player # NoPlayer /\ ~fenced
  /\ own.slot.gen = player.gen /\ own.slot.occ = player.occ /\ player.pos >= own.slot.pos
  /\ own' = [own EXCEPT !.slot.pos = player.pos, !.slot.fresh = TRUE]
  /\ UNCHANGED <<disk, player, audioVars, event, drained, fenced, save, held, clientVars, faults>>

\* The last prepared occurrence has been played to its end.
Completes ==
  /\ Sounds /\ player.pos = End /\ player.occ = own.cur
  /\ player' = [player EXCEPT !.runs = FALSE]
  /\ event' = Published(player.gen, "Completed")
  /\ UNCHANGED <<own, disk, audioVars, drained, fenced, save, held, clientVars, faults>>

\* The completion of this rendering waits for the owner, which drains every 25 ms.
CompletionWaits == \E e \in {event, drained} : e.kind = "Completed" /\ e.gen = own.gen

\* The prepared successor follows without a gap; the owner has yet to adopt it.
Presents ==
  /\ Sounds /\ player.pos = End /\ player.occ = own.cur /\ own.cur < Last
  /\ LateTurns \/ ~CompletionWaits
  /\ player' = [player EXCEPT !.occ = @ + 1, !.pos = 0]
  /\ UNCHANGED <<own, disk, audioVars, event, drained, fenced, save, held, clientVars, faults>>

Fails(kind) ==
  /\ player.runs /\ faults < MaxFaults /\ faults' = faults + 1
  /\ player' = [player EXCEPT !.runs = FALSE]
  /\ event' = Published(player.gen, kind)
  /\ UNCHANGED <<own, disk, audioVars, drained, fenced, save, held, clientVars>>

-----------------------------------------------------------------------------
(* The clients, the shutdown, the end of the process.                      *)

Admit(kind) ==
  /\ ~fenced /\ admitted < MaxCommands
  /\ admitted' = admitted + 1 /\ inbox' = Append(inbox, Command(admitted + 1, kind))
  /\ UNCHANGED <<own, disk, player, audioVars, event, drained, fenced, save, held, executed,
                 skipped, faults>>

\* The client saw no answer.
Repeat(id) ==
  /\ ~fenced /\ id \in executed /\ faults < MaxFaults /\ faults' = faults + 1
  /\ inbox' = Append(inbox, Repetition(id))
  /\ UNCHANGED <<own, disk, player, audioVars, event, drained, fenced, save, held, admitted,
                 executed, skipped>>

\* begin_shutdown_checkpoint, again after a failure.
BeginShutdown ==
  /\ save \in {"none", "failed"}
  /\ own' = [own EXCEPT !.gate = FALSE] /\ fenced' = TRUE /\ save' = "asked"
  /\ UNCHANGED <<disk, player, audioVars, event, drained, held, clientVars, faults>>

\* The process ends and restores the session from the disk. Generations have new names,
\* and no message with an old one is left.
Restart ==
  /\ save = "saved" \/ faults < MaxFaults
  /\ faults' = IF save = "saved" THEN faults ELSE faults + 1
  /\ own' = Restored(disk, 1) /\ player' = NoPlayer /\ preps' = {}
  /\ event' = NoEvent /\ drained' = NoEvent /\ fenced' = FALSE /\ save' = "none"
  /\ held' = NoCommand /\ inbox' = <<>> /\ executed' = {}
  /\ UNCHANGED <<disk, heard, renderings, admitted, skipped>>

Audio ==
  \/ \E p \in preps :
        \/ PrepEnds(p) \/ PrepDispatches(p) \/ PrepInstalls(p)
        \/ PrepFails(p) \/ PublishFailure(p)
  \/ Plays \/ ReportProgress \/ Completes \/ Presents
  \/ \E kind \in {"Failed", "Lost"} : Fails(kind)

Next ==
  \/ \E ok \in BOOLEAN : ServeSave(ok) \/ Turn(ok) \/ ApplyEvent(ok) \/ Periodic(ok)
  \/ \E adopted, ok \in BOOLEAN : Execute(adopted, ok)
  \/ Audio
  \/ \E kind \in Kinds : Admit(kind)
  \/ \E id \in executed : Repeat(id)
  \/ BeginShutdown \/ Restart

OwnerSpec == Init /\ [][Next]_vars

-----------------------------------------------------------------------------
Positions == 0..End
Generations == 0..own.gen
OwnerTypeOK ==
  /\ own.queue \in Nat /\ own.cur \in Occurrences /\ own.pos \in Positions
  /\ own.status \in {"Paused", "Playing", "Stopped", "Completed", "Error"}
  /\ own.failed \in BOOLEAN /\ own.gate \in BOOLEAN /\ own.dirty \in BOOLEAN
  /\ own.slot.gen \in Generations /\ own.slot.occ \in Occurrences
  /\ own.slot.pos \in Positions /\ own.slot.fresh \in BOOLEAN
  /\ own.plan = NoPlan \/ (own.plan.gen \in Generations /\ own.plan.to \in Occurrences)
  /\ disk.cur \in Occurrences /\ disk.pos \in Positions /\ disk.open \in BOOLEAN
  /\ player.gen \in Generations /\ player.occ \in Occurrences /\ player.pos \in Positions
  /\ event = NoEvent \/ event.gen \in Generations
  /\ held.id \in Ids \cup {0} /\ executed \subseteq Ids /\ skipped \subseteq Occurrences
  /\ save \in {"none", "asked", "saved", "failed"}
  /\ faults \in 0..MaxFaults

-----------------------------------------------------------------------------
(* The properties.                                                         *)

\* A position is never ahead of what was audible of its occurrence, in memory and on disk:
\* a late sample of another rendering or track is not taken for this one.
PositionIsHeard ==
  /\ own.pos <= heard[own.cur]
  /\ disk.pos <= heard[disk.cur]

\* The cursor passes an occurrence that was heard to its end, or that a client asked to
\* leave, and a queue is completed by its last occurrence: a completion that is applied
\* twice, late, or to another rendering, or a repeated Next, does not skip a track.
CursorIsEarned ==
  /\ \A o \in Occurrences : o < own.cur => heard[o] = End \/ o \in skipped
  /\ own.status = "Completed" => own.cur = Last /\ heard[Last] = End

\* What the owner shows as current is what a restart will find, whatever write failed
\* before; and a transition that could not be written is kept for this rendering, silent.
CursorIsCommitted ==
  /\ own.cur = disk.cur /\ own.queue = disk.queue
  /\ own.plan # NoPlan => own.plan.gen = own.gen /\ own.plan.occ = own.cur /\ ~own.gate

\* What is audible is recorded as an attempt that has no outcome yet: another start after
\* a completion, a failure or a restart opens one first.
AudibleHasAttempt == Sounds => disk.open

\* Once the shutdown has its answer the disk is not written again: no command that was
\* waiting, no event of the audio and no sample comes through behind the fence.
NothingAfterSave == [][save = "saved" => disk' = disk]_vars
=============================================================================
