----------------------------- MODULE SyncStaging -----------------------------
(***************************************************************************)
(* The transfer of a sync (execute_plan_sync_buffered in sync.rs): one producer *)
(* per server downloads its files one after the other into staging files,  *)
(* local encodings run beside it, and one writer takes complete files from *)
(* a bounded channel to the device. All of them share                      *)
(*   StagedByteLimiter, the budget of bytes on the staging disk, whose     *)
(*   permits grow while a download turns out larger than planned;          *)
(*   the semaphore of staged tracks; the barrier behind which automatic    *)
(*   selections wait for the files the user chose; the cancel token.       *)
(* Sizes are small numbers; what a request, a stream, an encoder or the    *)
(* device answers is a choice. What the writer does to the manifest is the *)
(* subject of ManifestCheckpoint.                                          *)
(***************************************************************************)
EXTENDS Naturals, Sequences, FiniteSets, Functions

CONSTANTS
  Files, Producers,
  Plan,          \* the files of each producer, those the user chose first
  AutoFill,      \* the files selected automatically
  Local,         \* the files encoded here after the download
  Tagged,        \* the files whose tags are rewritten in the staging file
  Reservations,  \* the bytes a response may announce for each file, headroom included
  Headroom,      \* the part of it kept for the output of the encoder
  MaxBytes,      \* staging_max_bytes
  MaxTracks,     \* staging_max_tracks: the semaphore and the channel
  MaxSize        \* bound on the bytes a stream delivers

ASSUME StagingAssumption ==
  /\ IsFiniteSet(Files)
  /\ AutoFill \cup Local \cup Tagged \subseteq Files
  /\ DOMAIN Plan = Producers /\ \A p \in Producers : Plan[p] \in Seq(Files)
  /\ Files = UNION {Range(Plan[p]) : p \in Producers}
  /\ Reservations \in [Files -> SUBSET Nat] /\ Headroom \in [Files -> Nat]
  /\ \A f \in Files : /\ Reservations[f] # {} /\ \A n \in Reservations[f] : Headroom[f] <= n
                      /\ f \notin Local => Headroom[f] = 0
  /\ {MaxBytes, MaxTracks, MaxSize} \subseteq Nat \ {0}
  \* An item of the plan is in one place, and the cursor of a server hands out its items
  \* by priority (sync_plan.rs).
  /\ \A p, q \in Producers : \A i \in DOMAIN Plan[p], j \in DOMAIN Plan[q] :
       Plan[p][i] = Plan[q][j] => p = q /\ i = j
  /\ \A p \in Producers : \A i, j \in DOMAIN Plan[p] :
       i < j /\ Plan[p][i] \in AutoFill => Plan[p][j] \in AutoFill

VARIABLES
  at, next,        \* each producer: where it is, the index of its current file
  arrived,         \* the producers that the barrier has counted
  stage,           \* where each file is
  attempt,         \* which request for it
  phase,           \* what its growth is for: the stream or the rewriting of tags
  want,            \* the argument of acquire or of reserve_to
  size,            \* bytes of the download, then of the output
  disk,            \* bytes of its files on the staging disk
  bytes,           \* StagedBytePermit.bytes
  waiting,         \* the growth futures that are registered
  budget,          \* StagingBudget
  queue,           \* staged_tx .. staged_rx
  writer, writerFailed,
  cancelled,       \* the cancel token of the operation
  outcome          \* what the operation reports of each file

producerVars == <<at, next, arrived>>
fileVars     == <<stage, attempt, phase, want, size, disk>>
budgetVars   == <<bytes, waiting, budget>>
writerVars   == <<queue, writer, writerFailed>>
stagingVars == <<producerVars, fileVars, budgetVars, writerVars, cancelled, outcome>>

\* A permit is partial until the file is whole, and complete from then on.
Partial  == {"streaming", "growing", "granted", "refused", "tagging", "failed",
             "encoding", "encoded", "shrinking", "completing"}
Complete == {"sending", "queued", "writing"}
Download == {"counting", "acquiring", "streaming", "growing", "granted", "refused",
             "tagging", "failed"}

PermitsOf(S) == {f \in Files : stage[f] \in S}
Counted      == PermitsOf({"acquiring"} \cup Partial \cup Complete)

Zero == [f \in Files |-> 0]

StagingInit ==
  /\ at = [p \in Producers |-> "items"] /\ next = [p \in Producers |-> 1]
  /\ arrived = {}
  /\ stage = [f \in Files |-> "planned"]
  /\ attempt = [f \in Files |-> 1] /\ phase = [f \in Files |-> "stream"]
  /\ want = Zero /\ size = Zero /\ disk = Zero /\ bytes = Zero
  /\ waiting = {}
  /\ budget = [used |-> 0, complete |-> 0, partial |-> 0, waiters |-> 0]
  /\ queue = <<>> /\ writer = "receiving" /\ writerFailed = FALSE
  /\ cancelled = FALSE
  /\ outcome = [f \in Files |-> "none"]

----------------------------------------------------------------------------
(* The producer: the loop over its files.                                  *)

Monus(a, b) == IF a > b THEN a - b ELSE 0

HasItem(p)    == at[p] = "items" /\ next[p] \in DOMAIN Plan[p]
Current(p, f) == HasItem(p) /\ Plan[p][next[p]] = f
AtBarrier(p)  == /\ HasItem(p) /\ Plan[p][next[p]] \in AutoFill
                 /\ \A i \in 1..(next[p] - 1) : Plan[p][i] \notin AutoFill

\* continue and break of the loop.
Advance(p) == next' = [next EXCEPT ![p] = @ + 1] /\ UNCHANGED at
Break(p)   == at' = [at EXCEPT ![p] = "joining"] /\ UNCHANGED next
Stay       == UNCHANGED <<at, next>>

\* Drop of a StagedBytePermit, of the staging files before it and of what the
\* task knew of the file.
Close(f) ==
  /\ stage' = [stage EXCEPT ![f] = "closed"]
  /\ attempt' = [attempt EXCEPT ![f] = 1]
  /\ phase' = [phase EXCEPT ![f] = "stream"]
  /\ want' = [want EXCEPT ![f] = 0]
  /\ size' = [size EXCEPT ![f] = 0]
  /\ disk' = [disk EXCEPT ![f] = 0]
  /\ bytes' = [bytes EXCEPT ![f] = 0]
  /\ budget' = [budget EXCEPT !.used = @ - bytes[f],
                              !.complete = IF stage[f] \in Complete THEN @ - bytes[f] ELSE @,
                              !.partial = IF stage[f] \in Partial THEN @ - 1 ELSE @]

\* How a file fails: an automatic selection is a warning, a file the user chose
\* is an error that cancels the operation.
Blame(f) ==
  IF f \in AutoFill
  THEN outcome' = [outcome EXCEPT ![f] = "warned"] /\ UNCHANGED cancelled
  ELSE outcome' = [outcome EXCEPT ![f] = "error"] /\ cancelled' = TRUE

\* What the producer does after the failure of its current file.
AfterBlame(p, f) == IF f \in AutoFill THEN Advance(p) ELSE Break(p)

ArriveAtBarrier(p) ==
  /\ AtBarrier(p)
  /\ arrived' = arrived \cup {p}
  /\ UNCHANGED <<at, next, fileVars, budgetVars, writerVars, cancelled, outcome>>

\* Slip: nobody waits at the barrier.
StartItemUnawaited(p, f) ==
  /\ Current(p, f) /\ stage[f] = "planned"
  /\ ~cancelled
  /\ stage' = [stage EXCEPT ![f] = "counting"]
  /\ \E n \in Reservations[f] : want' = [want EXCEPT ![f] = n]
  /\ Stay
  /\ UNCHANGED <<arrived, attempt, phase, size, disk, budgetVars, writerVars,
                 cancelled, outcome>>

\* The source answers, and the target path is known.
StartItem(p, f) ==
  /\ Current(p, f) /\ stage[f] = "planned"
  /\ AtBarrier(p) => arrived = Producers
  /\ ~cancelled
  /\ stage' = [stage EXCEPT ![f] = "counting"]
  /\ \E n \in Reservations[f] : want' = [want EXCEPT ![f] = n]
  /\ Stay
  /\ UNCHANGED <<arrived, attempt, phase, size, disk, budgetVars, writerVars,
                 cancelled, outcome>>

\* It does not, or only with a format that the device does not take, which is a
\* warning for every file.
SkipItem(p, f) ==
  /\ Current(p, f) /\ stage[f] = "planned"
  /\ AtBarrier(p) => arrived = Producers
  /\ ~cancelled
  /\ stage' = [stage EXCEPT ![f] = "closed"]
  /\ \/ Blame(f) /\ AfterBlame(p, f)
     \/ /\ outcome' = [outcome EXCEPT ![f] = "warned"]
        /\ Advance(p)
        /\ UNCHANGED cancelled
  /\ UNCHANGED <<arrived, attempt, phase, want, size, disk, budgetVars, writerVars>>

\* count_permit
TakeCount(p, f) ==
  /\ Current(p, f) /\ stage[f] = "counting"
  /\ Cardinality(Counted) < MaxTracks
  /\ stage' = [stage EXCEPT ![f] = "acquiring"]
  /\ Stay
  /\ UNCHANGED <<arrived, attempt, phase, want, size, disk, budgetVars, writerVars,
                 cancelled, outcome>>

\* StagedByteLimiter::acquire
Acquire(p, f) ==
  /\ Current(p, f) /\ stage[f] = "acquiring"
  /\ ~cancelled
  /\ want[f] <= MaxBytes - budget.used
  /\ stage' = [stage EXCEPT ![f] = "streaming"]
  /\ bytes' = [bytes EXCEPT ![f] = want[f]]
  /\ budget' = [budget EXCEPT !.used = @ + want[f], !.partial = @ + 1]
  /\ want' = [want EXCEPT ![f] = 0]
  /\ Stay
  /\ UNCHANGED <<arrived, attempt, phase, size, disk, waiting, writerVars, cancelled,
                 outcome>>

\* A reservation beyond the whole budget is an error, and the loop goes on.
RefuseOversized(p, f) ==
  /\ Current(p, f) /\ stage[f] = "acquiring"
  /\ want[f] > MaxBytes
  /\ stage' = [stage EXCEPT ![f] = "closed"]
  /\ want' = [want EXCEPT ![f] = 0]
  /\ IF cancelled THEN Break(p) /\ UNCHANGED outcome
     ELSE Advance(p) /\ outcome' = [outcome EXCEPT ![f] = "error"]
  /\ UNCHANGED <<arrived, attempt, phase, size, disk, budgetVars, writerVars,
                 cancelled>>

\* Every wait of the loop ends with a cancellation.
StopProducer(p) ==
  /\ cancelled
  /\ HasItem(p)
  /\ LET f == Plan[p][next[p]]
     IN  /\ stage[f] \in {"planned", "counting", "acquiring", "streaming", "failed"}
         /\ IF stage[f] \in {"streaming", "failed"} THEN Close(f)
            ELSE /\ stage' = [stage EXCEPT ![f] = IF @ = "planned" THEN @ ELSE "closed"]
                 /\ want' = [want EXCEPT ![f] = 0]
                 /\ UNCHANGED <<attempt, phase, size, disk, bytes, budget>>
  /\ Break(p)
  /\ UNCHANGED <<arrived, waiting, writerVars, cancelled,
                 outcome>>

\* The loop has gone through the plan.
EndItems(p) ==
  /\ at[p] = "items" /\ next[p] \notin DOMAIN Plan[p]
  /\ Break(p)
  /\ UNCHANGED <<arrived, fileVars, budgetVars, writerVars, cancelled, outcome>>

\* The encodings are joined; a producer that has not been at the barrier is
\* counted now and waits like the others.
EncodingsOf(p) == {f \in Local \cap Range(Plan[p]) :
                     stage[f] \in {"encoding", "encoded", "shrinking", "completing", "sending"}}

ArriveLate(p) ==
  /\ at[p] = "joining"
  /\ EncodingsOf(p) = {}
  /\ p \notin arrived
  /\ arrived' = arrived \cup {p}
  /\ UNCHANGED <<at, next, fileVars, budgetVars, writerVars, cancelled, outcome>>

EndProducer(p) ==
  /\ at[p] = "joining"
  /\ EncodingsOf(p) = {}
  /\ cancelled \/ arrived = Producers
  /\ at' = [at EXCEPT ![p] = "ended"]
  /\ UNCHANGED <<next, arrived, fileVars, budgetVars, writerVars, cancelled, outcome>>

----------------------------------------------------------------------------
(* The download: stream_to_staging_file and the growth of its permit.      *)

Needed(f) == Monus(want[f] + Headroom[f], bytes[f])

ReceiveChunk(f) ==
  /\ stage[f] = "streaming"
  /\ \E n \in 1..(MaxSize - size[f]) : want' = [want EXCEPT ![f] = size[f] + n]
  /\ stage' = [stage EXCEPT ![f] = "growing"]
  /\ UNCHANGED <<producerVars, attempt, phase, size, disk, budgetVars, writerVars,
                 cancelled, outcome>>

StreamFails(f) ==
  /\ stage[f] = "streaming"
  /\ stage' = [stage EXCEPT ![f] = "failed"]
  /\ UNCHANGED <<producerVars, attempt, phase, want, size, disk, budgetVars, writerVars,
                 cancelled, outcome>>

\* What the growth was for: the chunk is written, or the copy with the new tags
\* is; a refused growth fails the attempt.
Granted(f) ==
  /\ stage' = [stage EXCEPT ![f] = IF phase[f] = "tag" THEN "tagging" ELSE "streaming"]
  /\ size' = IF phase[f] = "stream" THEN [size EXCEPT ![f] = want[f]] ELSE size
  /\ disk' = [disk EXCEPT ![f] = want[f]]
  /\ want' = [want EXCEPT ![f] = 0]

Refused(f) ==
  /\ stage' = [stage EXCEPT ![f] = "failed"]
  /\ want' = [want EXCEPT ![f] = 0]
  /\ UNCHANGED <<size, disk>>

\* A registered waiter is dropped in a lock of its own, after the growth.
BeforeDrop(f, answer) ==
  /\ stage' = [stage EXCEPT ![f] = answer]
  /\ UNCHANGED <<size, disk, want>>

\* reserve_additional, one round of its loop under the lock. A round that does
\* not fit registers the waiter once, and gives up when nobody else could free
\* or finish anything.
Grow(f) ==
  /\ stage[f] = "growing"
  /\ Needed(f) <= MaxBytes - budget.used
  /\ IF f \in waiting THEN BeforeDrop(f, "granted") ELSE Granted(f)
  /\ bytes' = [bytes EXCEPT ![f] = @ + Needed(f)]
  /\ budget' = [budget EXCEPT !.used = @ + Needed(f)]
  /\ UNCHANGED <<producerVars, attempt, phase, waiting, writerVars, cancelled, outcome>>

Registered(f) == [budget EXCEPT !.waiters = IF f \in waiting THEN @ ELSE @ + 1]

\* Slip: every waiter waits for the others.
WaitAlways(f) ==
  /\ stage[f] = "growing"
  /\ Needed(f) > MaxBytes - budget.used
  /\ Needed(f) <= MaxBytes - bytes[f]
  /\ waiting' = waiting \cup {f}
  /\ budget' = Registered(f)
  /\ UNCHANGED <<producerVars, fileVars, bytes, writerVars, cancelled, outcome>>

AwaitGrowth(f) ==
  /\ stage[f] = "growing"
  /\ Needed(f) > MaxBytes - budget.used
  /\ Needed(f) <= MaxBytes - bytes[f]
  /\ waiting' = waiting \cup {f}
  /\ budget' = Registered(f)
  /\ stage' = IF budget.complete = 0 /\ Registered(f).waiters = budget.partial
              THEN [stage EXCEPT ![f] = "refused"] ELSE stage
  /\ UNCHANGED <<producerVars, attempt, phase, want, size, disk, bytes, writerVars,
                 cancelled, outcome>>

\* More than the whole budget, or a cancelled operation.
RefuseGrowth(f) ==
  /\ stage[f] = "growing"
  /\ cancelled \/ Needed(f) > MaxBytes - bytes[f]
  /\ IF f \in waiting THEN BeforeDrop(f, "refused") ELSE Refused(f)
  /\ UNCHANGED <<producerVars, attempt, phase, budgetVars, writerVars, cancelled, outcome>>

\* StagingGrowthWaiter::drop
DropWaiter(f) ==
  /\ stage[f] \in {"granted", "refused"}
  /\ waiting' = waiting \ {f}
  /\ budget' = [budget EXCEPT !.waiters = @ - 1]
  /\ IF stage[f] = "granted" THEN Granted(f) ELSE Refused(f)
  /\ UNCHANGED <<producerVars, attempt, phase, bytes, writerVars, cancelled, outcome>>

\* A first attempt that failed is requested again, with the permit as it is.
RetryStream(f) ==
  /\ stage[f] = "failed" /\ attempt[f] = 1 /\ phase[f] = "stream"
  /\ ~cancelled
  /\ attempt' = [attempt EXCEPT ![f] = 2]
  /\ size' = [size EXCEPT ![f] = 0]
  /\ disk' = [disk EXCEPT ![f] = 0]
  /\ stage' \in {[stage EXCEPT ![f] = "streaming"], stage}
  /\ UNCHANGED <<producerVars, phase, want, budgetVars, writerVars, cancelled, outcome>>

FailItem(p, f) ==
  /\ Current(p, f) /\ stage[f] = "failed"
  /\ attempt[f] = 2 \/ phase[f] = "tag"
  /\ ~cancelled
  /\ Close(f)
  /\ Blame(f)
  /\ AfterBlame(p, f)
  /\ UNCHANGED <<arrived, waiting, writerVars>>

\* The stream is through: apply_staged_book_tags reserves room for a copy.
\* (The allowance for the tags themselves is left out of the sizes.)
ReserveTags(f) ==
  /\ stage[f] = "streaming" /\ f \in Tagged
  /\ stage' = [stage EXCEPT ![f] = "growing"]
  /\ phase' = [phase EXCEPT ![f] = "tag"]
  /\ want' = [want EXCEPT ![f] = 2 * size[f]]
  /\ UNCHANGED <<producerVars, attempt, size, disk, budgetVars, writerVars, cancelled,
                 outcome>>

RewriteTags(f) ==
  /\ stage[f] = "tagging"
  /\ disk' = [disk EXCEPT ![f] = size[f]]
  /\ stage' \in {[stage EXCEPT ![f] = IF f \in Local THEN "encoding" ELSE "shrinking"],
                 [stage EXCEPT ![f] = "failed"]}
  /\ UNCHANGED <<producerVars, attempt, phase, want, size, budgetVars, writerVars,
                 cancelled, outcome>>

EndStream(f) ==
  /\ stage[f] = "streaming" /\ f \notin Tagged
  /\ stage' = [stage EXCEPT ![f] = IF f \in Local THEN "encoding" ELSE "shrinking"]
  /\ UNCHANGED <<producerVars, attempt, phase, want, size, disk, budgetVars, writerVars,
                 cancelled, outcome>>

\* shrink_to and mark_complete, each with the lock.
Shrink(f) ==
  /\ stage[f] = "shrinking"
  /\ stage' = [stage EXCEPT ![f] = "completing"]
  /\ bytes' = [bytes EXCEPT ![f] = IF size[f] < @ THEN size[f] ELSE @]
  /\ budget' = [budget EXCEPT !.used = @ - Monus(bytes[f], size[f])]
  /\ UNCHANGED <<producerVars, attempt, phase, want, size, disk, waiting, writerVars,
                 cancelled, outcome>>

MarkComplete(f) ==
  /\ stage[f] = "completing"
  /\ stage' = [stage EXCEPT ![f] = "sending"]
  /\ budget' = [budget EXCEPT !.partial = @ - 1, !.complete = @ + bytes[f]]
  /\ UNCHANGED <<producerVars, attempt, phase, want, size, disk, bytes, waiting, writerVars,
                 cancelled, outcome>>

----------------------------------------------------------------------------
(* The encoder: encode_and_enqueue, beside the producer that spawned it.   *)

\* The producer hands the file over and goes on; a cancelled one stops here.
SpawnEncoding(p, f) ==
  /\ Current(p, f) /\ stage[f] = "encoding"
  /\ IF cancelled THEN Close(f) /\ Break(p)
     ELSE Advance(p) /\ UNCHANGED <<fileVars, bytes, budget>>
  /\ UNCHANGED <<arrived, waiting, writerVars, cancelled, outcome>>

Spawned(f) == \A p \in Producers : ~Current(p, f)

\* Room for the output: the headroom, or for an unknown lossless file, which
\* holds the whole budget, what the download left of it.
OutputRoom(f) == IF Headroom[f] = 0 THEN Monus(bytes[f], size[f]) ELSE Headroom[f]

\* Slip: the output is not bounded by the headroom.
EncodeUnbounded(f) ==
  /\ stage[f] = "encoding" /\ Spawned(f)
  /\ \E n \in 0..MaxSize : /\ disk' = [disk EXCEPT ![f] = size[f] + n]
                           /\ size' = [size EXCEPT ![f] = n]
  /\ stage' = [stage EXCEPT ![f] = "encoded"]
  /\ UNCHANGED <<producerVars, attempt, phase, want, budgetVars, writerVars, cancelled,
                 outcome>>

\* The output is on the disk beside the original, which is then removed.
Encode(f) ==
  /\ stage[f] = "encoding" /\ Spawned(f)
  /\ \E n \in 0..OutputRoom(f) : /\ disk' = [disk EXCEPT ![f] = size[f] + n]
                                 /\ size' = [size EXCEPT ![f] = n]
  /\ stage' = [stage EXCEPT ![f] = "encoded"]
  /\ UNCHANGED <<producerVars, attempt, phase, want, budgetVars, writerVars, cancelled,
                 outcome>>

RemoveOriginal(f) ==
  /\ stage[f] = "encoded"
  /\ disk' = [disk EXCEPT ![f] = size[f]]
  /\ stage' = [stage EXCEPT ![f] = "shrinking"]
  /\ UNCHANGED <<producerVars, attempt, phase, want, size, budgetVars, writerVars,
                 cancelled, outcome>>

\* Slip: a failed encoding is taken for a cancelled one.
EncodingFailsUnseen(f) ==
  /\ stage[f] \in {"encoding", "encoded"} /\ Spawned(f)
  /\ Close(f)
  /\ UNCHANGED <<producerVars, waiting, writerVars, cancelled, outcome>>

\* The encoder fails, or is cancelled and joined: then nothing is reported.
EncodingFails(f) ==
  /\ stage[f] \in {"encoding", "encoded"} /\ Spawned(f)
  /\ Close(f)
  /\ IF cancelled THEN UNCHANGED <<cancelled, outcome>> ELSE Blame(f)
  /\ UNCHANGED <<producerVars, waiting, writerVars>>

----------------------------------------------------------------------------
(* The channel and the writer.                                             *)

\* try_send of the producer, reserve of the encoder.
Send(f) ==
  /\ stage[f] = "sending"
  /\ Len(queue) < MaxTracks
  /\ ~cancelled \/ f \in Local
  /\ queue' = Append(queue, f)
  /\ stage' = [stage EXCEPT ![f] = "queued"]
  /\ next' = [p \in Producers |-> IF Current(p, f) THEN next[p] + 1 ELSE next[p]]
  /\ UNCHANGED <<at, arrived, attempt, phase, want, size, disk, budgetVars, writer,
                 writerFailed, cancelled, outcome>>

DiscardUnsent(f) ==
  /\ stage[f] = "sending"
  /\ cancelled
  /\ Close(f)
  /\ next' = [p \in Producers |-> IF Current(p, f) THEN next[p] + 1 ELSE next[p]]
  /\ UNCHANGED <<at, arrived, waiting, writerVars, cancelled,
                 outcome>>

\* recv, and the first checks: a cancelled or failed sync discards what comes.
Receive ==
  /\ writer = "receiving"
  /\ queue # <<>>
  /\ queue' = Tail(queue)
  /\ LET f == Head(queue)
     IN  IF cancelled \/ writerFailed
         THEN Close(f) /\ UNCHANGED writer
         ELSE /\ stage' = [stage EXCEPT ![f] = "writing"]
              /\ writer' = "writing"
              /\ UNCHANGED <<attempt, phase, want, size, disk, bytes, budget>>
  /\ UNCHANGED <<producerVars, waiting, writerFailed, cancelled,
                 outcome>>

\* The file is on the device and staged in the manifest.
WriteSucceeds(f) ==
  /\ stage[f] = "writing"
  /\ Close(f)
  /\ outcome' = [outcome EXCEPT ![f] = "written"]
  /\ writer' = "receiving"
  /\ UNCHANGED <<producerVars, waiting, queue, writerFailed,
                 cancelled>>

\* A path, space or write error (after one retry), or a manifest that cannot be
\* written, cancels the sync; a file that is missing after its write does not.
WriteFails(f) ==
  /\ stage[f] = "writing"
  /\ Close(f)
  /\ outcome' = [outcome EXCEPT ![f] = "error"]
  /\ writer' = "receiving"
  /\ \/ cancelled' = TRUE /\ writerFailed' = TRUE
     \/ UNCHANGED <<cancelled, writerFailed>>
  /\ UNCHANGED <<producerVars, waiting, queue>>

\* The operation was cancelled after the first checks.
WriteCancelled(f) ==
  /\ stage[f] = "writing"
  /\ cancelled
  /\ Close(f)
  /\ writer' = "receiving"
  /\ writerFailed' = TRUE
  /\ UNCHANGED <<producerVars, waiting, queue, cancelled, outcome>>

SendersLeft == \E p \in Producers : at[p] # "ended"

\* The channel is empty and every sender is dropped, or the sync is cancelled.
StopWriter ==
  /\ writer = "receiving"
  /\ cancelled \/ (queue = <<>> /\ ~SendersLeft)
  /\ writer' = "joining"
  /\ UNCHANGED <<producerVars, fileVars, budgetVars, queue, writerFailed, cancelled, outcome>>

\* The producers are joined and the staging directories removed.
CloseStaging ==
  /\ writer = "joining"
  /\ ~SendersLeft
  /\ writer' = "closed"
  /\ UNCHANGED <<producerVars, fileVars, budgetVars, queue, writerFailed, cancelled, outcome>>

\* sync_cancel, the removal of the device, or Quit.
CancelSync ==
  /\ ~cancelled
  /\ writer # "closed"
  /\ cancelled' = TRUE
  /\ UNCHANGED <<producerVars, fileVars, budgetVars, writerVars, outcome>>

----------------------------------------------------------------------------
ProducerStep(p) ==
  \/ ArriveAtBarrier(p)
  \/ \E f \in Files : \/ StartItem(p, f) \/ SkipItem(p, f) \/ TakeCount(p, f)
                      \/ Acquire(p, f) \/ RefuseOversized(p, f)
                      \/ FailItem(p, f) \/ SpawnEncoding(p, f)
  \/ StopProducer(p) \/ EndItems(p) \/ ArriveLate(p) \/ EndProducer(p)

DownloadStep(f) ==
  \/ ReceiveChunk(f) \/ StreamFails(f) \/ Grow(f) \/ AwaitGrowth(f) \/ RefuseGrowth(f)
  \/ DropWaiter(f) \/ RetryStream(f) \/ ReserveTags(f) \/ RewriteTags(f) \/ EndStream(f)
  \/ Shrink(f) \/ MarkComplete(f) \/ Send(f) \/ DiscardUnsent(f)

EncoderStep(f) == Encode(f) \/ RemoveOriginal(f) \/ EncodingFails(f)

WriterStep ==
  \/ Receive
  \/ \E f \in Files : WriteSucceeds(f) \/ WriteFails(f) \/ WriteCancelled(f)
  \/ StopWriter \/ CloseStaging

StagingNext ==
  \/ \E p \in Producers : ProducerStep(p)
  \/ \E f \in Files : DownloadStep(f) \/ EncoderStep(f)
  \/ WriterStep
  \/ CancelSync

StagingSpec == StagingInit /\ [][StagingNext]_stagingVars

\* Every task is polled; servers answer, streams end or fail, encoders return.
StagingFairness ==
  /\ \A p \in Producers : WF_stagingVars(ProducerStep(p))
  /\ \A f \in Files : WF_stagingVars(DownloadStep(f)) /\ WF_stagingVars(EncoderStep(f))
  /\ WF_stagingVars(WriterStep)

FairStagingSpec == StagingSpec /\ StagingFairness

----------------------------------------------------------------------------
(* Safety.                                                                 *)

\* The bytes of the files of S, counted one by one.
BytesOf(field, S) == UNION {{f} \X (1..field[f]) : f \in S}
Total(field, S)   == Cardinality(BytesOf(field, S))

\* The budget is what the permits add up to, whichever of growth, shrinking,
\* completion and drop came in which order, on every error path: nothing is
\* returned twice and nothing is kept.
BudgetMatchesPermits ==
  /\ budget.used = Total(bytes, PermitsOf(Partial \cup Complete))
  /\ budget.complete = Total(bytes, PermitsOf(Complete))
  /\ budget.partial = Cardinality(PermitsOf(Partial))
  /\ budget.waiters = Cardinality(waiting)

\* What is on the staging disk, a half-written copy or the output of an encoder
\* beside its original included, never exceeds the configured bytes, because the
\* budget is exact.
DiskWithinBudget == Total(disk, Files) <= MaxBytes /\ BudgetMatchesPermits

\* No automatic selection of any server is downloaded before every file that the
\* user chose has been downloaded (the barrier of the producers).
ManualBeforeAutoFill ==
  \A f \in AutoFill, g \in Files \ AutoFill :
    stage[f] # "planned" => stage[g] \notin {"planned"} \cup Download

\* A sync that was not cancelled accounts for every file of its plan: none is
\* left in a queue or an encoder when the transfer is over.
NothingSilentlyLost ==
  writer = "closed" /\ ~cancelled => \A f \in Files : outcome[f] # "none"

(* Liveness.                                                               *)

\* The transfer ends: downloads that outgrow their reservations never wait for
\* each other for ever, and nobody waits at the barrier for one that is gone.
StagingEnds == <>(writer = "closed")
=============================================================================
