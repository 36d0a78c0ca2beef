----------------------------- MODULE QuitProofs -----------------------------
(***************************************************************************)
(* Theorems about QuitProtocol, for any number of attempts, of retries of  *)
(* the checkpoint and of admitted work.                                    *)
(***************************************************************************)
EXTENDS QuitProtocol, SequenceTheorems, TLAPS

\* The commands the tray has sent and the core has not received: a failed attempt and
\* the next one may meet in the channel, nothing else does.
Queues == {<<>>, <<"begin">>, <<"fail">>, <<"commit">>, <<"fail", "begin">>}
CommandsQueued ==
  /\ commands \in Queues
  /\ tray = "running" => commands \in {<<>>, <<"fail">>}
  /\ tray = "fencing" => commands \in {<<>>, <<"begin">>, <<"fail", "begin">>}
  /\ tray = "writing" => commands = <<>>
  /\ tray \in {"quitting", "exited"} =>
       commands \in {<<>>, <<"commit">>} /\ (commands = <<>> <=> core # "loop")
  /\ tray \in {"running", "fencing", "writing"} => core = "loop"
  /\ tray = "exited" => core = "done"

\* How far the fence is.
FenceFollowsTray ==
  /\ beginReply => tray = "fencing" /\ commands = <<>>
  /\ tray = "fencing" /\ commands = <<>> => beginReply
  /\ tray = "writing" => writers = IF fenceReply = "empty" THEN 1 ELSE 0
  /\ tray # "writing" => writers = 0 /\ fenceReply = "empty"
  /\ fenceReply = "ok" \/ tray \in {"quitting", "exited"} => generation > 0
  /\ stopping <=> tray \in {"writing", "quitting", "exited"}

\* Admission is closed from the time the core begins an attempt until it fails one.
ClosedByTracker ==
  /\ closed <=> tracker.phase \notin {"none", "fenceFailed"}
  /\ closed <=> \/ tray = "running" /\ commands # <<>>
                \/ tray = "fencing" /\ commands # <<"begin">>
                \/ tray \in {"writing", "quitting", "exited"}
  /\ tracker.committed <=> core \in {"finishing", "teardownFailed", "done"}

\* The checkpoint of the session and who attends to it.
CheckpointFollowsCore ==
  /\ core = "loop" => tracker.checkpoint = "notRequired"
  /\ core = "committing" => tracker.checkpoint = "pending"
  /\ core # "loop" => tracker.checkpoint # "notRequired"
  /\ tracker.checkpoint = "pending" <=> (save # "none" \/ checkpointRetry)
  /\ ~(save # "none" /\ checkpointRetry)
  /\ checkpointRetry => core = "finishing"
  /\ saved <=> tracker.checkpoint = "succeeded"
  /\ tracker.checkpoint = "failed" =>
       core = "finishing" /\ tracker.error = "PLAYBACK_CHECKPOINT_FAILED"
  /\ tracker.checkpoint = "succeeded" => core \in {"finishing", "teardownFailed", "done"}
  /\ drained => saved /\ work = 0 /\ core # "loop"
  /\ core \in {"teardownFailed", "done"} => saved /\ drained

Typed ==
  /\ quitRequested \in BOOLEAN /\ retryRequested \in BOOLEAN
  /\ tray \in {"running", "fencing", "writing", "quitting", "exited"}
  /\ beginReply \in BOOLEAN
  /\ writers \in 0..MaxAttempts /\ fenceReply \in {"empty", "ok", "error"}
  /\ generation \in Nat
  /\ stopping \in BOOLEAN /\ closed \in BOOLEAN
  /\ tracker \in [phase : Phases, committed : BOOLEAN, error : ErrorCodes,
                  checkpoint : Checkpoints, retry : BOOLEAN]
  /\ checkpointRetry \in BOOLEAN
  /\ core \in {"loop", "committing", "finishing", "teardownFailed", "done"}
  /\ save \in {"none", "queued", "ok", "error", "disconnected"}
  /\ saved \in BOOLEAN /\ drained \in BOOLEAN /\ overdue \in BOOLEAN
  /\ work \in 0..MaxWork
  /\ attempts \in 0..MaxAttempts /\ saves \in 0..MaxSaves

\* The fence advances once for each attempt.
AttemptsCounted == generation + writers + (IF tray = "fencing" THEN 1 ELSE 0) <= attempts

Inv ==
  /\ Typed /\ AttemptsCounted
  /\ CommandsQueued /\ FenceFollowsTray /\ ClosedByTracker /\ CheckpointFollowsCore

LEMMA Bounds ==
  ASSUME QuitAssumption
  PROVE  MaxAttempts \in Nat \ {0} /\ MaxSaves \in Nat \ {0} /\ MaxWork \in Nat \ {0}
BY DEF QuitAssumption

\* What the operators of sequences do to the queues there are.
LEMMA QueueSteps ==
  /\ Append(<<>>, "begin") = <<"begin">> /\ Append(<<"fail">>, "begin") = <<"fail", "begin">>
  /\ Append(<<>>, "fail") = <<"fail">> /\ Append(<<>>, "commit") = <<"commit">>
  /\ Tail(<<"begin">>) = <<>> /\ Tail(<<"fail">>) = <<>> /\ Tail(<<"commit">>) = <<>>
  /\ Tail(<<"fail", "begin">>) = <<"begin">>
  /\ Head(<<"begin">>) = "begin" /\ Head(<<"fail">>) = "fail" /\ Head(<<"commit">>) = "commit"
  /\ Head(<<"fail", "begin">>) = "fail"
  /\ <<>> \notin {<<"begin">>, <<"fail">>, <<"commit">>, <<"fail", "begin">>}
  /\ <<"begin">> \notin {<<"fail">>, <<"commit">>, <<"fail", "begin">>}
  /\ <<"fail">> \notin {<<"commit">>, <<"fail", "begin">>} /\ <<"commit">> # <<"fail", "begin">>
<1>1. /\ Append(<<>>, "begin") = <<"begin">> /\ Append(<<>>, "fail") = <<"fail">>
      /\ Append(<<>>, "commit") = <<"commit">>
  OBVIOUS
<1>2. Append(<<"fail">>, "begin") = <<"fail", "begin">>
  <2> DEFINE s == Append(<<"fail">>, "begin")
  <2>1. s \in Seq({"fail", "begin"}) /\ Len(s) = 2 /\ s[1] = "fail" /\ s[2] = "begin"
    OBVIOUS
  <2>2. <<"fail", "begin">> \in Seq({"fail", "begin"}) /\ Len(<<"fail", "begin">>) = 2
    OBVIOUS
  <2> HIDE DEF s
  <2>3. s = <<"fail", "begin">>
    BY <2>1, <2>2, SeqEqual
  <2> QED BY <2>3 DEF s
<1>3. /\ Tail(<<"begin">>) = <<>> /\ Tail(<<"fail">>) = <<>> /\ Tail(<<"commit">>) = <<>>
  OBVIOUS
<1>4. Tail(<<"fail", "begin">>) = <<"begin">>
  OBVIOUS
<1>5. /\ Head(<<"begin">>) = "begin" /\ Head(<<"fail">>) = "fail" /\ Head(<<"commit">>) = "commit"
      /\ Head(<<"fail", "begin">>) = "fail"
  OBVIOUS
<1>6. <<>> \notin {<<"begin">>, <<"fail">>, <<"commit">>, <<"fail", "begin">>}
  OBVIOUS
<1>7. <<"begin">> \notin {<<"fail">>, <<"commit">>, <<"fail", "begin">>}
  OBVIOUS
<1>8. <<"fail">> \notin {<<"commit">>, <<"fail", "begin">>} /\ <<"commit">> # <<"fail", "begin">>
  OBVIOUS
<1> QED BY <1>1, <1>2, <1>3, <1>4, <1>5, <1>6, <1>7, <1>8


\* What the core receives is what the tray sent, in order.
LEMMA ReceivesInOrder ==
  ASSUME commands \in Queues, NEW command, Receives(command)
  PROVE  \/ command = "begin" /\ commands = <<"begin">> /\ commands' = <<>>
         \/ command = "fail" /\ commands = <<"fail">> /\ commands' = <<>>
         \/ command = "fail" /\ commands = <<"fail", "begin">> /\ commands' = <<"begin">>
         \/ command = "commit" /\ commands = <<"commit">> /\ commands' = <<>>
<1>1. commands # <<>> /\ command = Head(commands) /\ commands' = Tail(commands)
  BY DEF Receives
<1>2. CASE commands = <<"begin">>
  BY <1>1, <1>2, QueueSteps
<1>3. CASE commands = <<"fail">>
  BY <1>1, <1>3, QueueSteps
<1>4. CASE commands = <<"fail", "begin">>
  BY <1>1, <1>4, QueueSteps
<1>5. CASE commands = <<"commit">>
  BY <1>1, <1>5, QueueSteps
<1> QED BY <1>1, <1>2, <1>3, <1>4, <1>5 DEF Queues

LEMMA RequestQuitKeepsInv ==
  ASSUME QuitAssumption, Inv, RequestQuit
  PROVE  Inv'
<1>1. Typed'
  BY DEF RequestQuit, Inv, Typed, fenceVars, coreVars
<1>2. CommandsQueued'
  BY DEF RequestQuit, Inv, CommandsQueued, coreVars
<1>3. FenceFollowsTray'
  BY DEF RequestQuit, Inv, FenceFollowsTray, fenceVars
<1>4. ClosedByTracker'
  BY DEF RequestQuit, Inv, ClosedByTracker, coreVars
<1>5. CheckpointFollowsCore'
  BY DEF RequestQuit, Inv, CheckpointFollowsCore, coreVars
<1>6. AttemptsCounted'
  BY DEF RequestQuit, Inv, AttemptsCounted, fenceVars
<1> QED BY <1>1, <1>2, <1>3, <1>4, <1>5, <1>6 DEF Inv

LEMMA RequestQuitRetryKeepsInv ==
  ASSUME QuitAssumption, Inv, RequestQuitRetry
  PROVE  Inv'
<1>1. Typed'
  BY DEF RequestQuitRetry, Inv, Typed, fenceVars, coreVars
<1>2. CommandsQueued'
  BY DEF RequestQuitRetry, Inv, CommandsQueued, coreVars
<1>3. FenceFollowsTray'
  BY DEF RequestQuitRetry, Inv, FenceFollowsTray, fenceVars
<1>4. ClosedByTracker'
  BY DEF RequestQuitRetry, Inv, ClosedByTracker, coreVars
<1>5. CheckpointFollowsCore'
  BY DEF RequestQuitRetry, Inv, CheckpointFollowsCore, coreVars
<1>6. AttemptsCounted'
  BY DEF RequestQuitRetry, Inv, AttemptsCounted, fenceVars
<1> QED BY <1>1, <1>2, <1>3, <1>4, <1>5, <1>6 DEF Inv

LEMMA RequestCheckpointRetryKeepsInv ==
  ASSUME QuitAssumption, Inv, RequestCheckpointRetry
  PROVE  Inv'
<1>1. Typed'
  <2>1. saves' \in 0..MaxSaves
    BY Bounds DEF RequestCheckpointRetry, Inv, Typed, Checkpoints, ErrorCodes
  <2>2. tracker' \in [phase : Phases, committed : BOOLEAN, error : ErrorCodes,
                   checkpoint : Checkpoints, retry : BOOLEAN]
    BY Bounds DEF RequestCheckpointRetry, Inv, Typed, Checkpoints, ErrorCodes
  <2> QED BY <2>1, <2>2 DEF RequestCheckpointRetry, Inv, Typed, requestVars, fenceVars, coreVars
<1>2. CommandsQueued'
  BY DEF RequestCheckpointRetry, Inv, CommandsQueued, coreVars
<1>3. FenceFollowsTray'
  BY DEF RequestCheckpointRetry, Inv, FenceFollowsTray, fenceVars
<1>4. ClosedByTracker'
  BY DEF RequestCheckpointRetry, Inv, ClosedByTracker, coreVars
<1>5. CheckpointFollowsCore'
  BY DEF RequestCheckpointRetry, Inv, CheckpointFollowsCore, coreVars
<1>6. AttemptsCounted'
  BY DEF RequestCheckpointRetry, Inv, AttemptsCounted, fenceVars
<1> QED BY <1>1, <1>2, <1>3, <1>4, <1>5, <1>6 DEF Inv

LEMMA AdmitWorkKeepsInv ==
  ASSUME QuitAssumption, Inv, AdmitWork
  PROVE  Inv'
<1>1. Typed'
  BY DEF AdmitWork, Inv, Typed, requestVars, fenceVars, coreVars
<1>2. CommandsQueued'
  BY DEF AdmitWork, Inv, CommandsQueued, coreVars
<1>3. FenceFollowsTray'
  BY DEF AdmitWork, Inv, FenceFollowsTray, fenceVars
<1>4. ClosedByTracker'
  BY DEF AdmitWork, Inv, ClosedByTracker, coreVars
<1>5. CheckpointFollowsCore'
  BY DEF AdmitWork, Inv, Typed, CommandsQueued, ClosedByTracker, CheckpointFollowsCore, coreVars
<1>6. AttemptsCounted'
  BY DEF AdmitWork, Inv, AttemptsCounted, fenceVars
<1> QED BY <1>1, <1>2, <1>3, <1>4, <1>5, <1>6 DEF Inv

LEMMA EndWorkKeepsInv ==
  ASSUME QuitAssumption, Inv, EndWork
  PROVE  Inv'
<1>1. Typed'
  BY DEF EndWork, Inv, Typed, requestVars, fenceVars, coreVars
<1>2. CommandsQueued'
  BY DEF EndWork, Inv, CommandsQueued, coreVars
<1>3. FenceFollowsTray'
  BY DEF EndWork, Inv, FenceFollowsTray, fenceVars
<1>4. ClosedByTracker'
  BY DEF EndWork, Inv, ClosedByTracker, coreVars
<1>5. CheckpointFollowsCore'
  BY DEF EndWork, Inv, CheckpointFollowsCore, coreVars
<1>6. AttemptsCounted'
  BY DEF EndWork, Inv, AttemptsCounted, fenceVars
<1> QED BY <1>1, <1>2, <1>3, <1>4, <1>5, <1>6 DEF Inv

LEMMA BeginAttemptKeepsInv ==
  ASSUME QuitAssumption, Inv, BeginAttempt
  PROVE  Inv'
<1>a. \/ commands = <<>> /\ commands' = <<"begin">>
      \/ commands = <<"fail">> /\ commands' = <<"fail", "begin">>
  BY QueueSteps DEF BeginAttempt, Inv, CommandsQueued, Queues
<1>1. Typed'
  <2>1. quitRequested' \in BOOLEAN /\ retryRequested' \in BOOLEAN
    BY Bounds DEF BeginAttempt, Inv, Typed, TakeRequest
  <2>2. attempts' \in 0..MaxAttempts /\ attempts' = attempts + 1
    BY Bounds DEF BeginAttempt, Inv, Typed, TakeRequest
  <2> QED BY <2>1, <2>2 DEF BeginAttempt, Inv, Typed, fenceVars, coreVars
<1>2. CommandsQueued'
  BY <1>a, QueueSteps DEF BeginAttempt, Inv, CommandsQueued, Queues, coreVars
<1>3. FenceFollowsTray'
  <2>1. /\ tray = "running" /\ tray' = "fencing" /\ commands' # <<>>
        /\ UNCHANGED <<beginReply, writers, fenceReply, generation, stopping>>
    BY QueueSteps DEF BeginAttempt, Inv, CommandsQueued, fenceVars
  <2> QED BY <2>1 DEF Inv, FenceFollowsTray
<1>4. ClosedByTracker'
  BY <1>a, QueueSteps DEF BeginAttempt, Inv, ClosedByTracker, coreVars
<1>5. CheckpointFollowsCore'
  BY QueueSteps DEF BeginAttempt, Inv, CheckpointFollowsCore, coreVars
<1>6. AttemptsCounted'
  BY QueueSteps DEF BeginAttempt, Inv, Typed, AttemptsCounted, fenceVars
<1> QED BY <1>1, <1>2, <1>3, <1>4, <1>5, <1>6 DEF Inv

LEMMA JoinAttemptKeepsInv ==
  ASSUME QuitAssumption, Inv, JoinAttempt
  PROVE  Inv'
<1>1. Typed'
  <2>1. quitRequested' \in BOOLEAN /\ retryRequested' \in BOOLEAN
    BY Bounds DEF JoinAttempt, Inv, Typed, TakeRequest
  <2> QED BY <2>1 DEF JoinAttempt, Inv, Typed, fenceVars, coreVars
<1>2. CommandsQueued'
  BY DEF JoinAttempt, Inv, CommandsQueued, coreVars
<1>3. FenceFollowsTray'
  BY DEF JoinAttempt, Inv, FenceFollowsTray, fenceVars
<1>4. ClosedByTracker'
  BY DEF JoinAttempt, Inv, ClosedByTracker, coreVars
<1>5. CheckpointFollowsCore'
  BY DEF JoinAttempt, Inv, CheckpointFollowsCore, coreVars
<1>6. AttemptsCounted'
  BY DEF JoinAttempt, Inv, AttemptsCounted, fenceVars
<1> QED BY <1>1, <1>2, <1>3, <1>4, <1>5, <1>6 DEF Inv

LEMMA SelectQuitItemKeepsInv ==
  ASSUME QuitAssumption, Inv, SelectQuitItem
  PROVE  Inv'
<1>a. \/ commands = <<>> /\ commands' = <<"begin">>
      \/ commands = <<"fail">> /\ commands' = <<"fail", "begin">>
  BY QueueSteps DEF SelectQuitItem, Inv, CommandsQueued, Queues
<1>1. Typed'
  BY QueueSteps DEF SelectQuitItem, Inv, Typed, requestVars, fenceVars, coreVars
<1>2. CommandsQueued'
  BY <1>a, QueueSteps DEF SelectQuitItem, Inv, CommandsQueued, Queues, coreVars
<1>3. FenceFollowsTray'
  BY <1>a, QueueSteps DEF SelectQuitItem, Inv, FenceFollowsTray, fenceVars
<1>4. ClosedByTracker'
  BY <1>a, QueueSteps DEF SelectQuitItem, Inv, ClosedByTracker, coreVars
<1>5. CheckpointFollowsCore'
  BY QueueSteps DEF SelectQuitItem, Inv, CheckpointFollowsCore, coreVars
<1>6. AttemptsCounted'
  BY QueueSteps DEF SelectQuitItem, Inv, Typed, AttemptsCounted, fenceVars
<1> QED BY <1>1, <1>2, <1>3, <1>4, <1>5, <1>6 DEF Inv

LEMMA StartFenceWriteKeepsInv ==
  ASSUME QuitAssumption, Inv, StartFenceWrite
  PROVE  Inv'
<1>1. Typed'
  <2>1. writers' \in 0..MaxAttempts
    BY Bounds DEF StartFenceWrite, Inv, FenceFollowsTray
  <2>2. /\ UNCHANGED <<quitRequested, retryRequested, fenceReply, generation, closed, tracker,
                      checkpointRetry, core, save, saved, drained, overdue, work, attempts, saves>>
        /\ beginReply' = FALSE /\ stopping' = TRUE /\ tray' = "writing"
    BY DEF StartFenceWrite, requestVars, coreVars
  <2>3. /\ UNCHANGED <<quitRequested, retryRequested>> /\ quitRequested \in BOOLEAN
        /\ retryRequested \in BOOLEAN /\ beginReply' \in BOOLEAN /\ stopping' \in BOOLEAN
    BY <2>2 DEF Inv, Typed
  <2> QED BY <2>1, <2>2, <2>3 DEF Inv, Typed
<1>2. CommandsQueued'
  BY DEF StartFenceWrite, Inv, CommandsQueued, FenceFollowsTray, coreVars
<1>3. FenceFollowsTray'
  BY DEF StartFenceWrite, Inv, FenceFollowsTray
<1>4. ClosedByTracker'
  BY DEF StartFenceWrite, Inv, FenceFollowsTray, ClosedByTracker, coreVars
<1>5. CheckpointFollowsCore'
  BY DEF StartFenceWrite, Inv, CheckpointFollowsCore, coreVars
<1>6. AttemptsCounted'
  BY DEF StartFenceWrite, Inv, Typed, AttemptsCounted
<1> QED BY <1>1, <1>2, <1>3, <1>4, <1>5, <1>6 DEF Inv

LEMMA FenceWriteSucceedsKeepsInv ==
  ASSUME QuitAssumption, Inv, FenceWriteSucceeds
  PROVE  Inv'
<1>1. Typed'
  BY DEF FenceWriteSucceeds, Inv, Typed, requestVars, coreVars
<1>2. CommandsQueued'
  BY DEF FenceWriteSucceeds, Inv, CommandsQueued, coreVars
<1>3. FenceFollowsTray'
  BY DEF FenceWriteSucceeds, Inv, Typed, FenceFollowsTray
<1>4. ClosedByTracker'
  BY DEF FenceWriteSucceeds, Inv, ClosedByTracker, coreVars
<1>5. CheckpointFollowsCore'
  BY DEF FenceWriteSucceeds, Inv, CheckpointFollowsCore, coreVars
<1>6. AttemptsCounted'
  BY DEF FenceWriteSucceeds, Inv, FenceFollowsTray, AttemptsCounted
<1> QED BY <1>1, <1>2, <1>3, <1>4, <1>5, <1>6 DEF Inv

LEMMA FenceWriteFailsKeepsInv ==
  ASSUME QuitAssumption, Inv, FenceWriteFails
  PROVE  Inv'
<1>1. Typed'
  <2>1. writers' \in 0..MaxAttempts /\ generation' \in Nat
    BY Bounds DEF FenceWriteFails, Inv, Typed
  <2> QED BY <2>1 DEF FenceWriteFails, Inv, Typed, requestVars, coreVars
<1>2. CommandsQueued'
  BY DEF FenceWriteFails, Inv, CommandsQueued, coreVars
<1>3. FenceFollowsTray'
  BY DEF FenceWriteFails, Inv, FenceFollowsTray
<1>4. ClosedByTracker'
  BY DEF FenceWriteFails, Inv, ClosedByTracker, coreVars
<1>5. CheckpointFollowsCore'
  BY DEF FenceWriteFails, Inv, CheckpointFollowsCore, coreVars
<1>6. AttemptsCounted'
  <2>1. writers \in Nat /\ writers > 0 /\ writers' = writers - 1
    BY Bounds DEF FenceWriteFails, Inv, Typed
  <2>2. generation' = generation \/ generation' = generation + 1
    BY DEF FenceWriteFails
  <2>3. generation \in Nat /\ attempts \in Nat /\ UNCHANGED <<tray, attempts>>
    BY DEF FenceWriteFails, Inv, Typed
  <2> QED BY <2>1, <2>2, <2>3 DEF Inv, AttemptsCounted
<1> QED BY <1>1, <1>2, <1>3, <1>4, <1>5, <1>6 DEF Inv

LEMMA CommitAttemptKeepsInv ==
  ASSUME QuitAssumption, Inv, CommitAttempt
  PROVE  Inv'
<1>1. Typed'
  BY QueueSteps DEF CommitAttempt, Inv, Typed, requestVars, coreVars
<1>2. CommandsQueued'
  BY QueueSteps DEF CommitAttempt, Inv, CommandsQueued, Queues, coreVars
<1>3. FenceFollowsTray'
  BY QueueSteps DEF CommitAttempt, Inv, FenceFollowsTray
<1>4. ClosedByTracker'
  BY QueueSteps DEF CommitAttempt, Inv, ClosedByTracker, coreVars
<1>5. CheckpointFollowsCore'
  BY QueueSteps DEF CommitAttempt, Inv, CheckpointFollowsCore, coreVars
<1>6. AttemptsCounted'
  BY QueueSteps DEF CommitAttempt, Inv, AttemptsCounted
<1> QED BY <1>1, <1>2, <1>3, <1>4, <1>5, <1>6 DEF Inv

LEMMA FailAttemptKeepsInv ==
  ASSUME QuitAssumption, Inv, FailAttempt
  PROVE  Inv'
<1>1. Typed'
  BY QueueSteps DEF QuitAssumption, FailAttempt, Inv, Typed, CommandsQueued, FenceFollowsTray,
       ClosedByTracker, CheckpointFollowsCore, AttemptsCounted, Queues, Phases, ErrorCodes,
       Checkpoints, NoTracker, requestVars, fenceVars, coreVars
<1>2. CommandsQueued'
  BY QueueSteps DEF FailAttempt, Inv, CommandsQueued, Queues, coreVars
<1>3. FenceFollowsTray'
  BY QueueSteps DEF FailAttempt, Inv, FenceFollowsTray
<1>4. ClosedByTracker'
  BY QueueSteps DEF FailAttempt, Inv, ClosedByTracker, coreVars
<1>5. CheckpointFollowsCore'
  BY QueueSteps DEF FailAttempt, Inv, CheckpointFollowsCore, coreVars
<1>6. AttemptsCounted'
  BY QueueSteps DEF FailAttempt, Inv, AttemptsCounted
<1> QED BY <1>1, <1>2, <1>3, <1>4, <1>5, <1>6 DEF Inv

LEMMA ExitProcessKeepsInv ==
  ASSUME QuitAssumption, Inv, ExitProcess
  PROVE  Inv'
<1>1. Typed'
  BY DEF ExitProcess, Inv, Typed, requestVars, fenceVars, coreVars
<1>2. CommandsQueued'
  BY DEF ExitProcess, Inv, CommandsQueued, coreVars
<1>3. FenceFollowsTray'
  BY DEF ExitProcess, Inv, FenceFollowsTray, fenceVars
<1>4. ClosedByTracker'
  BY DEF ExitProcess, Inv, ClosedByTracker, coreVars
<1>5. CheckpointFollowsCore'
  BY DEF ExitProcess, Inv, CheckpointFollowsCore, coreVars
<1>6. AttemptsCounted'
  BY DEF ExitProcess, Inv, AttemptsCounted, fenceVars
<1> QED BY <1>1, <1>2, <1>3, <1>4, <1>5, <1>6 DEF Inv

LEMMA CoreBeginKeepsInv ==
  ASSUME QuitAssumption, Inv, CoreBegin
  PROVE  Inv'
<1>a. commands = <<"begin">> /\ commands' = <<>> /\ tray = "fencing"
  <2>1. Receives("begin") /\ commands \in Queues
    BY DEF CoreBegin, Inv, CommandsQueued
  <2> QED BY <2>1, ReceivesInOrder, QueueSteps DEF Inv, Typed, CommandsQueued
<1>1. Typed'
  BY <1>a, QueueSteps DEF QuitAssumption, CoreBegin, Receives, Inv, Typed, CommandsQueued,
       FenceFollowsTray, ClosedByTracker, CheckpointFollowsCore, AttemptsCounted, Queues,
       Phases, ErrorCodes, Checkpoints, NoTracker, requestVars, fenceVars, coreVars
<1>2. CommandsQueued'
  BY <1>a, QueueSteps DEF CoreBegin, Receives, CommandsQueued, Queues, coreVars
<1>3. FenceFollowsTray'
  BY <1>a, QueueSteps DEF CoreBegin, Inv, FenceFollowsTray
<1>4. ClosedByTracker'
  BY <1>a, QueueSteps DEF CoreBegin, Receives, Inv, ClosedByTracker, NoTracker, coreVars
<1>5. CheckpointFollowsCore'
  BY <1>a, QueueSteps DEF CoreBegin, Receives, Inv, CheckpointFollowsCore, NoTracker, coreVars
<1>6. AttemptsCounted'
  BY <1>a, QueueSteps DEF CoreBegin, Inv, AttemptsCounted
<1> QED BY <1>1, <1>2, <1>3, <1>4, <1>5, <1>6 DEF Inv

LEMMA CoreFailKeepsInv ==
  ASSUME QuitAssumption, Inv, CoreFail
  PROVE  Inv'
<1>a. \/ commands = <<"fail">> /\ commands' = <<>> /\ tray = "running"
      \/ commands = <<"fail", "begin">> /\ commands' = <<"begin">> /\ tray = "fencing"
  <2>1. Receives("fail") /\ commands \in Queues
    BY DEF CoreFail, Inv, CommandsQueued
  <2> QED BY <2>1, ReceivesInOrder, QueueSteps DEF Inv, Typed, CommandsQueued
<1>1. Typed'
  BY <1>a, QueueSteps DEF QuitAssumption, CoreFail, Receives, Inv, Typed, CommandsQueued,
       FenceFollowsTray, ClosedByTracker, CheckpointFollowsCore, AttemptsCounted, Queues,
       Phases, ErrorCodes, Checkpoints, NoTracker, requestVars, fenceVars, coreVars
<1>2. CommandsQueued'
  BY <1>a, QueueSteps DEF CoreFail, Receives, CommandsQueued, Queues, coreVars
<1>3. FenceFollowsTray'
  BY <1>a, QueueSteps DEF QuitAssumption, CoreFail, Inv, Typed, FenceFollowsTray,
       ClosedByTracker, CheckpointFollowsCore, AttemptsCounted, Phases, ErrorCodes,
       requestVars, fenceVars, coreVars
<1>4. ClosedByTracker'
  BY <1>a, QueueSteps DEF QuitAssumption, CoreFail, Receives, Inv, Typed, CommandsQueued,
       FenceFollowsTray, ClosedByTracker, CheckpointFollowsCore, AttemptsCounted, Queues,
       Phases, ErrorCodes, Checkpoints, NoTracker, requestVars, fenceVars, coreVars
<1>5. CheckpointFollowsCore'
  BY <1>a, QueueSteps DEF QuitAssumption, CoreFail, Receives, Inv, Typed, CommandsQueued,
       FenceFollowsTray, ClosedByTracker, CheckpointFollowsCore, AttemptsCounted, Queues,
       Phases, ErrorCodes, Checkpoints, NoTracker, requestVars, fenceVars, coreVars
<1>6. AttemptsCounted'
  BY <1>a, QueueSteps DEF CoreFail, Inv, AttemptsCounted, fenceVars
<1> QED BY <1>1, <1>2, <1>3, <1>4, <1>5, <1>6 DEF Inv

LEMMA CoreCommitKeepsInv ==
  ASSUME QuitAssumption, Inv, CoreCommit
  PROVE  Inv'
<1>a. commands = <<"commit">> /\ commands' = <<>> /\ tray = "quitting"
  <2>1. Receives("commit") /\ commands \in Queues
    BY DEF CoreCommit, Inv, CommandsQueued
  <2> QED BY <2>1, ReceivesInOrder, QueueSteps DEF Inv, Typed, CommandsQueued
<1>1. Typed'
  BY <1>a, QueueSteps DEF CoreCommit, Inv, Typed, Checkpoints, requestVars, fenceVars
<1>2. CommandsQueued'
  BY <1>a, QueueSteps DEF CoreCommit, CommandsQueued, Queues
<1>3. FenceFollowsTray'
  BY <1>a, QueueSteps DEF CoreCommit, Inv, FenceFollowsTray, fenceVars
<1>4. ClosedByTracker'
  BY <1>a, QueueSteps DEF CoreCommit, Receives, Inv, ClosedByTracker
<1>5. CheckpointFollowsCore'
  BY <1>a, QueueSteps DEF CoreCommit, Receives, Inv, CheckpointFollowsCore
<1>6. AttemptsCounted'
  BY <1>a, QueueSteps DEF CoreCommit, Inv, AttemptsCounted, fenceVars
<1> QED BY <1>1, <1>2, <1>3, <1>4, <1>5, <1>6 DEF Inv

LEMMA CommitShutdownKeepsInv ==
  ASSUME QuitAssumption, Inv, CommitShutdown
  PROVE  Inv'
<1>1. Typed'
  BY DEF QuitAssumption, CommitShutdown, Inv, Typed, CommandsQueued, FenceFollowsTray,
       ClosedByTracker, CheckpointFollowsCore, AttemptsCounted, Queues, Phases, ErrorCodes,
       Checkpoints, NoTracker, requestVars, fenceVars, coreVars
<1>2. CommandsQueued'
  BY DEF CommitShutdown, Inv, CommandsQueued
<1>3. FenceFollowsTray'
  BY DEF CommitShutdown, Inv, FenceFollowsTray, fenceVars
<1>4. ClosedByTracker'
  BY DEF CommitShutdown, Inv, Typed, CommandsQueued, ClosedByTracker
<1>5. CheckpointFollowsCore'
  BY DEF CommitShutdown, Inv, CheckpointFollowsCore
<1>6. AttemptsCounted'
  BY DEF CommitShutdown, Inv, AttemptsCounted, fenceVars
<1> QED BY <1>1, <1>2, <1>3, <1>4, <1>5, <1>6 DEF Inv

LEMMA AnswerSaveKeepsInv ==
  ASSUME QuitAssumption, Inv, AnswerSave
  PROVE  Inv'
<1>1. Typed'
  BY DEF AnswerSave, Inv, Typed, requestVars, fenceVars
<1>2. CommandsQueued'
  BY DEF AnswerSave, Inv, CommandsQueued
<1>3. FenceFollowsTray'
  BY DEF AnswerSave, Inv, FenceFollowsTray, fenceVars
<1>4. ClosedByTracker'
  BY DEF AnswerSave, Inv, ClosedByTracker
<1>5. CheckpointFollowsCore'
  BY DEF AnswerSave, Inv, CheckpointFollowsCore
<1>6. AttemptsCounted'
  BY DEF AnswerSave, Inv, AttemptsCounted, fenceVars
<1> QED BY <1>1, <1>2, <1>3, <1>4, <1>5, <1>6 DEF Inv

LEMMA ReceiveSaveKeepsInv ==
  ASSUME QuitAssumption, Inv, ReceiveSave
  PROVE  Inv'
<1>1. Typed'
  BY DEF QuitAssumption, ReceiveSave, SaveSucceeded, SaveFailed, Inv, Typed, CommandsQueued,
       FenceFollowsTray, ClosedByTracker, CheckpointFollowsCore, AttemptsCounted, Queues,
       Phases, ErrorCodes, Checkpoints, NoTracker, requestVars, fenceVars, coreVars
<1>2. CommandsQueued'
  BY DEF ReceiveSave, Inv, CommandsQueued
<1>3. FenceFollowsTray'
  BY DEF ReceiveSave, Inv, FenceFollowsTray, fenceVars
<1>4. ClosedByTracker'
  BY DEF ReceiveSave, SaveSucceeded, SaveFailed, Inv, ClosedByTracker
<1>5. CheckpointFollowsCore'
  BY DEF ReceiveSave, SaveSucceeded, SaveFailed, Inv, Typed, ClosedByTracker, CheckpointFollowsCore
<1>6. AttemptsCounted'
  BY DEF ReceiveSave, Inv, AttemptsCounted, fenceVars
<1> QED BY <1>1, <1>2, <1>3, <1>4, <1>5, <1>6 DEF Inv

LEMMA TakeCheckpointRetryKeepsInv ==
  ASSUME QuitAssumption, Inv, TakeCheckpointRetry
  PROVE  Inv'
<1>1. Typed'
  BY DEF QuitAssumption, TakeCheckpointRetry, SaveFailed, Inv, Typed, CommandsQueued,
       FenceFollowsTray, ClosedByTracker, CheckpointFollowsCore, AttemptsCounted, Queues,
       Phases, ErrorCodes, Checkpoints, NoTracker, requestVars, fenceVars, coreVars
<1>2. CommandsQueued'
  BY DEF TakeCheckpointRetry, Inv, CommandsQueued
<1>3. FenceFollowsTray'
  BY DEF TakeCheckpointRetry, Inv, FenceFollowsTray, fenceVars
<1>4. ClosedByTracker'
  BY DEF QuitAssumption, TakeCheckpointRetry, SaveFailed, Inv, Typed, CommandsQueued,
       FenceFollowsTray, ClosedByTracker, CheckpointFollowsCore, AttemptsCounted, Queues,
       Phases, ErrorCodes, Checkpoints, NoTracker, requestVars, fenceVars, coreVars
<1>5. CheckpointFollowsCore'
  BY DEF QuitAssumption, TakeCheckpointRetry, SaveFailed, Inv, Typed, CommandsQueued,
       FenceFollowsTray, ClosedByTracker, CheckpointFollowsCore, AttemptsCounted, Queues,
       Phases, ErrorCodes, Checkpoints, NoTracker, requestVars, fenceVars, coreVars
<1>6. AttemptsCounted'
  BY DEF TakeCheckpointRetry, Inv, AttemptsCounted, fenceVars
<1> QED BY <1>1, <1>2, <1>3, <1>4, <1>5, <1>6 DEF Inv

LEMMA DrainKeepsInv ==
  ASSUME QuitAssumption, Inv, Drain
  PROVE  Inv'
<1>1. Typed'
  BY DEF Drain, Inv, Typed, Phases, requestVars, fenceVars
<1>2. CommandsQueued'
  BY DEF Drain, Inv, CommandsQueued
<1>3. FenceFollowsTray'
  BY DEF Drain, Inv, FenceFollowsTray, fenceVars
<1>4. ClosedByTracker'
  BY DEF Drain, Inv, Typed, CommandsQueued, ClosedByTracker
<1>5. CheckpointFollowsCore'
  BY DEF Drain, Inv, CheckpointFollowsCore
<1>6. AttemptsCounted'
  BY DEF Drain, Inv, AttemptsCounted, fenceVars
<1> QED BY <1>1, <1>2, <1>3, <1>4, <1>5, <1>6 DEF Inv

LEMMA PassDeadlineKeepsInv ==
  ASSUME QuitAssumption, Inv, PassDeadline
  PROVE  Inv'
<1>1. Typed'
  BY DEF PassDeadline, Inv, Typed, requestVars, fenceVars
<1>2. CommandsQueued'
  BY DEF PassDeadline, Inv, CommandsQueued
<1>3. FenceFollowsTray'
  BY DEF PassDeadline, Inv, FenceFollowsTray, fenceVars
<1>4. ClosedByTracker'
  BY DEF PassDeadline, Inv, ClosedByTracker
<1>5. CheckpointFollowsCore'
  BY DEF PassDeadline, Inv, CheckpointFollowsCore
<1>6. AttemptsCounted'
  BY DEF PassDeadline, Inv, AttemptsCounted, fenceVars
<1> QED BY <1>1, <1>2, <1>3, <1>4, <1>5, <1>6 DEF Inv

LEMMA ReportDelayKeepsInv ==
  ASSUME QuitAssumption, Inv, ReportDelay
  PROVE  Inv'
<1>1. Typed'
  BY DEF QuitAssumption, ReportDelay, Undrained, Inv, Typed, CommandsQueued, FenceFollowsTray,
       ClosedByTracker, CheckpointFollowsCore, AttemptsCounted, Queues, Phases, ErrorCodes,
       Checkpoints, NoTracker, requestVars, fenceVars, coreVars
<1>2. CommandsQueued'
  BY DEF ReportDelay, Inv, CommandsQueued, coreVars
<1>3. FenceFollowsTray'
  BY DEF ReportDelay, Inv, FenceFollowsTray, fenceVars
<1>4. ClosedByTracker'
  BY DEF ReportDelay, Inv, Typed, CommandsQueued, ClosedByTracker, coreVars
<1>5. CheckpointFollowsCore'
  BY DEF ReportDelay, Inv, CheckpointFollowsCore, coreVars
<1>6. AttemptsCounted'
  BY DEF ReportDelay, Inv, AttemptsCounted, fenceVars
<1> QED BY <1>1, <1>2, <1>3, <1>4, <1>5, <1>6 DEF Inv

LEMMA FinishTeardownKeepsInv ==
  ASSUME QuitAssumption, Inv, FinishTeardown
  PROVE  Inv'
<1>1. Typed'
  BY DEF QuitAssumption, FinishTeardown, Inv, Typed, CommandsQueued, FenceFollowsTray,
       ClosedByTracker, CheckpointFollowsCore, AttemptsCounted, Queues, Phases, ErrorCodes,
       Checkpoints, NoTracker, requestVars, fenceVars, coreVars
<1>2. CommandsQueued'
  BY DEF FinishTeardown, Inv, CommandsQueued
<1>3. FenceFollowsTray'
  BY DEF FinishTeardown, Inv, FenceFollowsTray, fenceVars
<1>4. ClosedByTracker'
  BY DEF QuitAssumption, FinishTeardown, Inv, Typed, CommandsQueued, FenceFollowsTray,
       ClosedByTracker, CheckpointFollowsCore, AttemptsCounted, Queues, Phases, ErrorCodes,
       Checkpoints, NoTracker, requestVars, fenceVars, coreVars
<1>5. CheckpointFollowsCore'
  BY DEF QuitAssumption, FinishTeardown, Inv, Typed, CommandsQueued, FenceFollowsTray,
       ClosedByTracker, CheckpointFollowsCore, AttemptsCounted, Queues, Phases, ErrorCodes,
       Checkpoints, NoTracker, requestVars, fenceVars, coreVars
<1>6. AttemptsCounted'
  BY DEF FinishTeardown, Inv, AttemptsCounted, fenceVars
<1> QED BY <1>1, <1>2, <1>3, <1>4, <1>5, <1>6 DEF Inv

LEMMA InitHasInv ==
  ASSUME QuitAssumption, QuitInit
  PROVE  Inv
<1>1. Typed
  <2>1. tracker \in [phase : Phases, committed : BOOLEAN, error : ErrorCodes,
                     checkpoint : Checkpoints, retry : BOOLEAN]
    BY DEF QuitInit, NoTracker, Phases, ErrorCodes, Checkpoints
  <2>2. 0 \in 0..MaxAttempts /\ 0 \in 0..MaxSaves /\ 0 \in 0..MaxWork
    BY Bounds
  <2> QED BY <2>1, <2>2 DEF QuitInit, Typed
<1>2. CommandsQueued
  BY DEF QuitInit, CommandsQueued, Queues
<1>3. FenceFollowsTray /\ AttemptsCounted
  BY DEF QuitInit, FenceFollowsTray, AttemptsCounted
<1>4. ClosedByTracker /\ CheckpointFollowsCore
  BY DEF QuitInit, ClosedByTracker, CheckpointFollowsCore, NoTracker
<1> QED BY <1>1, <1>2, <1>3, <1>4 DEF Inv

\* Inv holds in every state: one step for each action.
THEOREM QuitInvariant == QuitSpec => []Inv
<1>1. QuitInit => Inv
  BY InitHasInv, QuitAssumption
<1>2. Inv /\ [QuitNext]_vars => Inv'
  <2> SUFFICES ASSUME Inv, [QuitNext]_vars
               PROVE  Inv'
    OBVIOUS
  <2>1. CASE ClientNext
    BY <2>1, QuitAssumption, RequestQuitKeepsInv, RequestQuitRetryKeepsInv,
       RequestCheckpointRetryKeepsInv, AdmitWorkKeepsInv, SelectQuitItemKeepsInv,
       PassDeadlineKeepsInv DEF ClientNext
  <2>2. CASE TrayNext
    BY <2>2, QuitAssumption, BeginAttemptKeepsInv, JoinAttemptKeepsInv, StartFenceWriteKeepsInv,
       CommitAttemptKeepsInv, FailAttemptKeepsInv, ExitProcessKeepsInv DEF TrayNext
  <2>3. CASE WriterNext
    BY <2>3, QuitAssumption, FenceWriteSucceedsKeepsInv, FenceWriteFailsKeepsInv DEF WriterNext
  <2>4. CASE CoreNext
    BY <2>4, QuitAssumption, CoreBeginKeepsInv, CoreFailKeepsInv, CoreCommitKeepsInv,
       CommitShutdownKeepsInv DEF CoreNext
  <2>5. CASE SaveNext
    BY <2>5, QuitAssumption, AnswerSaveKeepsInv, ReceiveSaveKeepsInv, TakeCheckpointRetryKeepsInv
       DEF SaveNext
  <2>6. CASE DrainNext
    BY <2>6, QuitAssumption, DrainKeepsInv, FinishTeardownKeepsInv DEF DrainNext
  <2>7. CASE ReportDelay \/ EndWork
    BY <2>7, QuitAssumption, ReportDelayKeepsInv, EndWorkKeepsInv
  <2>8. CASE UNCHANGED vars
    BY <2>8 DEF Inv, Typed, CommandsQueued, FenceFollowsTray, AttemptsCounted, ClosedByTracker,
       CheckpointFollowsCore, vars, requestVars, fenceVars, coreVars
  <2> QED BY <2>1, <2>2, <2>3, <2>4, <2>5, <2>6, <2>7, <2>8 DEF QuitNext
<1> QED BY <1>1, <1>2, PTL DEF QuitSpec

\* Every variable keeps its type, and the channel never holds more than two commands.
THEOREM QuitTypes == QuitSpec => []QuitTypeOK
<1>1. ASSUME Inv
      PROVE  QuitTypeOK
  <2>1. commands \in Seq({"begin", "fail", "commit"}) /\ Len(commands) <= 2
    <3>1. CASE commands = <<>>
      BY <3>1
    <3>2. CASE commands = <<"begin">>
      BY <3>2
    <3>3. CASE commands = <<"fail">>
      BY <3>3
    <3>4. CASE commands = <<"commit">>
      BY <3>4
    <3>5. CASE commands = <<"fail", "begin">>
      BY <3>5
    <3> QED BY <1>1, <3>1, <3>2, <3>3, <3>4, <3>5 DEF Inv, CommandsQueued, Queues
  <2>2. generation \in 0..MaxAttempts
    BY <1>1, QuitAssumption, Bounds DEF Inv, Typed, AttemptsCounted
  <2> QED BY <1>1, <2>1, <2>2 DEF Inv, Typed, QuitTypeOK
<1> QED BY <1>1, QuitInvariant, PTL

\* Quit is committed only behind a fence that is on disk and that nobody still writes
\* (request_quit_retry, advance_launch_generation, commit_shutdown).
THEOREM QuitIsCommittedBehindFence == QuitSpec => []CommittedBehindFence
<1>1. Inv => CommittedBehindFence
  BY DEF Inv, Typed, CommandsQueued, FenceFollowsTray, ClosedByTracker, CommittedBehindFence,
     OneFenceWrite
<1> QED BY <1>1, QuitInvariant, PTL

\* A failed attempt leaves a daemon that answers and admits (fail_shutdown_fence).
THEOREM FailedQuitLeavesAWorkingDaemon == QuitSpec => []FailedQuitReopens
<1>1. Inv => FailedQuitReopens
  BY DEF Inv, Typed, FenceFollowsTray, ClosedByTracker, FailedQuitReopens
<1> QED BY <1>1, QuitInvariant, PTL

\* A checkpoint the exit waits for is served or shown as failed
\* (request_checkpoint_retry, finish_session_checkpoint).
THEOREM CheckpointIsNeverForgotten == QuitSpec => []CheckpointIsAttended
<1>1. Inv => CheckpointIsAttended
  BY DEF Inv, CheckpointFollowsCore, CheckpointIsAttended, CheckpointFailureIsVisible,
     PendingCheckpointIsServed
<1> QED BY <1>1, QuitInvariant, PTL

\* The process exits with the session saved and no admitted work left
\* (wait_for_shutdown_drain).
THEOREM ExitLeavesNothingBehind == QuitSpec => []ExitIsClean
<1>1. Inv => ExitIsClean
  BY DEF Inv, CommandsQueued, CheckpointFollowsCore, ExitIsClean
<1> QED BY <1>1, QuitInvariant, PTL
=============================================================================
