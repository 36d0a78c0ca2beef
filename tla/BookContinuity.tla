---------------------------- MODULE BookContinuity ----------------------------
(***************************************************************************)
(* How far a book has been heard, as its server is told                    *)
(* (playback/book_progress.rs, with the handlers of playback/session.rs    *)
(* and the rows of playback/persistence.rs).                               *)
(* A book is a queue of parts. The owner of the session plays, pauses,     *)
(* seeks, stops and completes them; a row binds the part that plays to its *)
(* place in the whole book. The reporter, a task of its own, looks at the  *)
(* owner every two seconds and computes what to write in many steps, with  *)
(* two awaits; before it writes it looks at the owner and the row again.   *)
(* The server may fail, answer nothing, or no longer know the book.        *)
(* Positions are seconds, and as exact as the durations; the database does *)
(* not fail; the step back to an earlier part, the wait of a step back for *)
(* its audio, previews and changes of the queue other than another start   *)
(* of the book are left out.                                               *)
(***************************************************************************)
EXTENDS Naturals, FiniteSets

CONSTANTS
  Parts,        \* the parts of the book are 1 .. Parts
  Length,       \* of each of them
  MaxStarts,    \* bound on how often the book, or a part of it, is started
  MaxCommands,  \* bound on the commands and the ends of the daemon
  MaxFailures   \* bound on failures of the audio and of the server

ASSUME BookAssumption ==
  /\ Parts \in Nat \ {0} /\ Length \in Nat \ {0}
  /\ MaxStarts \in Nat /\ MaxCommands \in Nat /\ MaxFailures \in Nat

VARIABLES
  own,      \* the owner: occurrence, position, status, epoch, attempt
  closed,   \* the outcome of the last closed attempt of each part
  row,      \* playback_book_continuity
  rep,      \* the reporter
  last,     \* last_sent
  remote,   \* the progress the server has
  starts, failures,
  heard,    \* history: the positions of the book heard since it was started
  latest,   \* history: the last of them
  earned,   \* history: the last part was heard to its end since the start
  leftover, \* history: something was heard although the mark of a stop was still there
  stoppedAt,\* history: the place where a stop cut off what was heard
  doubt     \* history: a write was applied and its answer lost since the last answer

ownerHistory == <<heard, latest, earned, leftover, stoppedAt>>
playVars == <<own, closed, row, starts, ownerHistory>>
bookVars == <<playVars, rep, last, remote, doubt, failures>>

----------------------------------------------------------------------------
(* BookMap.                                                                *)

Duration == Parts * Length
Offset(p) == (p - 1) * Length

\* Slip: a boundary belongs to the part that ends there.
PartBefore(whole) == Cardinality({p \in 1..Parts : p = 1 \/ Offset(p) < whole})

\* A boundary belongs to the part that begins there.
PartAt(whole) == Cardinality({p \in 1..Parts : Offset(p) <= whole})

\* decide_resume. No progress is a progress of zero; a finished book starts again.
Usable(r) == r.fin \/ r.pos < Duration
ResumeAt(r) == IF r.fin \/ ~Usable(r) THEN 0 ELSE r.pos

----------------------------------------------------------------------------
(* Rows and states.                                                        *)

NoSeek == Length + 1
NoPlace == Duration + 1
Unbound == [part |-> 0, whole |-> 0, valid |-> FALSE, flush |-> FALSE]
Bound(p, whole) == [part |-> p, whole |-> whole, valid |-> TRUE, flush |-> FALSE]
Quiet == [pc |-> "idle", start |-> 0, part |-> 0, epoch |-> 0, kind |-> "none",
          pos |-> 0, fin |-> FALSE]
NotSent == [start |-> 0, part |-> 0, pos |-> 0, fin |-> FALSE]
Nothing == [part |-> 1, last |-> 1, pos |-> 0, status |-> "Idle", ready |-> FALSE,
            seek |-> NoSeek, plays |-> FALSE, epoch |-> 0, attempt |-> FALSE]

Whole(o) == Offset(o.part) + o.pos
Playing == own.status \in {"Active", "Loading"}

BookInit ==
  /\ own = Nothing /\ closed = [p \in 1..Parts |-> "none"] /\ row = Unbound
  /\ rep = Quiet /\ last = NotSent
  /\ remote \in [pos : 0..Duration, fin : {FALSE}]
  /\ starts = 0 /\ failures = 0
  /\ heard = {} /\ latest = 0 /\ earned = FALSE /\ leftover = FALSE /\ doubt = FALSE
  /\ stoppedAt = NoPlace

\* Slip: the mark of a stop is not looked at.
RecordedAlways(r, whole) == IF r.part = 0 THEN r ELSE [r EXCEPT !.whole = whole]

\* checkpoint_playback_position: the place of a stop stays until it is resumed.
Recorded(r, whole) == IF r.part = 0 \/ r.flush THEN r ELSE [r EXCEPT !.whole = whole]
\* mark_book_stop_flush.
Marked(r, whole) == IF r.valid THEN [r EXCEPT !.whole = whole, !.flush = TRUE] ELSE r

Command == own.status # "Idle" /\ own.epoch < MaxCommands
Hears(o) == heard' = heard \cup {Whole(o)} /\ latest' = Whole(o)
Unheard == UNCHANGED <<heard, latest>>
reporterVars == <<rep, last, remote, doubt>>

----------------------------------------------------------------------------
(* Starts.                                                                 *)

Start(part, end, pos, bound) ==
  /\ starts < MaxStarts /\ own.epoch < MaxCommands
  /\ starts' = starts + 1
  /\ own' = [Nothing EXCEPT !.part = part, !.last = end, !.pos = pos, !.status = "Loading",
                            !.epoch = own.epoch + 1, !.attempt = TRUE]
  /\ closed' = [p \in 1..Parts |-> "none"] /\ row' = bound
  /\ heard' = {} /\ latest' = Offset(part) + pos /\ earned' = FALSE /\ leftover' = FALSE
  /\ stoppedAt' = NoPlace
  /\ UNCHANGED reporterVars

\* play_album: at the place the server has. If that is not usable, nothing is bound.
StartBook ==
  LET whole == ResumeAt(remote)
      part == PartAt(whole)
  IN /\ Start(part, Parts, whole - Offset(part),
              IF Usable(remote) THEN Bound(part, whole) ELSE Unbound)
     /\ UNCHANGED failures
\* play_track.
StartPart == (\E p \in 1..Parts : Start(p, p, 0, Bound(p, Offset(p)))) /\ UNCHANGED failures
\* Either is played all the same when the server does not answer in time, and is not reported.
StartUnbound ==
  /\ failures < MaxFailures /\ failures' = failures + 1
  /\ Start(1, Parts, 0, Unbound) \/ \E p \in 1..Parts : Start(p, p, 0, Unbound)

----------------------------------------------------------------------------
(* Audio.                                                                  *)

\* Qualified and Active. A restored end is a beginning.
Activate ==
  /\ own.status = "Loading" /\ own.seek = NoSeek
  /\ own' = [own EXCEPT !.status = "Active", !.ready = TRUE, !.pos = IF @ = Length THEN 0 ELSE @]
  /\ Hears(own') /\ leftover' = (leftover \/ row.flush) /\ stoppedAt' = NoPlace
  /\ UNCHANGED <<closed, row, starts, earned, reporterVars, failures>>

More == own.pos < Length
\* A sample of the position. The checkpoint follows at once: what it records matters only to
\* a stop, which makes one of its own.
Listen ==
  /\ own.status = "Active" /\ More
  /\ own' = [own EXCEPT !.pos = @ + 1]
  /\ row' = Recorded(row, Whole(own'))
  /\ Hears(own')
  /\ UNCHANGED <<closed, starts, earned, leftover, stoppedAt, reporterVars, failures>>

\* commit_terminal with a successor, and the row of it: planned_book_successor.
Advance(outcome, status) ==
  /\ own' = [own EXCEPT !.part = @ + 1, !.pos = 0, !.status = status, !.ready = FALSE,
                        !.seek = NoSeek, !.epoch = @ + 1, !.attempt = TRUE]
  /\ row' = IF outcome = "natural" /\ row.valid /\ own.last = Parts
            THEN Bound(own.part + 1, Offset(own.part + 1)) ELSE Unbound

\* complete_occurrence. Without an open attempt the outcome cannot be written, and the plan
\* for it is kept: only a stop drops it.
Complete ==
  /\ own.status = "Active" /\ own.pos = Length
  /\ closed' = IF own.attempt THEN [closed EXCEPT ![own.part] = "natural"] ELSE closed
  /\ \/ /\ ~own.attempt /\ own.epoch < MaxCommands
        /\ own' = [own EXCEPT !.status = "Kept", !.epoch = @ + 1] /\ UNCHANGED row
     \/ /\ own.attempt /\ own.part < own.last /\ own.epoch < MaxCommands
        /\ Advance("natural", "Loading")
     \/ /\ own.attempt /\ own.part = own.last
        /\ own' = [own EXCEPT !.status = "Completed", !.attempt = FALSE] /\ UNCHANGED row
  /\ earned' = (earned \/ own.part = Parts)
  /\ UNCHANGED <<starts, heard, latest, leftover, stoppedAt, reporterVars, failures>>

\* A technical failure ends the attempt, if there is one.
Fail ==
  /\ Playing /\ own.seek = NoSeek
  /\ failures < MaxFailures /\ failures' = failures + 1
  /\ \/ /\ own.attempt
        /\ own' = [own EXCEPT !.status = "Error", !.attempt = FALSE]
        /\ closed' = [closed EXCEPT ![own.part] = "failure"]
     \/ /\ ~own.attempt /\ own.epoch < MaxCommands
        /\ own' = [own EXCEPT !.status = "Kept", !.epoch = @ + 1] /\ UNCHANGED closed
  /\ UNCHANGED <<row, starts, ownerHistory, reporterVars>>

SeekCommits ==
  /\ own.seek # NoSeek
  /\ own' = [own EXCEPT !.pos = own.seek, !.seek = NoSeek,
                        !.status = IF own.plays THEN "Active" ELSE "Paused"]
  /\ row' = Recorded(row, Whole(own'))
  /\ IF own.plays THEN Hears(own') ELSE Unheard
  /\ leftover' = (leftover \/ (own.plays /\ row.flush))
  /\ stoppedAt' = IF own.plays THEN NoPlace ELSE stoppedAt
  /\ UNCHANGED <<closed, starts, earned, reporterVars, failures>>

SeekFails ==
  /\ own.seek # NoSeek
  /\ failures < MaxFailures /\ failures' = failures + 1
  /\ own' = [own EXCEPT !.seek = NoSeek, !.status = "Error"]
  /\ UNCHANGED <<closed, row, starts, ownerHistory, reporterVars>>

----------------------------------------------------------------------------
(* Commands.                                                               *)

Commanded(o) == own' = [o EXCEPT !.epoch = @ + 1]

Pause ==
  /\ Command /\ Playing
  /\ IF own.seek = NoSeek
     THEN Commanded([own EXCEPT !.status = "Paused"])
     ELSE own' = [own EXCEPT !.status = "Paused", !.plays = FALSE]
  /\ UNCHANGED <<closed, row, starts, ownerHistory, reporterVars, failures>>

\* What has ended begins a new attempt. While a seek is pending only the intent changes.
Resume ==
  /\ Command /\ own.status \in {"Paused", "Stopped", "Completed", "Error"}
  /\ IF own.seek # NoSeek
     THEN /\ own' = [own EXCEPT !.status = "Loading", !.plays = TRUE] /\ UNCHANGED row
     ELSE /\ Commanded([own EXCEPT !.status = "Loading", !.attempt = TRUE,
                                   !.pos = IF own.status = "Completed" THEN 0 ELSE @])
          /\ row' = [row EXCEPT !.flush = FALSE]
  /\ UNCHANGED <<closed, starts, ownerHistory, reporterVars, failures>>

Seek ==
  /\ Command /\ own.ready /\ own.status # "Kept"
  /\ \E target \in 0..(Length - 1) :
       Commanded([own EXCEPT !.seek = target, !.plays = Playing,
                             !.status = IF Playing THEN "Loading" ELSE "Paused"])
  /\ UNCHANGED <<closed, row, starts, ownerHistory, reporterVars, failures>>

\* A seek to the end completes at once, without an outcome.
SeekToEnd ==
  /\ Command /\ own.ready /\ own.status # "Kept"
  /\ Commanded([own EXCEPT !.pos = Length, !.seek = NoSeek, !.status = "Completed"])
  /\ row' = Recorded(row, Whole(own'))
  /\ UNCHANGED <<closed, starts, ownerHistory, reporterVars, failures>>

\* The place of what is heard, or has just been heard out, is marked for the reporter before
\* the position goes to zero. Nothing is marked in a pause or a seek (StopIsReported).
Heard == own.status = "Active" \/ (own.status = "Completed" /\ closed[own.part] = "natural")
\* Slip: what has been heard out is not.
MarksWhilePlaying == own.status = "Active" /\ own.seek = NoSeek /\ own.ready
Marks == Heard /\ own.seek = NoSeek /\ own.ready
Stop ==
  /\ Command /\ own.status # "Stopped"
  /\ Commanded([own EXCEPT !.pos = 0, !.seek = NoSeek, !.status = "Stopped"])
  /\ row' = Recorded(IF Marks THEN Marked(row, Whole(own)) ELSE row, Offset(own.part))
  /\ stoppedAt' = IF Heard THEN Whole(own) ELSE NoPlace
  /\ UNCHANGED <<closed, starts, heard, latest, earned, leftover, reporterVars, failures>>

\* Next. The part is not heard out, and the following one is not bound.
Skip ==
  /\ Command /\ own.part < own.last /\ own.status # "Kept"
  /\ closed' = IF own.attempt THEN [closed EXCEPT ![own.part] = "skip"] ELSE closed
  /\ Advance("skip", IF Playing THEN "Loading"
                     ELSE IF own.status \in {"Stopped", "Completed"} THEN "Stopped" ELSE "Paused")
  /\ UNCHANGED <<starts, ownerHistory, reporterVars, failures>>

\* Back, in the same part: another attempt.
Back ==
  /\ Command /\ own.status # "Kept"
  /\ Commanded([own EXCEPT !.pos = 0, !.seek = NoSeek, !.attempt = TRUE,
                           !.status = IF Playing THEN "Loading" ELSE "Paused"])
  /\ closed' = IF own.attempt THEN [closed EXCEPT ![own.part] = "restarted"] ELSE closed
  /\ UNCHANGED <<row, starts, ownerHistory, reporterVars, failures>>

\* The daemon ends and is started again.
DaemonEnds ==
  /\ Command
  /\ Commanded([own EXCEPT !.seek = NoSeek, !.plays = FALSE, !.ready = FALSE, !.status = "Paused"])
  /\ rep' = Quiet /\ last' = NotSent /\ doubt' = FALSE
  /\ UNCHANGED <<closed, row, starts, ownerHistory, remote, failures>>

OwnerNext ==
  \/ StartBook \/ StartPart \/ StartUnbound
  \/ Activate \/ Listen \/ Complete \/ Fail \/ SeekCommits \/ SeekFails
  \/ Pause \/ Resume \/ Seek \/ SeekToEnd \/ Stop \/ Skip \/ Back \/ DaemonEnds

----------------------------------------------------------------------------
(* The reporter.                                                           *)

At(pc) == rep.pc = pc
Leaves == rep' = Quiet
GoesOn(pc) == rep' = [rep EXCEPT !.pc = pc]
Server == <<last, remote, doubt>>
Reads == UNCHANGED <<playVars, Server, failures>>
Faulty == failures < MaxFailures /\ failures' = failures + 1

\* matches_current.
StillPlays == own.part = rep.part /\ starts = rep.start
BindsIt == row.part = rep.part /\ starts = rep.start /\ row.valid
\* invalidate_book_continuity.
Invalidate == row' = IF BindsIt THEN [row EXCEPT !.valid = FALSE] ELSE row

\* Slip: any outcome will do.
EndedAnyhow(p) == closed[p] # "none"
\* book_attempt_outcome: the last attempt that was closed.
HeardOut(p) == closed[p] = "natural"

\* Slip: the status is not looked at.
SampleAnyTime == IF own.status = "Stopped" THEN "stopped"
                 ELSE IF own.status = "Completed" THEN "completed" ELSE "sample"
Sample == CASE own.status = "Active" /\ own.ready -> "sample"
            [] own.status = "Completed" -> "completed"
            [] own.status = "Stopped" -> "stopped"
            [] OTHER -> "none"

Observe ==
  /\ At("idle") /\ own.seek = NoSeek /\ Sample # "none"
  /\ rep' = [pc |-> "observed", start |-> starts, part |-> own.part, epoch |-> own.epoch,
             kind |-> Sample, pos |-> Whole(own), fin |-> FALSE]
  /\ Reads

Load ==
  /\ At("observed")
  /\ IF BindsIt
     THEN rep' = [rep EXCEPT !.pc = "loaded", !.pos = IF rep.kind = "stopped" THEN row.whole ELSE @]
     ELSE Leaves
  /\ Reads

\* A sample may not be due yet. The attempt that was heard out says where it ended.
Choose ==
  /\ At("loaded")
  /\ CASE rep.kind = "sample" -> GoesOn("chosen") \/ Leaves
       [] rep.kind = "stopped" -> IF row.flush THEN GoesOn("chosen") ELSE Leaves
       [] rep.kind = "completed" ->
            IF HeardOut(rep.part)
            THEN rep' = [rep EXCEPT !.pc = "chosen", !.pos = Offset(rep.part) + Length]
            ELSE Leaves
  /\ Reads

\* The provider, and what it says of the book: it knows the parts.
Resolve == At("chosen") /\ GoesOn("resolved") /\ Reads
\* It does not answer; or it answers that the book is gone, or another.
ResolveFails ==
  /\ At("chosen") /\ Faulty /\ Leaves
  /\ UNCHANGED row \/ Invalidate
  /\ UNCHANGED <<own, closed, starts, ownerHistory, Server>>

\* A book is finished by its last part, heard out, and near its end. What was the last to be
\* acknowledged is not sent again.
Finishes == rep.kind # "sample" /\ HeardOut(rep.part) /\ rep.part = Parts
            /\ rep.pos + 1 >= Duration
Sent(r) == last = [start |-> r.start, part |-> r.part, pos |-> r.pos, fin |-> r.fin]
Decide ==
  /\ At("resolved")
  /\ LET r == IF Finishes THEN [rep EXCEPT !.pos = Duration, !.fin = TRUE] ELSE rep
     IN IF Sent(r) THEN Leaves ELSE rep' = [r EXCEPT !.pc = "decided"]
  /\ Reads

Fenced == StillPlays /\ own.epoch = rep.epoch /\ own.seek = NoSeek
Recheck == At("decided") /\ (IF Fenced THEN GoesOn("fenced") ELSE Leaves) /\ Reads
Reload == At("fenced") /\ (IF BindsIt THEN GoesOn("writing") ELSE Leaves) /\ Reads

Applied == remote' = [pos |-> rep.pos, fin |-> rep.fin]
Patch ==
  /\ At("writing") /\ Applied /\ GoesOn("settling")
  /\ UNCHANGED <<playVars, last, doubt, failures>>
WriteLost ==
  /\ At("writing") /\ Faulty /\ Leaves
  /\ \/ Applied /\ doubt' = TRUE /\ UNCHANGED row
     \/ UNCHANGED <<remote, doubt, row>>
     \/ Invalidate /\ UNCHANGED <<remote, doubt>>
  /\ UNCHANGED <<own, closed, starts, ownerHistory, last>>

Remember == IF StillPlays
            THEN last' = [start |-> rep.start, part |-> rep.part, pos |-> rep.pos, fin |-> rep.fin]
            ELSE UNCHANGED last
Acknowledge ==
  /\ At("settling") /\ Remember /\ Leaves /\ doubt' = FALSE
  /\ UNCHANGED <<playVars, remote, failures>>

Reports == \/ Observe \/ Load \/ Choose \/ Resolve \/ Decide
           \/ Recheck \/ Reload \/ Patch \/ Acknowledge
BookNext == OwnerNext \/ Reports \/ ResolveFails \/ WriteLost

\* Faults are bounded and a step the reporter has begun is taken again: the task runs.
Spec == BookInit /\ [][BookNext]_bookVars /\ WF_bookVars(Reports)

----------------------------------------------------------------------------
(* Properties.                                                             *)

\* About to write, for the book that still plays.
Writing == At("writing") /\ rep.start = starts

\* What the server is told as the place was heard since the book was started. Places that are
\* only sought, loaded or skipped over are not (BookReportSample).
PositionWasHeard == Writing => rep.fin \/ rep.pos \in heard

\* The server is told that the book is finished only if its last part was heard to its end:
\* not by a skip, a stop, a failure or a seek alone.
FinishedIsEarned == Writing /\ rep.fin => earned

\* The last place that was heard; or the end of a part whose end was sought when it had been
\* heard out before (NoFabricatedFinish).
Latest == rep.fin \/ rep.pos = latest \/ (rep.pos = Offset(rep.part) + Length /\ rep.pos \in heard)

\* A stop reports the last place that was heard, and not one that was recorded before or
\* after it. Excepted is what is heard under the mark of an earlier stop, which a resume
\* during a seek leaves there (StopIsFinal).
StopReportsLatest ==
  Writing /\ rep.kind = "stopped" /\ rep.epoch = own.epoch /\ ~leftover => Latest

\* Where a book was left, on a boundary of two parts as elsewhere, is where it is heard first
\* when it is started again (BookMap::at, decide_resume).
HeardFromWhereReported ==
  [][row.valid /\ heard = {} /\ heard' # {} /\ closed[own.part] = "none"
       => heard' = {row.whole}]_bookVars

\* What the server does not know of a stop that cut off what was heard, or of the end of the
\* book.
UnreportedStop == own.status = "Stopped" /\ row.valid /\ stoppedAt # NoPlace
                  /\ ~remote.fin /\ remote.pos # stoppedAt
UnreportedEnd == own.status = "Completed" /\ row.valid /\ own.part = Parts /\ HeardOut(Parts)
                 /\ ~remote.fin
\* A book that was heard out does not stay unreported, nor does the place where a stop cut it
\* off, although writes fail: sooner or later it is reported, or something else has been
\* commanded. Excepted are a stop in a pause or a seek (StopIsReported) and a write whose
\* answer was lost (EndIsReportedAnyhow).
EndIsReported == []<>(doubt \/ ~(UnreportedStop \/ UnreportedEnd))

----------------------------------------------------------------------------
(* What documents of the repository say and the code does not do: TLC      *)
(* finds each of these violated (README, section 6).                       *)

\* "must not fabricate completion": a finish belongs to the attempt that plays, or played last.
NoFabricatedFinish == Writing /\ rep.fin /\ rep.epoch = own.epoch => ~own.attempt

\* "flush a final valid position on stop": whatever was commanded before it.
StopIsFinal == Writing /\ rep.kind = "stopped" /\ rep.epoch = own.epoch => Latest

\* "creates a new attempt when the previous one is terminal": what plays has an attempt.
PlaysInAnAttempt == own.status = "Active" => own.attempt

\* "flush a final valid position on stop" once more: also when an answer was lost.
EndIsReportedAnyhow == []<>~(UnreportedStop \/ UnreportedEnd)

\* And also when it had been paused or a seek was pending: what was heard last is what the server is told in the end.
UnreportedPlace == own.status = "Stopped" /\ row.valid /\ heard # {}
                   /\ ~remote.fin /\ remote.pos # latest
StopIsReported == []<>(doubt \/ leftover \/ ~UnreportedPlace)

=============================================================================
