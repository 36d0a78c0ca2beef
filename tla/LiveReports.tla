---------------------------- MODULE LiveReports ----------------------------
(***************************************************************************)
(* Completed listens and their delivery (playback/reporting.rs).           *)
(* The owner of the playback collects evidence while an occurrence of the  *)
(* queue is audible and freezes it when the listening ends                 *)
(* (record_or_note_live_report). A listen that qualifies becomes a row of  *)
(* the journal playback_live_reports, one row for each occurrence.         *)
(* run_reporter claims one row at a time, verifies the server and submits  *)
(* the listen. A submission is not idempotent: the server counts each one  *)
(* it executes, also one that it executes after the reporter gave up       *)
(* waiting. The daemon is killed and started again at any step.            *)
(***************************************************************************)
EXTENDS Naturals, FiniteSets

CONSTANTS
  Occurrences,   \* entries of the queue
  Unsupported,   \* those of servers that take no live reports
  Threshold,     \* how much must be heard, min(ceil(duration/2), 240 s), in samples
  MaxRows,       \* MAX_REPORT_ROWS
  MaxPending,    \* MAX_PENDING_REPORTS
  MaxClaims,     \* the claims after which defer_live_report gives up (5 in the code)
  MaxListens,    \* bound on the listenings
  MaxFaults      \* bound on the crashes and the failed writes of the journal

ASSUME ReportsAssumption ==
  /\ IsFiniteSet(Occurrences) /\ Unsupported \subseteq Occurrences
  /\ Threshold \in Nat \ {0} /\ MaxRows \in Nat \ {0} /\ MaxPending \in Nat \ {0}
  /\ MaxClaims \in Nat \ {0} /\ MaxListens \in Nat /\ MaxFaults \in Nat

VARIABLES
  evidence,    \* reporting_main: the occurrence heard, how much of it
  rows,        \* playback_live_reports
  ended,       \* how many listenings have ended; it numbers the operations
  reporter,    \* where run_reporter is
  job,         \* the row it claimed
  verdict,     \* the status it is about to settle
  events,      \* whether the channel of status events holds one
  wire,        \* submissions the server has not executed; it may never do so
  counted,     \* operations the server has counted
  submitted,   \* submissions made for each occurrence
  listens,     \* listens of each occurrence that qualified
  faults       \* crashes and failed writes so far

ownerVars  == <<evidence, listens, ended>>
workVars   == <<reporter, job, verdict, events>>
remoteVars == <<wire, counted, submitted>>
vars == <<ownerVars, rows, workVars, remoteVars, faults>>

Operations == 0..MaxListens
Silence == [occurrence |-> "none", heard |-> 0]
NoRow == [op |-> 0, born |-> 0, status |-> "none", claims |-> 0, due |-> FALSE]
NoJob == [op |-> 0, occurrence |-> "none", claims |-> 0]

Settled == {"ineligible", "confirmed", "failed", "unsupported", "ambiguous"}
Statuses == Settled \cup {"pending", "sending"}
Steps == {"stopped", "recover", "claim", "preflight", "await", "settle",
          "defer", "status"}

\* The reasons after which a listen that was heard long enough counts.
Counting == {"naturalEnd", "skip", "stop", "replacement", "return"}
TerminalReasons == Counting \cup {"technicalFailure", "outputLoss", "shutdown"}

RowsWith(S) == {o \in Occurrences : rows[o].status \in S}
Journal == RowsWith(Statuses)

Init ==
  /\ evidence = Silence /\ listens = [o \in Occurrences |-> 0] /\ ended = 0
  /\ rows = [o \in Occurrences |-> NoRow]
  /\ reporter = "recover" /\ job = NoJob /\ verdict = "none" /\ events = FALSE
  /\ wire = {} /\ counted = {} /\ submitted = [o \in Occurrences |-> 0]
  /\ faults = 0

-----------------------------------------------------------------------------
(* The owner.                                                              *)

\* ensure_reporting_evidence, when the output becomes active: another occurrence,
\* or another attempt at the same one, begins with fresh evidence. The occurrence
\* of the queue and an audition keep their evidence apart; here one is heard at a time.
StartListening(o) ==
  /\ ended < MaxListens
  /\ evidence' = [occurrence |-> o, heard |-> 0]
  /\ UNCHANGED <<listens, ended, rows, workVars, remoteVars, faults>>

\* HeardEvidence::sample. publish_health, after each command and on a timer,
\* sends a sample to the channel; one that does not fit is dropped.
Hear ==
  /\ evidence # Silence
  /\ evidence' = [evidence EXCEPT !.heard = IF @ < Threshold THEN @ + 1 ELSE @]
  /\ events' = TRUE
  /\ UNCHANGED <<listens, ended, rows, reporter, job, verdict, remoteVars, faults>>

\* HeardEvidence::qualifies.
Qualifies(reason) == reason \in Counting /\ evidence.heard >= Threshold

\* The status of a new row. Rows that wait or are being sent fill the queue.
NewStatus(o, qualified) ==
  IF o \in Unsupported THEN "unsupported"
  ELSE IF ~qualified THEN "ineligible"
  ELSE IF Cardinality(RowsWith({"pending", "sending"})) >= MaxPending THEN "failed"
  ELSE "pending"

\* The settled rows that may have to make room for one more.
Droppable(old) == {{}} \cup {{p} : p \in RowsWith(Settled) \ old}

\* record_live_report, one transaction. Settled rows of more than 90 days are
\* "old". An occurrence that has a row gets no other, unless the row is
\* ineligible and the occurrence now qualifies. A full journal drops the settled
\* rows updated first: updated_at counts seconds, so any of those may be first.
RecordLiveReport(o, qualified, old, dropped) ==
  LET fresh   == [p \in Occurrences |-> IF p \in old THEN NoRow ELSE rows[p]]
      exists  == fresh[o].status \in Statuses
      promote == fresh[o].status = "ineligible" /\ qualified
      full    == ~exists /\ Cardinality(Journal \ old) >= MaxRows
      kept    == [p \in Occurrences |-> IF p \in dropped THEN NoRow ELSE fresh[p]]
      row     == [op |-> ended + 1,
                  born |-> IF exists THEN fresh[o].born ELSE ended + 1,
                  status |-> NewStatus(o, qualified),
                  claims |-> fresh[o].claims, due |-> TRUE]
  IN /\ dropped # {} <=> full /\ RowsWith(Settled) # old
     /\ IF (exists /\ ~promote) \/ (full /\ dropped = {})
        THEN rows' = rows
        ELSE rows' = [kept EXCEPT ![o] = row]

\* The listening ends: commit_terminal, finish_preview, an output that is lost, or
\* freeze_live_shutdown take the evidence, freeze it and record it. A write that
\* fails is noted in reporting_failures, which nothing sends.
EndListening(reason) ==
  LET o == evidence.occurrence
      qualified == Qualifies(reason)
  IN /\ evidence # Silence
     /\ listens' = IF qualified THEN [listens EXCEPT ![o] = @ + 1] ELSE listens
     /\ \/ /\ \E old \in SUBSET RowsWith(Settled) :
                \E dropped \in Droppable(old) : RecordLiveReport(o, qualified, old, dropped)
           /\ faults' = faults
        \/ /\ faults < MaxFaults /\ faults' = faults + 1
           /\ UNCHANGED rows
     /\ evidence' = Silence /\ ended' = ended + 1
     /\ UNCHANGED <<workVars, remoteVars>>

-----------------------------------------------------------------------------
(* The reporter.                                                           *)

\* A write of the journal by the reporter: done, or failed and only logged.
Write(newRows) ==
  \/ rows' = newRows /\ faults' = faults
  \/ rows' = rows /\ faults < MaxFaults /\ faults' = faults + 1

\* Slip: what was being sent goes back to the queue.
RecoveredToQueue == [o \in Occurrences |-> IF rows[o].status = "sending"
                                            THEN [rows[o] EXCEPT !.status = "pending"]
                                            ELSE rows[o]]

\* recover_live_reports: what was being sent when the daemon ended is ambiguous.
Recovered == [o \in Occurrences |-> IF rows[o].status = "sending"
                                    THEN [rows[o] EXCEPT !.status = "ambiguous"]
                                    ELSE rows[o]]

\* A reporter that cannot recover ends.
Recover ==
  /\ reporter = "recover"
  /\ \/ rows' = Recovered /\ reporter' = "claim" /\ faults' = faults
     \/ rows' = rows /\ reporter' = "stopped" /\ faults < MaxFaults /\ faults' = faults + 1
  /\ UNCHANGED <<ownerVars, job, verdict, events, remoteVars>>

\* The time of a deferred row comes.
BecomeDue(o) ==
  /\ rows[o].status = "pending" /\ ~rows[o].due
  /\ rows' = [rows EXCEPT ![o].due = TRUE]
  /\ UNCHANGED <<ownerVars, workVars, remoteVars, faults>>

Claimable == {o \in RowsWith({"pending"}) : rows[o].due}
IsFirst(o) == o \in Claimable /\ \A p \in Claimable : rows[o].born <= rows[p].born

\* claim_live_report: the oldest row that is due, in one transaction.
Claim(o) ==
  /\ reporter = "claim" /\ IsFirst(o)
  /\ rows' = [rows EXCEPT ![o].status = "sending", ![o].claims = @ + 1]
  /\ job' = [op |-> rows[o].op, occurrence |-> o, claims |-> rows[o].claims + 1]
  /\ reporter' = "preflight"
  /\ UNCHANGED <<ownerVars, verdict, events, remoteVars, faults>>

\* Nothing is due, or the claim failed.
ClaimNothing ==
  /\ reporter = "claim"
  /\ \/ Claimable = {} /\ faults' = faults
     \/ faults < MaxFaults /\ faults' = faults + 1
  /\ reporter' = "status"
  /\ UNCHANGED <<ownerVars, rows, job, verdict, events, remoteVars>>

\* get_provider_by_server_id and verify_live_completion end before anything is
\* sent: refused for good (preflight_is_definite), or unavailable or late.
PreflightFails ==
  /\ reporter = "preflight"
  /\ \/ reporter' = "settle" /\ verdict' \in {"failed", "unsupported"}
     \/ reporter' = "defer" /\ UNCHANGED verdict
  /\ UNCHANGED <<ownerVars, rows, job, events, remoteVars, faults>>

\* They are ready, and report_live_completed puts the request on the wire.
Submit ==
  /\ reporter = "preflight"
  /\ reporter' = "await"
  /\ wire' = wire \cup {job.op}
  /\ submitted' = [submitted EXCEPT ![job.occurrence] = @ + 1]
  /\ UNCHANGED <<ownerVars, rows, job, verdict, events, counted, faults>>

\* classify_completion: the answer to a request that the server executed, one
\* that it refused, or an error that does not say which; the answer of a request
\* it executed may be lost as well.
ClassifyCompletion ==
  \/ /\ job.op \in counted /\ verdict' \in {"confirmed", "ambiguous"}
     /\ UNCHANGED wire
  \/ /\ job.op \in wire /\ verdict' \in {"failed", "unsupported", "ambiguous"}
     /\ wire' = wire \ {job.op}

\* After 15 seconds the reporter stops waiting.
Await ==
  /\ reporter = "await"
  /\ reporter' = "settle"
  /\ \/ ClassifyCompletion
     \/ verdict' = "ambiguous" /\ UNCHANGED wire
  /\ UNCHANGED <<ownerVars, rows, job, events, counted, submitted, faults>>

\* The update names the operation and asks that it is still being sent.
IfSending(newRow) ==
  LET o == job.occurrence
  IN IF rows[o].op = job.op /\ rows[o].status = "sending"
     THEN [rows EXCEPT ![o] = newRow]
     ELSE rows

\* settle_live_report.
Settle ==
  /\ reporter = "settle"
  /\ Write(IfSending([rows[job.occurrence] EXCEPT !.status = verdict]))
  /\ reporter' = "status" /\ job' = NoJob /\ verdict' = "none"
  /\ UNCHANGED <<ownerVars, events, remoteVars>>

\* defer_live_report: back to the queue, with a delay, or given up.
Defer ==
  /\ reporter = "defer"
  /\ LET row == rows[job.occurrence]
     IN Write(IfSending(IF job.claims >= MaxClaims
                        THEN [row EXCEPT !.status = "failed"]
                        ELSE [row EXCEPT !.status = "pending", !.due = FALSE]))
  /\ reporter' = "status" /\ job' = NoJob
  /\ UNCHANGED <<ownerVars, verdict, events, remoteVars>>

\* Slip: the channel is emptied before the next claim.
StatusTurnEmptiesChannel ==
  /\ reporter = "status"
  /\ reporter' = (IF events THEN "status" ELSE "claim") /\ events' = FALSE
  /\ UNCHANGED <<ownerVars, rows, job, verdict, remoteVars, faults>>

\* One event of the channel, if there is one, then the owner's own sample; and the
\* next turn.
StatusTurn ==
  /\ reporter = "status"
  /\ reporter' = "claim" /\ events' = FALSE
  /\ UNCHANGED <<ownerVars, rows, job, verdict, remoteVars, faults>>

-----------------------------------------------------------------------------
(* The server, and the end of the daemon.                                  *)

ServerCounts(op) ==
  /\ op \in wire
  /\ wire' = wire \ {op} /\ counted' = counted \cup {op}
  /\ UNCHANGED <<ownerVars, rows, workVars, submitted, faults>>

\* The process ends, and another one starts: the journal remains.
Restart ==
  /\ faults < MaxFaults /\ faults' = faults + 1
  /\ evidence' = Silence
  /\ reporter' = "recover" /\ job' = NoJob /\ verdict' = "none" /\ events' = FALSE
  /\ UNCHANGED <<listens, ended, rows, remoteVars>>

Owner ==
  \/ \E o \in Occurrences : StartListening(o)
  \/ Hear
  \/ \E reason \in TerminalReasons : EndListening(reason)

Reporter ==
  \/ Recover
  \/ \E o \in Occurrences : Claim(o)
  \/ ClaimNothing \/ PreflightFails \/ Submit \/ Await \/ Settle \/ Defer
  \/ StatusTurn

Next ==
  \/ Owner \/ Reporter
  \/ \E o \in Occurrences : BecomeDue(o)
  \/ \E op \in Operations : ServerCounts(op)
  \/ Restart

ReportsSpec == Init /\ [][Next]_vars

\* Every await of the reporter has a deadline, and the clock goes on. Neither the
\* user nor the server owes a step.
FairReportsSpec ==
  ReportsSpec /\ WF_vars(Reporter) /\ \A o \in Occurrences : WF_vars(BecomeDue(o))

-----------------------------------------------------------------------------
Rows == [op : Operations, born : Operations, status : Statuses \cup {"none"},
         claims : 0..MaxClaims, due : BOOLEAN]
Jobs == [op : Operations, occurrence : Occurrences \cup {"none"}, claims : 0..MaxClaims]

ReportsTypeOK ==
  /\ evidence \in [occurrence : Occurrences \cup {"none"}, heard : 0..Threshold]
  /\ rows \in [Occurrences -> Rows]
  /\ ended \in Operations
  /\ reporter \in Steps /\ job \in Jobs
  /\ verdict \in Settled \cup {"none"} /\ events \in BOOLEAN
  /\ wire \subseteq Operations /\ counted \subseteq Operations
  /\ submitted \in [Occurrences -> Nat] /\ listens \in [Occurrences -> Nat]
  /\ faults \in 0..MaxFaults

\* A listen is never submitted twice, whatever is lost, retried, pruned or
\* interrupted: each submission for an occurrence has a listen of its own that
\* qualified ("one non-idempotent completed-listen submission", providers/mod.rs).
OneSubmissionPerListen == \A o \in Occurrences : submitted[o] <= listens[o]

\* The journal does not mislead. What it calls confirmed has been counted; what it
\* calls waiting, given up or refused has not been, and will not be by a request
\* that is still on its way. Only "sending" and "ambiguous" leave it open.
StatusIsHonest ==
  \A o \in Occurrences :
    /\ rows[o].status = "confirmed" => rows[o].op \in counted
    /\ rows[o].status \in {"pending", "ineligible", "failed", "unsupported"} =>
         rows[o].op \notin counted \cup wire

\* While a reporter runs nothing waits in the queue for ever, however many status
\* events come ("a status burst must never starve durable completion delivery").
QueueDrains ==
  <>[](reporter # "stopped") => <>[](RowsWith({"pending"}) = {})
=============================================================================
