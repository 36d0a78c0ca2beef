-------------------------- MODULE PlaybackFeedback --------------------------
(***************************************************************************)
(* Likes and dislikes of tracks (playback/feedback.rs,                     *)
(* playback/session/feedback.rs, rpc/playback_feedback.rs).                *)
(* A client asks for a preference by an operation with an identity of its  *)
(* own and may ask again. The daemon notes a rejection of the occurrence   *)
(* and puts the operation in a journal, in one order for each track. One   *)
(* worker claims an operation, verifies the account, sets the value and    *)
(* reads it back. What the worker cannot decide is ambiguous: it stops all *)
(* that waits behind it until a reader sees the present value. The server  *)
(* may execute a request after the worker gave up on it, and the daemon is *)
(* killed at any step.                                                     *)
(***************************************************************************)
EXTENDS Naturals, FiniteSets

CONSTANTS
  MaxOps,       \* bound on the operations
  Tracks,       \* a track of a server and the account on it; one occurrence of each
  Values,       \* the preferences a client asks for
  Initially,    \* the preference before
  Rejecting,    \* the value that rejects the occurrence: dislike
  Accepting,    \* the value that takes a rejection back: like
  MaxPending,   \* MAX_PENDING_FEEDBACK
  MaxRows,      \* MAX_FEEDBACK_ROWS
  MaxFaults     \* bound on the crashes and the failed writes of the journal

ASSUME FeedbackAssumption ==
  /\ MaxOps \in Nat /\ Initially \in Values
  /\ Rejecting \in Values /\ Accepting \in Values /\ Rejecting # Accepting
  /\ MaxPending \in Nat /\ MaxRows \in Nat /\ MaxFaults \in Nat /\ "none" \notin Tracks

VARIABLES
  asked,       \* what each operation asks for
  journal,     \* playback_feedback
  lastSeq,     \* its AUTOINCREMENT sequence
  forgotten,   \* operations whose row was pruned; nobody repeats them
  rejected,    \* playback_feedback_dispositions
  worker,      \* where run_feedback is
  job,         \* the operation it claimed
  verdict,     \* the status it is about to settle
  remote,      \* the value at the server
  landed,      \* the operations the server has executed
  wire,        \* requests the server has not executed; it may never do so
  sends,       \* how often each operation was sent
  reader,      \* a client that refreshes its view
  faults       \* crashes and failed writes so far

askVars    == <<asked, journal, lastSeq, forgotten, rejected>>
workVars   == <<worker, job, verdict, sends>>
serverVars == <<remote, landed, wire>>
vars == <<askVars, workVars, serverVars, reader, faults>>

\* An operation has a fresh identity; here they are numbered as they are first asked.
Ops == 1..MaxOps
NoAsk  == [track |-> "none", value |-> "none"]
NoRow  == [seq |-> 0, status |-> "none"]
NoOp   == 0
NoRead == [at |-> "idle", track |-> "none", op |-> NoOp, status |-> "none", seen |-> {}]

Settled == {"confirmed", "failed", "reconciled"}
Unresolved == {"ambiguous", "conflict"}
Queued == {"pending", "sending"}
Statuses == Settled \cup Unresolved \cup Queued

Rows == {op \in Ops : journal[op].status # "none"}
RowsWith(S) == {op \in Ops : journal[op].status \in S}
Of(t) == {op \in Ops : asked[op].track = t}
Older(p, q) == journal[p].seq < journal[q].seq
SetStatus(S, status) ==
  [op \in Ops |-> IF op \in S THEN [journal[op] EXCEPT !.status = status] ELSE journal[op]]

\* The last row of a track, if it has one.
Latest(t) ==
  LET own == Rows \cap Of(t)
  IN IF own = {} THEN NoOp ELSE CHOOSE op \in own : \A p \in own : ~Older(op, p)
StatusOf(op) == IF op = NoOp THEN "none" ELSE journal[op].status

Init ==
  /\ asked = [op \in Ops |-> NoAsk] /\ journal = [op \in Ops |-> NoRow]
  /\ lastSeq = 0 /\ forgotten = {} /\ rejected = [t \in Tracks |-> FALSE]
  /\ worker = "recover" /\ job = NoOp /\ verdict = "none"
  /\ sends = [op \in Ops |-> 0]
  /\ remote = [t \in Tracks |-> Initially] /\ landed = {} /\ wire = {}
  /\ reader = NoRead /\ faults = 0

-----------------------------------------------------------------------------
(* Asking.                                                                 *)

\* record_feedback_disposition, a transaction of its own.
Disposed(t, value) ==
  IF value = Rejecting THEN [rejected EXCEPT ![t] = TRUE]
  ELSE IF value = Accepting THEN [rejected EXCEPT ![t] = FALSE]
  ELSE rejected

\* Rows of more than 90 days go; a full journal drops its oldest settled rows.
Pruned(old, oldest) ==
  /\ old \subseteq RowsWith(Settled)
  /\ LET left == RowsWith(Settled) \ old
     IN IF Cardinality(Rows \ old) >= MaxRows /\ left # {}
        THEN oldest \in {{op} : op \in {p \in left : \A q \in left : ~Older(q, p)}}
        ELSE oldest = {}

\* record_feedback: an operation behind an unresolved one is a conflict at once.
RecordFeedback(op, t, gone) ==
  /\ Cardinality(Rows \ gone) < MaxRows
  /\ Cardinality(RowsWith(Queued)) < MaxPending
  /\ lastSeq' = lastSeq + 1
  /\ journal' =
       [[p \in Ops |-> IF p \in gone THEN NoRow ELSE journal[p]] EXCEPT ![op] =
          [seq |-> lastSeq + 1,
           status |-> IF RowsWith(Unresolved) \cap Of(t) # {} THEN "conflict" ELSE "pending"]]
  /\ forgotten' = forgotten \cup gone

\* accept, in the owner of the playback. An operation that has a row is answered by
\* it; one that could not be recorded is answered as failed and leaves no row, the
\* disposition stays.
Accept(op, t, value) ==
  /\ journal[op] = NoRow /\ op \notin forgotten
  /\ \A p \in 1..(op - 1) : asked[p] # NoAsk
  /\ asked[op] \in {NoAsk, [track |-> t, value |-> value]}
  /\ asked' = [asked EXCEPT ![op] = [track |-> t, value |-> value]]
  /\ rejected' = Disposed(t, value)
  /\ \/ /\ \E old \in SUBSET RowsWith(Settled), oldest \in SUBSET RowsWith(Settled) :
             Pruned(old, oldest) /\ RecordFeedback(op, t, old \cup oldest)
        /\ faults' = faults
     \/ /\ \/ Cardinality(RowsWith(Queued)) >= MaxPending
           \/ Cardinality(Rows \ RowsWith(Settled)) >= MaxRows
        /\ UNCHANGED <<journal, lastSeq, forgotten, faults>>
     \/ /\ faults < MaxFaults /\ faults' = faults + 1
        /\ UNCHANGED <<journal, lastSeq, forgotten>>
  /\ UNCHANGED <<workVars, serverVars, reader>>

-----------------------------------------------------------------------------
(* The worker.                                                             *)

\* A write that fails is tried again (retry_feedback_journal) or leads elsewhere.
Fails(next) ==
  /\ faults < MaxFaults /\ faults' = faults + 1
  /\ worker' = next /\ UNCHANGED <<journal, job, verdict>>

\* recover_feedback: what is being sent is ambiguous, what waits behind it a conflict.
Recovered ==
  LET uncertain == RowsWith({"sending", "ambiguous"})
      behind == {op \in RowsWith({"pending"}) :
                   \E p \in uncertain : asked[p].track = asked[op].track}
  IN [op \in Ops |-> IF op \in behind THEN [journal[op] EXCEPT !.status = "conflict"]
                     ELSE IF op \in uncertain THEN [journal[op] EXCEPT !.status = "ambiguous"]
                     ELSE journal[op]]

Recover ==
  /\ worker = "recover"
  /\ \/ /\ journal' = Recovered /\ worker' = "claim" /\ job' = NoOp /\ verdict' = "none"
        /\ faults' = faults
     \/ Fails("recover")
  /\ UNCHANGED <<asked, lastSeq, forgotten, rejected, sends, serverVars, reader>>

\* Nothing older of the same track may be open.
Claimable(op) ==
  /\ journal[op].status = "pending"
  /\ \A p \in Of(asked[op].track) :
       Older(p, op) => journal[p].status \notin Queued \cup Unresolved

\* claim_feedback, one transaction; one operation is sent at a time.
Claim(op) ==
  /\ worker = "claim" /\ RowsWith({"sending"}) = {}
  /\ Claimable(op) /\ \A p \in Ops : Claimable(p) => ~Older(p, op)
  /\ journal' = SetStatus({op}, "sending")
  /\ job' = op /\ worker' = "verify"
  /\ UNCHANGED <<asked, lastSeq, forgotten, rejected, verdict, sends, serverVars, reader,
                 faults>>

\* No provider (run_feedback settles, and retries that), or its first read fails,
\* names another account or comes after the shutdown (deliver_feedback settles):
\* nothing was sent.
VerifyFails ==
  /\ worker = "verify"
  /\ worker' \in {"settleUnsent", "settle"} /\ verdict' = "failed"
  /\ UNCHANGED <<askVars, job, sends, serverVars, reader, faults>>

\* set_feedback puts the request on the wire.
Send ==
  /\ worker = "verify"
  /\ worker' = "await"
  /\ wire' = wire \cup {job} /\ sends' = [sends EXCEPT ![job] = @ + 1]
  /\ UNCHANGED <<askVars, job, verdict, remote, landed, reader, faults>>

\* Slip: no answer in time counts as a refusal.
AwaitOrRefused ==
  /\ worker = "await"
  /\ \/ job \in landed /\ worker' = "readBack" /\ UNCHANGED <<verdict, wire>>
     \/ /\ job \in wire /\ wire' = wire \ {job}
        /\ worker' = "settle" /\ verdict' = "failed"
     \/ worker' = "settle" /\ verdict' = "failed" /\ UNCHANGED wire
  /\ UNCHANGED <<askVars, job, sends, remote, landed, reader, faults>>

\* The answer: done, so read back; refused (classify); uncertain; or none in 25 s.
Await ==
  /\ worker = "await"
  /\ \/ job \in landed /\ worker' = "readBack" /\ UNCHANGED <<verdict, wire>>
     \/ /\ job \in wire /\ wire' = wire \ {job}
        /\ worker' = "settle" /\ verdict' = "failed"
     \/ worker' = "settle" /\ verdict' = "ambiguous" /\ UNCHANGED wire
  /\ UNCHANGED <<askVars, job, sends, remote, landed, reader, faults>>

\* Only the value that was asked for, read back in time, confirms.
ReadBack ==
  /\ worker = "readBack"
  /\ worker' = "settle"
  /\ verdict' \in {"ambiguous"} \cup
       (IF remote[asked[job].track] = asked[job].value THEN {"confirmed"} ELSE {})
  /\ UNCHANGED <<askVars, job, sends, serverVars, reader, faults>>

\* Slip: an ambiguous operation does not stop those behind it.
SettledAlone ==
  [op \in Ops |-> IF op = job THEN [journal[op] EXCEPT !.status = verdict] ELSE journal[op]]

\* settle_feedback, one transaction; an ambiguous operation stops those behind it.
SettledJournal ==
  LET behind == IF verdict = "ambiguous" THEN RowsWith({"pending"}) \cap Of(asked[job].track)
                ELSE {}
  IN [op \in Ops |-> IF op = job THEN [journal[op] EXCEPT !.status = verdict]
                     ELSE IF op \in behind THEN [journal[op] EXCEPT !.status = "conflict"]
                     ELSE journal[op]]

Settle ==
  /\ worker \in {"settle", "settleUnsent"}
  /\ \/ /\ journal' = SettledJournal /\ worker' = "claim" /\ job' = NoOp /\ verdict' = "none"
        /\ faults' = faults
     \/ Fails(IF worker = "settle" THEN "recover" ELSE "settleUnsent")
  /\ UNCHANGED <<asked, lastSeq, forgotten, rejected, sends, serverVars, reader>>

-----------------------------------------------------------------------------
(* A client refreshes its view.                                            *)

\* feedback_before_read: the last row of the track, before the remote read.
ReadWatermark(t) ==
  /\ reader.at = "idle"
  /\ reader' = [at |-> "read", track |-> t, op |-> Latest(t), status |-> StatusOf(Latest(t)),
                seen |-> {}]
  /\ UNCHANGED <<askVars, workVars, serverVars, faults>>

\* read_feedback answers with the present value, or fails.
ReadRemote ==
  /\ reader.at = "read"
  /\ \/ reader' = [reader EXCEPT !.at = "reconcile", !.seen = landed]
     \/ reader' = NoRead
  /\ UNCHANGED <<askVars, workVars, serverVars, faults>>

\* reconcile_feedback: if the watermark was unresolved and is still the last row, and
\* nothing of the track is on its way, what was seen settles all that is unresolved.
Reconcile ==
  /\ reader.at = "reconcile"
  /\ reader' = [reader EXCEPT !.at = "publish"]
  /\ journal' =
       IF /\ reader.status \in Unresolved
          /\ Latest(reader.track) = reader.op
          /\ RowsWith(Queued) \cap Of(reader.track) = {}
       THEN SetStatus(RowsWith(Unresolved) \cap Of(reader.track), "reconciled")
       ELSE journal
  /\ UNCHANGED <<asked, lastSeq, forgotten, rejected, workVars, serverVars, faults>>

\* Slip: only the identity of the last row is compared.
IsSameRow(t) == Latest(t) = reader.op

\* read_is_current.
IsCurrent(t) ==
  /\ Latest(t) = reader.op
  /\ \/ StatusOf(Latest(t)) = reader.status
     \/ reader.status \in Unresolved /\ StatusOf(Latest(t)) = "reconciled"

\* The view is given to the client: the value is known if it is current.
PublishView ==
  /\ reader.at = "publish"
  /\ reader' = NoRead
  /\ UNCHANGED <<askVars, workVars, serverVars, faults>>

-----------------------------------------------------------------------------
(* The server, and the end of the daemon.                                  *)

ServerSets(op) ==
  /\ op \in wire
  /\ remote' = [remote EXCEPT ![asked[op].track] = asked[op].value]
  /\ landed' = landed \cup {op} /\ wire' = wire \ {op}
  /\ UNCHANGED <<askVars, workVars, reader, faults>>

\* The process ends, and another one starts: the journal and the dispositions remain.
Restart ==
  /\ faults < MaxFaults /\ faults' = faults + 1
  /\ worker' = "recover" /\ job' = NoOp /\ verdict' = "none"
  /\ reader' = NoRead
  /\ UNCHANGED <<askVars, sends, serverVars>>

Worker ==
  \/ Recover \/ VerifyFails \/ Send \/ Await \/ ReadBack \/ Settle
  \/ \E op \in Ops : Claim(op)

Reader == (\E t \in Tracks : ReadWatermark(t)) \/ ReadRemote \/ Reconcile \/ PublishView

Next ==
  \/ \E op \in Ops, t \in Tracks, value \in Values : Accept(op, t, value)
  \/ Worker \/ Reader
  \/ \E op \in Ops : ServerSets(op)
  \/ Restart

FeedbackSpec == Init /\ [][Next]_vars

\* Every await of the worker has a deadline. Clients and servers owe no step.
FairFeedbackSpec == FeedbackSpec /\ WF_vars(Worker)

-----------------------------------------------------------------------------
Seqs == 0..lastSeq
FeedbackTypeOK ==
  /\ asked \in [Ops -> {NoAsk} \cup [track : Tracks, value : Values]]
  /\ lastSeq \in Nat /\ forgotten \subseteq Ops
  /\ journal \in [Ops -> [seq : Seqs, status : Statuses \cup {"none"}]]
  /\ rejected \in [Tracks -> BOOLEAN]
  /\ worker \in {"recover", "claim", "verify", "await", "readBack", "settle", "settleUnsent"}
  /\ job \in Ops \cup {NoOp} /\ verdict \in Settled \cup Unresolved \cup {"none"}
  /\ (worker \in {"recover", "claim"}) \/ job \in Ops
  /\ remote \in [Tracks -> Values] /\ landed \subseteq Ops /\ wire \subseteq Ops
  /\ sends \in [Ops -> Nat]
  /\ faults \in 0..MaxFaults
  /\ Cardinality(Rows) <= MaxRows

\* An operation is sent once, whatever is repeated, lost, retried or interrupted ("If
\* delivery settlement fails, the worker retries local recovery only").
SentOnce == \A op \in Ops : sends[op] <= 1

\* The journal does not mislead: what is confirmed has changed the server, what waits,
\* failed or stands behind a conflict has not and will not, and nothing was sent twice.
JournalIsHonest ==
  /\ SentOnce
  /\ \A op \in Ops :
    /\ journal[op].status = "confirmed" => op \in landed
    /\ journal[op].status \in {"pending", "failed", "conflict"} => op \notin landed \cup wire

\* No write of a track is sent while an older one may still land, unless a reader has
\* looked at the value since: a dislike is not undone by a like that was late.
NoOvertaking ==
  \A p, q \in Ops :
    (p \in wire /\ sends[q] > 0 /\ asked[p].track = asked[q].track /\ Older(p, q)
       /\ journal[p] # NoRow)
      => journal[p].status = "reconciled"

\* A view that presents its value as known is not older than any confirmed write,
\* unless its operation still waits: an older one may then have been confirmed between
\* the read of the value and the view, which compares the last row alone.
KnownViewIsCurrent ==
  (reader.at = "publish" /\ IsCurrent(reader.track) /\ StatusOf(reader.op) # "pending")
    => Of(reader.track) \cap RowsWith({"confirmed"}) \subseteq reader.seen

\* A worker that runs leaves nothing waiting: every operation is settled or waits for
\* its user.
FeedbackDrains == <>[](RowsWith({"pending"}) = {})
=============================================================================
