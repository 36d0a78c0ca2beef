--------------------------- MODULE ReportsProofs ---------------------------
(***************************************************************************)
(* Theorems about LiveReports, for any set of occurrences, any thresholds  *)
(* and limits and any number of listens and faults, and about the reports  *)
(* of a book, BookContinuity.                                              *)
(***************************************************************************)
EXTENDS LiveReports, BookContinuity, FiniteSetTheorems, TLAPS

\* The reporter has claimed a row and has neither settled nor deferred it.
Working == {"preflight", "await", "settle", "defer"}

\* The row of the job: nothing but the reporter changes a row that is being sent.
JobHoldsRow ==
  reporter \in Working =>
    /\ job.occurrence \in Occurrences
    /\ rows[job.occurrence].status = "sending"
    /\ rows[job.occurrence].op = job.op
    /\ rows[job.occurrence].claims = job.claims

\* A row that waits may be claimed once more.
ClaimsLeft ==
  \A o \in Occurrences :
    /\ rows[o].status = "pending" => rows[o].claims < MaxClaims
    /\ rows[o].status \in {"none", "ineligible"} => rows[o].claims = 0

\* Each listening ends once and numbers the row it leaves; the server has seen no
\* other numbers.
OperationsAreFresh ==
  /\ \A o \in Occurrences : rows[o].op <= ended
  /\ \A op \in wire \cup counted : op <= ended
  /\ \A o, p \in Occurrences :
       o # p /\ rows[o].status # "none" /\ rows[p].status # "none" => rows[o].op # rows[p].op
  /\ wire \cap counted = {}

\* What the reporter knows about the request it has sent, or not sent.
JobIsUnsent ==
  \/ reporter \in {"preflight", "defer"}
  \/ reporter = "settle" /\ verdict \in {"failed", "unsupported"}
VerdictIsHonest ==
  /\ JobIsUnsent => job.op \notin wire \cup counted
  /\ reporter = "settle" => verdict \in Settled \ {"ineligible"}
  /\ reporter = "settle" /\ verdict = "confirmed" => job.op \in counted

\* A submission that is still to be made: of a row that waits, or of a row that has
\* been claimed and not been sent.
Owed(o) ==
  IF \/ rows[o].status = "pending"
     \/ reporter \in {"preflight", "defer"} /\ job.occurrence = o
  THEN 1 ELSE 0
ListensCover == \A o \in Occurrences : submitted[o] + Owed(o) <= listens[o]

HearingIsNumbered ==
  evidence # Silence => evidence.occurrence \in Occurrences /\ ended < MaxListens

Inv ==
  /\ ReportsTypeOK /\ JobHoldsRow /\ ClaimsLeft /\ OperationsAreFresh
  /\ VerdictIsHonest /\ ListensCover /\ HearingIsNumbered /\ StatusIsHonest

-----------------------------------------------------------------------------
\* The records the variables begin with are of their types.
LEMMA Constants ==
  ASSUME ReportsAssumption
  PROVE  /\ NoRow \in Rows /\ NoJob \in Jobs
         /\ Silence \in [occurrence : Occurrences \cup {"none"}, heard : 0..Threshold]
         /\ 0 \in Operations
BY DEF ReportsAssumption, NoRow, Rows, NoJob, Jobs, Silence, Operations

LEMMA StartListeningKeepsInv ==
  ASSUME ReportsAssumption, Inv, NEW o \in Occurrences, StartListening(o)
  PROVE  Inv'
<1>1. ReportsTypeOK'
  BY DEF StartListening, Inv, ReportsTypeOK, workVars, remoteVars
<1>2. JobHoldsRow'
  BY DEF StartListening, Inv, JobHoldsRow, workVars
<1>3. ClaimsLeft'
  BY DEF StartListening, Inv, ClaimsLeft
<1>4. OperationsAreFresh'
  BY DEF StartListening, Inv, OperationsAreFresh, remoteVars
<1>5. VerdictIsHonest'
  BY DEF StartListening, Inv, VerdictIsHonest, JobIsUnsent, workVars, remoteVars
<1>6. ListensCover'
  BY DEF StartListening, Inv, Owed, ListensCover, workVars, remoteVars
<1>7. HearingIsNumbered'
  BY DEF StartListening, HearingIsNumbered
<1>8. StatusIsHonest'
  BY DEF StartListening, Inv, StatusIsHonest, remoteVars
<1> QED BY <1>1, <1>2, <1>3, <1>4, <1>5, <1>6, <1>7, <1>8 DEF Inv

LEMMA HearKeepsInv ==
  ASSUME ReportsAssumption, Inv, Hear
  PROVE  Inv'
<1>1. ReportsTypeOK'
  BY DEF Hear, Inv, ReportsTypeOK, remoteVars
<1>2. JobHoldsRow'
  BY DEF Hear, Inv, JobHoldsRow
<1>3. ClaimsLeft'
  BY DEF Hear, Inv, ClaimsLeft
<1>4. OperationsAreFresh'
  BY DEF Hear, Inv, OperationsAreFresh, remoteVars
<1>5. VerdictIsHonest'
  BY DEF Hear, Inv, VerdictIsHonest, JobIsUnsent, remoteVars
<1>6. ListensCover'
  BY DEF Hear, Inv, Owed, ListensCover, remoteVars
<1>7. HearingIsNumbered'
  BY DEF Hear, Inv, HearingIsNumbered
<1>8. StatusIsHonest'
  BY DEF Hear, Inv, StatusIsHonest, remoteVars
<1> QED BY <1>1, <1>2, <1>3, <1>4, <1>5, <1>6, <1>7, <1>8 DEF Inv

LEMMA RecoverKeepsInv ==
  ASSUME ReportsAssumption, Inv, Recover
  PROVE  Inv'
<1>1. ReportsTypeOK'
  BY DEF Recover, Recovered, Inv, ReportsTypeOK, Rows, Statuses, Settled, Steps, ownerVars,
       remoteVars
<1>2. JobHoldsRow'
  BY DEF Recover, JobHoldsRow, Working
<1>3. ClaimsLeft'
  BY DEF Recover, Recovered, Inv, ReportsTypeOK, ClaimsLeft, Rows
<1>4. OperationsAreFresh'
  BY DEF Recover, Recovered, Inv, ReportsTypeOK, OperationsAreFresh, ListensCover,
       StatusIsHonest, Rows, Jobs, Settled, ownerVars, remoteVars
<1>5. VerdictIsHonest'
  BY DEF Recover, VerdictIsHonest, JobIsUnsent
<1>6. ListensCover'
  BY DEF Recover, Recovered, Inv, ReportsTypeOK, Owed, ListensCover, Rows, ownerVars, remoteVars
<1>7. HearingIsNumbered'
  BY DEF Recover, Inv, HearingIsNumbered, ownerVars
<1>8. StatusIsHonest'
  BY DEF Recover, Recovered, Inv, ReportsTypeOK, StatusIsHonest, Rows, remoteVars
<1> QED BY <1>1, <1>2, <1>3, <1>4, <1>5, <1>6, <1>7, <1>8 DEF Inv

LEMMA BecomeDueKeepsInv ==
  ASSUME ReportsAssumption, Inv, NEW o \in Occurrences, BecomeDue(o)
  PROVE  Inv'
<1>a. rows' = [rows EXCEPT ![o] = [rows[o] EXCEPT !.due = TRUE]]
  BY DEF BecomeDue
<1>b. [rows[o] EXCEPT !.due = TRUE] \in Rows
  BY DEF Inv, ReportsTypeOK, Rows
<1>c. rows' \in [Occurrences -> Rows]
  BY <1>a, <1>b DEF Inv, ReportsTypeOK
<1>1. ReportsTypeOK'
  BY <1>c DEF BecomeDue, Inv, ReportsTypeOK, ownerVars, workVars, remoteVars
<1>2. JobHoldsRow'
  BY DEF BecomeDue, Inv, JobHoldsRow, workVars
<1>3. ClaimsLeft'
  BY DEF BecomeDue, Inv, ClaimsLeft
<1>4. OperationsAreFresh'
  BY DEF BecomeDue, Inv, OperationsAreFresh, ownerVars, remoteVars
<1>5. VerdictIsHonest'
  BY DEF BecomeDue, Inv, VerdictIsHonest, JobIsUnsent, workVars, remoteVars
<1>6. ListensCover'
  BY DEF BecomeDue, Inv, Owed, ListensCover, ownerVars, workVars, remoteVars
<1>7. HearingIsNumbered'
  BY DEF BecomeDue, Inv, HearingIsNumbered, ownerVars
<1>8. StatusIsHonest'
  BY DEF BecomeDue, Inv, StatusIsHonest, remoteVars
<1> QED BY <1>1, <1>2, <1>3, <1>4, <1>5, <1>6, <1>7, <1>8 DEF Inv

LEMMA ClaimKeepsInv ==
  ASSUME ReportsAssumption, Inv, NEW o \in Occurrences, Claim(o)
  PROVE  Inv'
<1>1. ReportsTypeOK'
  BY DEF Claim, Inv, ReportsTypeOK, Rows
<1>2. JobHoldsRow'
  BY DEF Claim, Inv, ReportsTypeOK, Rows
<1>3. ClaimsLeft'
  BY DEF Claim, Inv, ReportsTypeOK, Rows
<1>4. OperationsAreFresh'
  BY DEF Claim, Inv, ReportsTypeOK, Rows
<1>5. VerdictIsHonest'
  BY DEF Claim, IsFirst, Claimable, RowsWith, Inv, VerdictIsHonest, StatusIsHonest, remoteVars
<1>6. ListensCover'
  BY DEF Claim, Inv, ReportsTypeOK, Rows
<1>7. HearingIsNumbered'
  BY DEF Claim, Inv, HearingIsNumbered, ownerVars
<1>8. StatusIsHonest'
  BY DEF Claim, Inv, ReportsTypeOK, Rows
<1> QED BY <1>1, <1>2, <1>3, <1>4, <1>5, <1>6, <1>7, <1>8 DEF Inv

LEMMA ClaimNothingKeepsInv ==
  ASSUME ReportsAssumption, Inv, ClaimNothing
  PROVE  Inv'
<1>1. ReportsTypeOK'
  BY DEF ClaimNothing, Inv, ReportsTypeOK, Steps, ownerVars, remoteVars
<1>2. JobHoldsRow'
  BY DEF ClaimNothing, JobHoldsRow, Working
<1>3. ClaimsLeft'
  BY DEF ClaimNothing, Inv, ClaimsLeft
<1>4. OperationsAreFresh'
  BY DEF ClaimNothing, Inv, OperationsAreFresh, ownerVars, remoteVars
<1>5. VerdictIsHonest'
  BY DEF ClaimNothing, VerdictIsHonest, JobIsUnsent
<1>6. ListensCover'
  BY DEF ClaimNothing, Inv, Owed, ListensCover, ownerVars, remoteVars
<1>7. HearingIsNumbered'
  BY DEF ClaimNothing, Inv, HearingIsNumbered, ownerVars
<1>8. StatusIsHonest'
  BY DEF ClaimNothing, Inv, StatusIsHonest, remoteVars
<1> QED BY <1>1, <1>2, <1>3, <1>4, <1>5, <1>6, <1>7, <1>8 DEF Inv

LEMMA PreflightFailsKeepsInv ==
  ASSUME ReportsAssumption, Inv, PreflightFails
  PROVE  Inv'
<1>1. ReportsTypeOK'
  BY DEF PreflightFails, Inv, ReportsTypeOK, Settled, Steps, ownerVars, remoteVars
<1>2. JobHoldsRow'
  BY DEF PreflightFails, Inv, JobHoldsRow, Working
<1>3. ClaimsLeft'
  BY DEF PreflightFails, Inv, ClaimsLeft
<1>4. OperationsAreFresh'
  BY DEF PreflightFails, Inv, OperationsAreFresh, ownerVars, remoteVars
<1>5. VerdictIsHonest'
  BY DEF PreflightFails, Inv, VerdictIsHonest, JobIsUnsent, Settled, remoteVars
<1>6. ListensCover'
  BY DEF PreflightFails, Inv, ReportsTypeOK, Owed, ListensCover, ownerVars, remoteVars
<1>7. HearingIsNumbered'
  BY DEF PreflightFails, Inv, HearingIsNumbered, ownerVars
<1>8. StatusIsHonest'
  BY DEF PreflightFails, Inv, StatusIsHonest, remoteVars
<1> QED BY <1>1, <1>2, <1>3, <1>4, <1>5, <1>6, <1>7, <1>8 DEF Inv

LEMMA SubmitKeepsInv ==
  ASSUME ReportsAssumption, Inv, Submit
  PROVE  Inv'
<1>a. job.occurrence \in Occurrences /\ job.op \in Operations /\ job.op <= ended
  BY DEF Inv, JobHoldsRow, Working, Submit, ReportsTypeOK, Jobs, OperationsAreFresh
<1>b. submitted' \in [Occurrences -> Nat] /\ wire' \subseteq Operations
  BY <1>a DEF Submit, Inv, ReportsTypeOK
<1>1. ReportsTypeOK'
  BY <1>b DEF Submit, Inv, ReportsTypeOK, Steps, ownerVars
<1>2. JobHoldsRow'
  BY DEF Submit, Inv, JobHoldsRow, Working
<1>3. ClaimsLeft'
  BY DEF Submit, Inv, ClaimsLeft
<1>4. OperationsAreFresh'
  <2>1. job.op \notin wire \cup counted
    BY DEF Inv, VerdictIsHonest, JobIsUnsent, Submit
  <2>2. rows' = rows /\ ended' = ended /\ counted' = counted /\ wire' = wire \cup {job.op}
    BY DEF Submit, ownerVars
  <2> QED BY <1>a, <2>1, <2>2 DEF Inv, OperationsAreFresh
<1>5. VerdictIsHonest'
  BY DEF Submit, VerdictIsHonest, JobIsUnsent
<1>6. ListensCover'
  BY DEF Submit, Inv, ReportsTypeOK, JobHoldsRow, Working, Owed, ListensCover, ownerVars
<1>7. HearingIsNumbered'
  BY DEF Submit, Inv, HearingIsNumbered, ownerVars
<1>8. StatusIsHonest'
  BY DEF Submit, Inv, JobHoldsRow, OperationsAreFresh, Working, StatusIsHonest
<1> QED BY <1>1, <1>2, <1>3, <1>4, <1>5, <1>6, <1>7, <1>8 DEF Inv

LEMMA AwaitKeepsInv ==
  ASSUME ReportsAssumption, Inv, Await
  PROVE  Inv'
<1>1. ReportsTypeOK'
  BY DEF ReportsAssumption, Await, ClassifyCompletion, Inv, ReportsTypeOK, JobHoldsRow,
       ClaimsLeft, OperationsAreFresh, VerdictIsHonest, JobIsUnsent, Working, Owed,
       ListensCover, HearingIsNumbered, StatusIsHonest, Settled, Steps, ownerVars
<1>2. JobHoldsRow'
  BY DEF Await, Inv, JobHoldsRow, Working
<1>3. ClaimsLeft'
  BY DEF Await, Inv, ClaimsLeft
<1>4. OperationsAreFresh'
  BY DEF ReportsAssumption, Await, ClassifyCompletion, Inv, OperationsAreFresh, ownerVars
<1>5. VerdictIsHonest'
  BY DEF Await, ClassifyCompletion, Inv, OperationsAreFresh, VerdictIsHonest, JobIsUnsent, Settled
<1>6. ListensCover'
  BY DEF Await, Inv, Owed, ListensCover, ownerVars
<1>7. HearingIsNumbered'
  BY DEF Await, Inv, HearingIsNumbered, ownerVars
<1>8. StatusIsHonest'
  BY DEF Await, ClassifyCompletion, Inv, StatusIsHonest
<1> QED BY <1>1, <1>2, <1>3, <1>4, <1>5, <1>6, <1>7, <1>8 DEF Inv

LEMMA SettleKeepsInv ==
  ASSUME ReportsAssumption, Inv, Settle
  PROVE  Inv'
<1>a. /\ job.occurrence \in Occurrences
      /\ verdict \in Statuses
      /\ [rows[job.occurrence] EXCEPT !.status = verdict] \in Rows
  BY DEF Inv, JobHoldsRow, VerdictIsHonest, ReportsTypeOK, Working, Settle, Statuses, Rows, Settled
<1>b. \/ rows' = rows
      \/ rows' = [rows EXCEPT ![job.occurrence] = [@ EXCEPT !.status = verdict]]
  BY DEF Settle, Write, IfSending
<1>c. rows' \in [Occurrences -> Rows]
  BY <1>a, <1>b DEF Inv, ReportsTypeOK
<1>d. \A o \in Occurrences :
        /\ rows'[o].op = rows[o].op /\ rows'[o].claims = rows[o].claims
        /\ \/ rows'[o].status = rows[o].status
           \/ o = job.occurrence /\ rows'[o].status = verdict
  <2>1. CASE rows' = rows
    BY <2>1
  <2>2. CASE rows' = [rows EXCEPT ![job.occurrence] = [@ EXCEPT !.status = verdict]]
    BY <2>2, <1>a DEF Inv, ReportsTypeOK, Rows
  <2> QED BY <1>b, <2>1, <2>2
<1>e. NoJob \in Jobs
  BY Constants
<1>1. ReportsTypeOK'
  BY <1>c, <1>e DEF Inv, ReportsTypeOK, Steps, Settled, ReportsAssumption, Settle, Write,
       ownerVars, remoteVars
<1>2. JobHoldsRow'
  BY DEF Settle, JobHoldsRow, Working
<1>3. ClaimsLeft'
  BY <1>d DEF Settle, Inv, ClaimsLeft, VerdictIsHonest, Settled
<1>4. OperationsAreFresh'
  BY <1>d, <1>a DEF Settle, Inv, JobHoldsRow, OperationsAreFresh, Working, ownerVars, remoteVars
<1>5. VerdictIsHonest'
  BY <1>d DEF Settle, VerdictIsHonest, JobIsUnsent
<1>6. ListensCover'
  BY <1>d, <1>a DEF Settle, Inv, JobHoldsRow, VerdictIsHonest, Working, Owed, ListensCover,
       Settled, ownerVars, remoteVars
<1>7. HearingIsNumbered'
  BY DEF Settle, Inv, HearingIsNumbered, ownerVars
<1>8. StatusIsHonest'
  BY <1>d, <1>a DEF Settle, Inv, JobHoldsRow, VerdictIsHonest, JobIsUnsent, Working,
       StatusIsHonest, Settled, remoteVars
<1> QED BY <1>1, <1>2, <1>3, <1>4, <1>5, <1>6, <1>7, <1>8 DEF Inv

LEMMA DeferKeepsInv ==
  ASSUME ReportsAssumption, Inv, Defer
  PROVE  Inv'
<1> DEFINE claimed == rows[job.occurrence]
            new == IF job.claims >= MaxClaims THEN [claimed EXCEPT !.status = "failed"]
                   ELSE [claimed EXCEPT !.status = "pending", !.due = FALSE]
<1>a. job.occurrence \in Occurrences /\ claimed.claims = job.claims /\ new \in Rows
  BY DEF Inv, JobHoldsRow, ReportsTypeOK, Working, Defer, Statuses, Rows, Settled
<1>b. rows' = rows \/ rows' = [rows EXCEPT ![job.occurrence] = new]
  BY DEF Defer, Write, IfSending
<1>c. rows' \in [Occurrences -> Rows]
  BY <1>a, <1>b DEF Inv, ReportsTypeOK
<1>e. /\ new.op = claimed.op /\ new.claims = claimed.claims /\ new.status \in {"pending", "failed"}
      /\ new.status = "pending" => claimed.claims < MaxClaims
  BY <1>a DEF Inv, ReportsTypeOK, Rows, Jobs, ReportsAssumption
<1>d. \A o \in Occurrences :
        /\ rows'[o].op = rows[o].op /\ rows'[o].claims = rows[o].claims
        /\ \/ rows'[o].status = rows[o].status
           \/ /\ o = job.occurrence /\ rows'[o].status \in {"pending", "failed"}
              /\ rows'[o].status = "pending" => rows[o].claims < MaxClaims
  <2> HIDE DEF new
  <2> QED BY <1>a, <1>b, <1>e DEF Inv, ReportsTypeOK
<1>f. NoJob \in Jobs
  BY Constants
<1>1. ReportsTypeOK'
  BY <1>c, <1>f DEF Inv, ReportsTypeOK, Steps, Settled, ReportsAssumption, Defer, Write,
       ownerVars, remoteVars
<1>2. JobHoldsRow'
  BY DEF Defer, JobHoldsRow, Working
<1>3. ClaimsLeft'
  BY <1>d DEF Inv, ClaimsLeft
<1>4. OperationsAreFresh'
  BY <1>d, <1>a DEF Defer, Inv, JobHoldsRow, OperationsAreFresh, Working, ownerVars, remoteVars
<1>5. VerdictIsHonest'
  BY <1>d DEF Defer, VerdictIsHonest, JobIsUnsent
<1>6. ListensCover'
  BY <1>d, <1>a DEF Defer, Inv, ReportsTypeOK, Owed, ListensCover, ownerVars, remoteVars
<1>7. HearingIsNumbered'
  BY DEF Defer, Inv, HearingIsNumbered, ownerVars
<1>8. StatusIsHonest'
  BY <1>d, <1>a DEF Defer, Inv, JobHoldsRow, VerdictIsHonest, JobIsUnsent, Working,
       StatusIsHonest, remoteVars
<1> QED BY <1>1, <1>2, <1>3, <1>4, <1>5, <1>6, <1>7, <1>8 DEF Inv

LEMMA StatusTurnKeepsInv ==
  ASSUME ReportsAssumption, Inv, StatusTurn
  PROVE  Inv'
<1>1. ReportsTypeOK'
  BY DEF ReportsAssumption, StatusTurn, Inv, ReportsTypeOK, JobHoldsRow, ClaimsLeft,
       OperationsAreFresh, VerdictIsHonest, JobIsUnsent, Working, Owed, ListensCover,
       HearingIsNumbered, StatusIsHonest, Operations, Rows, Jobs, Statuses, Settled, Steps,
       Silence, NoRow, NoJob, ownerVars, workVars, remoteVars
<1>2. JobHoldsRow'
  BY DEF StatusTurn, JobHoldsRow, Working
<1>3. ClaimsLeft'
  BY DEF StatusTurn, Inv, ClaimsLeft
<1>4. OperationsAreFresh'
  BY DEF StatusTurn, Inv, OperationsAreFresh, ownerVars, remoteVars
<1>5. VerdictIsHonest'
  BY DEF StatusTurn, VerdictIsHonest, JobIsUnsent
<1>6. ListensCover'
  BY DEF StatusTurn, Inv, Owed, ListensCover, ownerVars, remoteVars
<1>7. HearingIsNumbered'
  BY DEF StatusTurn, Inv, HearingIsNumbered, ownerVars
<1>8. StatusIsHonest'
  BY DEF StatusTurn, Inv, StatusIsHonest, remoteVars
<1> QED BY <1>1, <1>2, <1>3, <1>4, <1>5, <1>6, <1>7, <1>8 DEF Inv

LEMMA ServerCountsKeepsInv ==
  ASSUME ReportsAssumption, Inv, NEW op \in Operations, ServerCounts(op)
  PROVE  Inv'
<1>1. ReportsTypeOK'
  BY DEF ServerCounts, Inv, ReportsTypeOK, ownerVars, workVars
<1>2. JobHoldsRow'
  BY DEF ServerCounts, Inv, JobHoldsRow, workVars
<1>3. ClaimsLeft'
  BY DEF ServerCounts, Inv, ClaimsLeft
<1>4. OperationsAreFresh'
  BY DEF ServerCounts, Inv, OperationsAreFresh, ListensCover, ownerVars
<1>5. VerdictIsHonest'
  BY DEF ServerCounts, Inv, VerdictIsHonest, JobIsUnsent, workVars
<1>6. ListensCover'
  BY DEF ServerCounts, Inv, Owed, ListensCover, ownerVars, workVars
<1>7. HearingIsNumbered'
  BY DEF ServerCounts, Inv, HearingIsNumbered, ownerVars
<1>8. StatusIsHonest'
  BY DEF ServerCounts, Inv, StatusIsHonest
<1> QED BY <1>1, <1>2, <1>3, <1>4, <1>5, <1>6, <1>7, <1>8 DEF Inv

LEMMA RestartKeepsInv ==
  ASSUME ReportsAssumption, Inv, Restart
  PROVE  Inv'
<1>a. NoJob \in Jobs /\ Silence \in [occurrence : Occurrences \cup {"none"}, heard : 0..Threshold]
  BY Constants
<1>1. ReportsTypeOK'
  <2>1. faults' \in 0..MaxFaults
    BY DEF Inv, ReportsTypeOK, ReportsAssumption, Restart
  <2> QED BY <1>a, <2>1 DEF Inv, ReportsTypeOK, Restart, Steps, remoteVars
<1>2. JobHoldsRow'
  BY DEF Restart, JobHoldsRow, Working
<1>3. ClaimsLeft'
  BY DEF Restart, Inv, ClaimsLeft
<1>4. OperationsAreFresh'
  BY DEF Restart, Inv, OperationsAreFresh, remoteVars
<1>5. VerdictIsHonest'
  BY DEF Restart, VerdictIsHonest, JobIsUnsent
<1>6. ListensCover'
  BY DEF Restart, Inv, ReportsTypeOK, Owed, ListensCover, remoteVars
<1>7. HearingIsNumbered'
  BY DEF Restart, HearingIsNumbered
<1>8. StatusIsHonest'
  BY DEF Restart, Inv, StatusIsHonest, remoteVars
<1> QED BY <1>1, <1>2, <1>3, <1>4, <1>5, <1>6, <1>7, <1>8 DEF Inv

\* What recording a listen does to the rows: settled ones are dropped, and the
\* occurrence gets a row of its own that counts as a listen only if it qualified.
IsNewRow(o, qualified, r) ==
  /\ r \in Rows /\ r.op = ended + 1 /\ r.claims = 0
  /\ r.status \in {"unsupported", "ineligible", "failed", "pending"}
  /\ r.status = "pending" => qualified

LEMMA RecordingTouchesOneRow ==
  ASSUME ReportsAssumption, Inv, NEW o \in Occurrences, NEW qualified \in BOOLEAN,
         ended < MaxListens,
         NEW old \in SUBSET RowsWith(Settled), NEW dropped \in Droppable(old),
         RecordLiveReport(o, qualified, old, dropped)
  PROVE  /\ rows' \in [Occurrences -> Rows]
         /\ \A p \in Occurrences :
              \/ rows'[p] = rows[p]
              \/ rows[p].status \in Settled /\ rows'[p] = NoRow
              \/ p = o /\ rows[p].status \in Settled \cup {"none"}
                   /\ IsNewRow(o, qualified, rows'[p])
<1> DEFINE fresh == [p \in Occurrences |-> IF p \in old THEN NoRow ELSE rows[p]]
           exists == fresh[o].status \in Statuses
           kept == [p \in Occurrences |-> IF p \in dropped THEN NoRow ELSE fresh[p]]
           added == [op |-> ended + 1, born |-> IF exists THEN fresh[o].born ELSE ended + 1,
                   status |-> NewStatus(o, qualified), claims |-> fresh[o].claims, due |-> TRUE]
<1>1. \/ rows' = rows
      \/ /\ rows' = [kept EXCEPT ![o] = added]
         /\ ~exists \/ (fresh[o].status = "ineligible" /\ qualified)
  BY DEF RecordLiveReport
<1>2. NoRow \in Rows /\ rows \in [Occurrences -> Rows] /\ ended + 1 \in Operations
  BY Constants DEF Inv, ReportsTypeOK, Operations, ReportsAssumption
<1>3. fresh \in [Occurrences -> Rows] /\ kept \in [Occurrences -> Rows]
  BY <1>2
<1>4. \A p \in Occurrences :
        \/ kept[p] = rows[p]
        \/ rows[p].status \in Settled /\ kept[p] = NoRow
  <2>1. dropped \subseteq RowsWith(Settled)
    BY DEF Droppable
  <2>2. \A p \in old \cup dropped : rows[p].status \in Settled
    BY <2>1 DEF RowsWith
  <2> QED BY <2>2
<1>5. /\ NewStatus(o, qualified) \in {"unsupported", "ineligible", "failed", "pending"}
      /\ NewStatus(o, qualified) = "pending" => qualified
  BY DEF NewStatus
<1>6. CASE rows' = rows
  BY <1>6, <1>2
<1>7. CASE /\ rows' = [kept EXCEPT ![o] = added]
           /\ ~exists \/ (fresh[o].status = "ineligible" /\ qualified)
  <2>1. fresh[o].claims = 0 /\ rows[o].status \in Settled \cup {"none"}
    <3>1. CASE o \in old
      BY <3>1 DEF NoRow, RowsWith
    <3>2. CASE o \notin old
      BY <3>2, <1>7, <1>2 DEF Inv, ClaimsLeft, Rows, Statuses, Settled
    <3> QED BY <3>1, <3>2
  <2>2. added \in Rows
    BY <2>1, <1>2, <1>3, <1>5 DEF Rows, Statuses, Settled, ReportsAssumption
  <2>3. IsNewRow(o, qualified, added)
    BY <2>1, <2>2, <1>5 DEF IsNewRow
  <2>4. rows' \in [Occurrences -> Rows] /\ rows'[o] = added
        /\ \A p \in Occurrences \ {o} : rows'[p] = kept[p]
    <3> HIDE DEF kept, added
    <3> QED BY <2>2, <1>3, <1>7
  <2> HIDE DEF kept, added
  <2> QED BY <2>1, <2>3, <2>4, <1>4
<1> HIDE DEF kept, added, exists, fresh
<1> QED BY <1>1, <1>6, <1>7

\* The end of a listening: the rows change as recording says, or, when the write
\* fails, not at all.
LEMMA EndListeningKeepsInv ==
  ASSUME ReportsAssumption, Inv, NEW reason \in TerminalReasons, EndListening(reason)
  PROVE  Inv'
<1> DEFINE o == evidence.occurrence
           qualified == Qualifies(reason)
<1>1. o \in Occurrences /\ ended < MaxListens /\ qualified \in BOOLEAN /\ evidence' = Silence
      /\ ended' = ended + 1 /\ ended \in Operations /\ ended' \in Operations
  BY DEF EndListening, Inv, HearingIsNumbered, ReportsTypeOK, Operations, Qualifies,
         ReportsAssumption
<1>2. /\ listens' = IF qualified THEN [listens EXCEPT ![o] = @ + 1] ELSE listens
      /\ UNCHANGED <<workVars, remoteVars>>
  BY DEF EndListening
<1>3. /\ rows' \in [Occurrences -> Rows]
      /\ \A p \in Occurrences :
           \/ rows'[p] = rows[p]
           \/ rows[p].status \in Settled /\ rows'[p] = NoRow
           \/ p = o /\ rows[p].status \in Settled \cup {"none"}
                /\ IsNewRow(o, qualified, rows'[p])
  <2>1. CASE rows' = rows
    BY <2>1 DEF Inv, ReportsTypeOK
  <2>2. CASE \E old \in SUBSET RowsWith(Settled) :
               \E dropped \in Droppable(old) : RecordLiveReport(o, qualified, old, dropped)
    <3> HIDE DEF o, qualified
    <3> QED BY <2>2, <1>1, RecordingTouchesOneRow
  <2> QED BY <2>1, <2>2 DEF EndListening
<1>4. listens' \in [Occurrences -> Nat] /\ faults' \in 0..MaxFaults
  BY <1>1, <1>2 DEF EndListening, Inv, ReportsTypeOK, ReportsAssumption
<1>5. ReportsTypeOK'
  BY <1>1, <1>2, <1>3, <1>4, Constants
     DEF Inv, ReportsTypeOK, workVars, remoteVars
<1> HIDE DEF o, qualified
<1>6. JobHoldsRow'
  BY <1>2, <1>3 DEF Inv, JobHoldsRow, workVars, Settled
<1>7. ClaimsLeft'
  BY <1>3 DEF Inv, ClaimsLeft, IsNewRow, NoRow, ReportsAssumption
<1>8. OperationsAreFresh'
  <2>1. \A p \in Occurrences : rows[p].op \in Nat /\ rows'[p].op \in Nat
    BY <1>3 DEF Inv, ReportsTypeOK, Rows, Operations
  <2>2. ended \in Nat /\ \A op \in wire \cup counted : op \in Nat
    BY DEF Inv, ReportsTypeOK, Operations
  <2>3. \A p \in Occurrences :
          /\ rows'[p].op <= ended'
          /\ rows'[p].status # "none" =>
               \/ rows'[p].op = rows[p].op /\ rows[p].status # "none"
               \/ p = o /\ rows'[p].op = ended + 1
    BY <1>1, <1>3, <2>1, <2>2 DEF Inv, OperationsAreFresh, IsNewRow, NoRow
  <2>4. UNCHANGED <<wire, counted>>
    BY <1>2 DEF remoteVars
  <2> QED BY <1>1, <2>1, <2>2, <2>3, <2>4 DEF Inv, OperationsAreFresh
<1>9. VerdictIsHonest'
  BY <1>2 DEF Inv, VerdictIsHonest, JobIsUnsent, workVars, remoteVars
<1>10. ListensCover'
  <2> SUFFICES ASSUME NEW p \in Occurrences
               PROVE  submitted'[p] + Owed(p)' <= listens'[p]
    BY DEF ListensCover
  <2>1. submitted[p] \in Nat /\ listens[p] \in Nat /\ submitted[p] + Owed(p) <= listens[p]
        /\ submitted' = submitted /\ reporter' = reporter /\ job' = job
    BY <1>2 DEF Inv, ReportsTypeOK, ListensCover, workVars, remoteVars
  <2>2. \/ Owed(p)' = Owed(p)
        \/ Owed(p)' = 0
        \/ p = o /\ qualified /\ Owed(p)' = 1
    <3>1. CASE rows'[p] = rows[p]
      BY <3>1, <2>1 DEF Owed
    <3>2. CASE rows[p].status \in Settled /\ rows'[p] = NoRow
      BY <3>2, <2>1 DEF Owed, NoRow, Settled
    <3>3. CASE /\ p = o /\ rows[p].status \in Settled \cup {"none"}
               /\ IsNewRow(o, qualified, rows'[p])
      BY <3>3, <2>1 DEF Owed, IsNewRow, Settled
    <3> QED BY <1>3, <3>1, <3>2, <3>3
  <2>3. Owed(p) \in {0, 1}
    BY DEF Owed
  <2>4. listens'[p] >= listens[p] /\ (p = o /\ qualified => listens'[p] = listens[p] + 1)
    BY <1>1, <1>2, <2>1 DEF Inv, ReportsTypeOK
  <2> HIDE DEF Owed
  <2>5. CASE p = o /\ qualified /\ Owed(p)' = 1
    <3>1. Owed(p) = 0 \/ Owed(p) = 1
      BY <2>3
    <3> QED BY <3>1, <2>1, <2>4, <2>5
  <2>6. CASE Owed(p)' = Owed(p) \/ Owed(p)' = 0
    <3>1. listens'[p] \in Nat /\ Owed(p) \in Nat /\ Owed(p)' <= Owed(p)
      BY <1>4, <2>3, <2>6
    <3> QED BY <3>1, <2>1, <2>4, <2>6
  <2> QED BY <2>2, <2>5, <2>6
<1>11. HearingIsNumbered'
  BY <1>1 DEF HearingIsNumbered
<1>12. StatusIsHonest'
  <2> SUFFICES ASSUME NEW p \in Occurrences
               PROVE  /\ rows'[p].status = "confirmed" => rows'[p].op \in counted
                      /\ rows'[p].status \in {"pending", "ineligible", "failed", "unsupported"}
                           => rows'[p].op \notin counted \cup wire
    BY <1>2 DEF StatusIsHonest, remoteVars
  <2>1. ended + 1 \notin counted \cup wire
    BY <1>1 DEF Inv, OperationsAreFresh, ReportsTypeOK, Operations
  <2> QED BY <1>3, <2>1 DEF Inv, StatusIsHonest, IsNewRow, NoRow
<1> QED BY <1>5, <1>6, <1>7, <1>8, <1>9, <1>10, <1>11, <1>12 DEF Inv

-----------------------------------------------------------------------------
LEMMA InitImpliesInv ==
  ASSUME ReportsAssumption, Init
  PROVE  Inv
<1>1. ReportsTypeOK
  <2>1. /\ evidence \in [occurrence : Occurrences \cup {"none"}, heard : 0..Threshold]
        /\ rows \in [Occurrences -> Rows] /\ job \in Jobs /\ ended \in Operations
    BY Constants DEF Init
  <2>2. submitted \in [Occurrences -> Nat] /\ listens \in [Occurrences -> Nat]
        /\ faults \in 0..MaxFaults
    BY DEF Init, ReportsAssumption
  <2> QED BY <2>1, <2>2 DEF Init, ReportsTypeOK, Steps
<1>2. JobHoldsRow /\ ClaimsLeft /\ VerdictIsHonest /\ HearingIsNumbered /\ StatusIsHonest
  BY DEF Init, JobHoldsRow, Working, ClaimsLeft, VerdictIsHonest, JobIsUnsent,
         HearingIsNumbered, StatusIsHonest, NoRow, ReportsAssumption
<1>3. OperationsAreFresh /\ ListensCover
  BY DEF Init, OperationsAreFresh, ListensCover, Owed, NoRow
<1> QED BY <1>1, <1>2, <1>3 DEF Inv

LEMMA NextKeepsInv ==
  ASSUME ReportsAssumption, Inv, [Next]_vars
  PROVE  Inv'
<1>1. CASE Owner
  BY <1>1, StartListeningKeepsInv, HearKeepsInv, EndListeningKeepsInv DEF Owner
<1>2. CASE Reporter
  BY <1>2, RecoverKeepsInv, ClaimKeepsInv, ClaimNothingKeepsInv, PreflightFailsKeepsInv,
     SubmitKeepsInv, AwaitKeepsInv, SettleKeepsInv, DeferKeepsInv, StatusTurnKeepsInv
     DEF Reporter
<1>3. CASE \E o \in Occurrences : BecomeDue(o)
  BY <1>3, BecomeDueKeepsInv
<1>4. CASE \E op \in Operations : ServerCounts(op)
  BY <1>4, ServerCountsKeepsInv
<1>5. CASE Restart
  BY <1>5, RestartKeepsInv
<1>6. CASE UNCHANGED vars
  BY <1>6 DEF vars, ownerVars, workVars, remoteVars, Inv, ReportsTypeOK, JobHoldsRow, ClaimsLeft,
     OperationsAreFresh, VerdictIsHonest, JobIsUnsent, ListensCover, Owed,
     HearingIsNumbered, StatusIsHonest
<1> QED BY <1>1, <1>2, <1>3, <1>4, <1>5, <1>6 DEF Next

\* The invariant holds in every state of every behaviour of the owner, the reporter,
\* the server and the crashes.
THEOREM ReportsInvariant == ReportsSpec => []Inv
<1>1. Init => Inv
  BY InitImpliesInv, ReportsAssumption
<1>2. Inv /\ [Next]_vars => Inv'
  BY NextKeepsInv, ReportsAssumption
<1> QED BY <1>1, <1>2, PTL DEF ReportsSpec

\* Types: the journal, the job of the reporter and the numbers of the operations.
THEOREM ReportsTypes == ReportsSpec => []ReportsTypeOK
<1>1. Inv => ReportsTypeOK
  BY DEF Inv
<1> QED BY <1>1, ReportsInvariant, PTL

\* A completed listen is submitted once, however often the daemon is killed, the journal
\* pruned, a row promoted or an answer lost (claim_live_report, recover_live_reports).
THEOREM ListenIsSubmittedOnce == ReportsSpec => []OneSubmissionPerListen
<1>1. Inv => OneSubmissionPerListen
  <2> SUFFICES ASSUME Inv, NEW o \in Occurrences
               PROVE  submitted[o] <= listens[o]
    BY DEF OneSubmissionPerListen
  <2>1. submitted[o] \in Nat /\ listens[o] \in Nat /\ submitted[o] + Owed(o) <= listens[o]
    BY DEF Inv, ReportsTypeOK, ListensCover
  <2> QED BY <2>1 DEF Owed
<1> QED BY <1>1, ReportsInvariant, PTL

\* The status of a row does not mislead about what the server did or may still do
\* (settle_live_report, defer_live_report).
THEOREM StatusTellsTheTruth == ReportsSpec => []StatusIsHonest
<1>1. Inv => StatusIsHonest
  BY DEF Inv
<1> QED BY <1>1, ReportsInvariant, PTL

(***************************************************************************)
(* Theorems about BookContinuity, for any number and length of parts and   *)
(* any number of starts, commands and failures.                            *)
(***************************************************************************)


(***************************************************************************)
(* The invariant.                                                          *)
(***************************************************************************)

PlayStatuses == {"Idle", "Loading", "Active", "Paused", "Stopped", "Completed", "Error", "Kept"}
Outcomes == {"none", "natural", "failure", "skip", "restarted"}
Told == {"fenced", "writing", "settling"}
Chosen == {"chosen", "resolved", "decided"}
Rounds == {"idle", "observed", "loaded"} \cup Chosen \cup Told
Owners == [part : 1..Parts, last : 1..Parts, pos : 0..Length, status : PlayStatuses,
           ready : BOOLEAN, seek : 0..NoSeek, plays : BOOLEAN, epoch : Nat, attempt : BOOLEAN]
BookRows == [part : 0..Parts, whole : Nat, valid : BOOLEAN, flush : BOOLEAN]
Reporters == [pc : Rounds, start : Nat, part : 0..Parts, epoch : Nat,
              kind : {"none", "sample", "completed", "stopped"}, pos : Nat, fin : BOOLEAN]

BookTypeOK ==
  /\ own \in Owners /\ own.part <= own.last
  /\ closed \in [1..Parts -> Outcomes]
  /\ row \in BookRows
  /\ rep \in Reporters
  /\ remote \in [pos : Nat, fin : BOOLEAN]
  /\ starts \in Nat
  /\ heard \in SUBSET Nat /\ latest \in Nat /\ earned \in BOOLEAN /\ leftover \in BOOLEAN

\* What plays is heard, an end is an end, and a seek is pending only while nothing sounds.
PlaysHeard ==
  /\ own.status = "Active" => /\ Whole(own) \in heard /\ latest = Whole(own)
                              /\ own.seek = NoSeek
  /\ own.status = "Completed" => own.pos = Length
  /\ own.seek # NoSeek => own.status \in {"Loading", "Paused"} /\ own.ready

\* A part whose last attempt ended by itself was heard to its end.
OutcomesAreHeard ==
  /\ \A p \in 1..Parts : HeardOut(p) => Offset(p) + Length \in heard
  /\ HeardOut(Parts) => earned

\* The mark of a stop keeps a place that was heard; the last, unless something was heard since.
EndHeard(p, whole) == whole = Offset(p) + Length /\ whole \in heard
MarksAreHeard ==
  /\ row.valid \/ row.flush => row.part = own.part
  /\ row.flush => row.whole \in heard
  /\ row.flush /\ ~leftover => /\ own.status # "Active"
                               /\ row.whole = latest \/ EndHeard(row.part, row.whole)

\* Before anything was heard, the place that plays next is the place of the row.
BeginsAtRow ==
  heard = {} =>
    /\ ~own.ready /\ own.seek = NoSeek /\ own.status \notin {"Active", "Completed"}
    /\ row.valid /\ closed[own.part] = "none"
         => Whole(own) = row.whole /\ own.pos < Length /\ own.attempt

\* The reporter never runs ahead of the owner, and at the same epoch it sees the same part.
Behind ==
  rep.pc # "idle" =>
    /\ rep.part # 0 /\ rep.kind # "none"
    /\ rep.start <= starts /\ rep.epoch <= own.epoch
    /\ rep.epoch = own.epoch => rep.start = starts /\ rep.part = own.part
    /\ rep.fin /\ rep.start = starts => earned
    /\ rep.fin => rep.pc \in {"decided"} \cup Told

\* What it will tell, once it is chosen, was heard. The place of a stop is only certain while
\* nothing else has been commanded, and after the second look at the owner.
TellsHeard ==
  rep.pc # "idle" /\ rep.start = starts /\ ~rep.fin =>
    /\ rep.kind = "sample" => rep.pos \in heard
    /\ rep.kind = "completed" /\ rep.pc \in Chosen \cup Told => rep.pos \in heard
    /\ rep.kind = "stopped" /\ rep.pc \in Told => rep.pos \in heard

\* And it is then the place of the row.
TellsTheMark ==
  rep.pc # "idle" /\ rep.kind = "stopped" /\ rep.epoch = own.epoch =>
    /\ own.status = "Stopped" /\ own.seek = NoSeek
    /\ rep.pc = "loaded" => rep.pos = row.whole
    /\ rep.pc \in Chosen \cup Told => row.flush /\ (rep.fin \/ rep.pos = row.whole)

BookInv ==
  /\ BookTypeOK
  /\ PlaysHeard
  /\ OutcomesAreHeard
  /\ MarksAreHeard
  /\ BeginsAtRow
  /\ Behind
  /\ TellsHeard
  /\ TellsTheMark

(***************************************************************************)
(* Parts and places.                                                       *)
(***************************************************************************)

\* The parts follow each other, as long as each other.
LEMMA OffsetFacts ==
  /\ \A p \in 1..Parts : Offset(p) \in Nat
  /\ Offset(1) = 0
  /\ Length \in Nat /\ Parts \in Nat /\ 1 \in 1..Parts /\ Parts \in 1..Parts /\ Length > 0
<1> USE BookAssumption
<1>1. ASSUME NEW p \in 1..Parts PROVE Offset(p) \in Nat
  <2>1. p - 1 \in Nat
    OBVIOUS
  <2>2. (p - 1) * Length \in Nat
    BY <2>1, \A a, b \in Nat : a * b \in Nat
  <2> QED
    BY <2>2 DEF Offset
<1>2. Offset(1) = 0
  BY DEF Offset
<1> QED
  BY <1>1, <1>2

\* Multiplication by a length keeps the order.
LEMMA ProductsGrow ==
  ASSUME NEW a \in Nat, NEW b \in Nat, NEW k \in Nat, a <= b
  PROVE  a * k <= b * k
<1>1. PICK c \in Nat : b = a + c
  <2>1. b - a \in Nat /\ b = a + (b - a)
    OBVIOUS
  <2> QED
    BY <2>1
<1>2. b * k = a * k + c * k
  BY <1>1
<1>3. a * k \in Nat /\ c * k \in Nat
  BY \A x, y \in Nat : x * y \in Nat
<1> QED
  BY <1>2, <1>3

\* A place of the book lies in the part that PartAt gives: not before it, not after it.
LEMMA PlaceInPart ==
  ASSUME NEW w \in Nat, w < Duration
  PROVE  /\ PartAt(w) \in 1..Parts
         /\ Offset(PartAt(w)) <= w
         /\ w < Offset(PartAt(w)) + Length
<1> USE BookAssumption
<1> DEFINE q == w \div Length
           r == w % Length
<1>1. /\ q \in Nat /\ r \in Nat /\ r < Length
      /\ w = q * Length + r
  OBVIOUS
<1> HIDE DEF q, r
<1>2. q < Parts
  <2> SUFFICES ASSUME q >= Parts PROVE FALSE
    BY <1>1
  <2>1. Parts * Length <= q * Length
    BY <1>1, ProductsGrow
  <2>2. Parts * Length \in Nat /\ q * Length \in Nat
    BY <1>1, \A x, y \in Nat : x * y \in Nat
  <2> QED
    BY <1>1, <2>1, <2>2 DEF Duration
<1>3. ASSUME NEW p \in 1..Parts
      PROVE  Offset(p) <= w <=> p <= q + 1
  <2>1. CASE p <= q + 1
    <3>1. (p - 1) * Length <= q * Length
      BY <1>1, <2>1, ProductsGrow
    <3>2. (p - 1) * Length \in Nat /\ q * Length \in Nat
      BY <1>1, \A x, y \in Nat : x * y \in Nat
    <3> QED
      BY <1>1, <2>1, <3>1, <3>2 DEF Offset
  <2>2. CASE ~(p <= q + 1)
    <3>1. (q + 1) * Length <= (p - 1) * Length
      BY <1>1, <2>2, ProductsGrow
    <3>2. (q + 1) * Length = q * Length + Length
      BY <1>1
    <3>3. (p - 1) * Length \in Nat /\ q * Length \in Nat
      BY <1>1, \A x, y \in Nat : x * y \in Nat
    <3> QED
      BY <1>1, <2>2, <3>1, <3>2, <3>3 DEF Offset
  <2> QED
    BY <2>1, <2>2
<1>4. {p \in 1..Parts : Offset(p) <= w} = 1..(q + 1)
  BY <1>1, <1>2, <1>3
<1>5. PartAt(w) = q + 1
  <2>1. Cardinality(1..(q + 1)) = q + 1
    <3>1. 1 \in Int /\ q + 1 \in Int /\ ~(1 > q + 1) /\ q + 1 - 1 + 1 = q + 1
      BY <1>1
    <3>2. Cardinality(1..(q + 1)) = IF 1 > q + 1 THEN 0 ELSE q + 1 - 1 + 1
      BY <3>1, FS_Interval
    <3> QED
      BY <3>1, <3>2
  <2>2. PartAt(w) = Cardinality(1..(q + 1))
    BY <1>4, Zenon DEF PartAt
  <2> QED
    BY <2>1, <2>2
<1>6. Offset(q + 1) = q * Length /\ q * Length \in Nat
  BY <1>1, \A x, y \in Nat : x * y \in Nat DEF Offset
<1> QED
  BY <1>1, <1>2, <1>5, <1>6

(***************************************************************************)
(* The first state, and the types.                                         *)
(***************************************************************************)

\* It holds at first.
LEMMA BookInitInv == BookInit => BookInv
<1> SUFFICES ASSUME BookInit PROVE BookInv
  OBVIOUS
<1> USE OffsetFacts
<1>1. BookTypeOK
  <2>1. remote \in [pos : Nat, fin : BOOLEAN]
    <3>1. Duration \in Nat
      BY \A x, y \in Nat : x * y \in Nat DEF Duration
    <3>2. remote \in [pos : 0..Duration, fin : {FALSE}]
      BY DEF BookInit
    <3>3. 0..Duration \subseteq Nat /\ {FALSE} \subseteq BOOLEAN
      BY <3>1
    <3> QED
      BY <3>2, <3>3
  <2>2. own \in Owners
    BY DEF BookInit, Nothing, NoSeek, Owners, PlayStatuses
  <2>3. row \in BookRows /\ closed \in [1..Parts -> Outcomes]
    BY DEF BookInit, Unbound, BookRows, Outcomes
  <2>4. rep \in Reporters
    BY DEF BookInit, Quiet, Reporters, Rounds, Told, Chosen
  <2>5. own.part <= own.last
    BY DEF BookInit, Nothing
  <2>6. starts \in Nat /\ heard \in SUBSET Nat /\ latest \in Nat /\ earned \in BOOLEAN /\ leftover \in BOOLEAN
    BY DEF BookInit
  <2> QED
    BY <2>1, <2>2, <2>3, <2>4, <2>5, <2>6 DEF BookTypeOK
<1>2. PlaysHeard /\ BeginsAtRow
  BY DEF BookInit, PlaysHeard, BeginsAtRow, Nothing, Unbound, NoSeek
<1>3. OutcomesAreHeard /\ MarksAreHeard
  BY DEF BookInit, OutcomesAreHeard, MarksAreHeard, HeardOut, Unbound
<1>4. Behind /\ TellsHeard /\ TellsTheMark
  BY DEF BookInit, Behind, TellsHeard, TellsTheMark, Quiet
<1> QED
  BY <1>1, <1>2, <1>3, <1>4 DEF BookInv

(***************************************************************************)
(* The steps of the owner, as the reporter sees them.                      *)
(***************************************************************************)

\* The fields of the variables, by name.
LEMMA Fields ==
  ASSUME BookTypeOK
  PROVE  /\ own.part \in 1..Parts /\ own.last \in 1..Parts /\ own.part <= own.last
         /\ own.pos \in 0..Length /\ own.seek \in 0..NoSeek
         /\ own.epoch \in Nat /\ own.epoch + 1 \in Nat /\ starts \in Nat
         /\ own.status \in PlayStatuses /\ own.ready \in BOOLEAN /\ own.plays \in BOOLEAN
         /\ own.attempt \in BOOLEAN
         /\ row.part \in 0..Parts /\ row.whole \in Nat
         /\ row.valid \in BOOLEAN /\ row.flush \in BOOLEAN
         /\ Offset(own.part) \in Nat /\ Whole(own) \in Nat
         /\ NoSeek \in 0..NoSeek /\ 0 \in 0..Length
<1> USE OffsetFacts
<1>1. /\ own.part \in 1..Parts /\ own.last \in 1..Parts /\ own.part <= own.last
      /\ own.pos \in 0..Length /\ own.seek \in 0..NoSeek /\ own.epoch \in Nat
      /\ own.status \in PlayStatuses /\ own.ready \in BOOLEAN /\ own.plays \in BOOLEAN
      /\ own.attempt \in BOOLEAN
  BY DEF BookTypeOK, Owners
<1>2. /\ row.part \in 0..Parts /\ row.whole \in Nat
      /\ row.valid \in BOOLEAN /\ row.flush \in BOOLEAN /\ starts \in Nat
  BY DEF BookTypeOK, BookRows
<1>3. Whole(own) \in Nat
  BY <1>1 DEF Whole
<1>4. NoSeek \in 0..NoSeek
  BY DEF NoSeek
<1> QED
  BY <1>1, <1>2, <1>3, <1>4

\* What a checkpoint and a stop leave of a row.
LEMMA RowFacts ==
  ASSUME NEW r \in BookRows, NEW w \in Nat
  PROVE  /\ Recorded(r, w) \in BookRows /\ Marked(r, w) \in BookRows
         /\ Recorded(r, w).part = r.part /\ Recorded(r, w).valid = r.valid
         /\ Recorded(r, w).flush = r.flush
         /\ Recorded(r, w).whole = IF r.part = 0 \/ r.flush THEN r.whole ELSE w
         /\ Marked(r, w).part = r.part /\ Marked(r, w).valid = r.valid
         /\ Marked(r, w).flush = (r.valid \/ r.flush)
         /\ Marked(r, w).whole = IF r.valid THEN w ELSE r.whole
  BY DEF BookRows, Recorded, Marked

\* What a start binds.
LEMMA BoundFacts ==
  /\ Unbound \in BookRows /\ Unbound.part = 0 /\ ~Unbound.valid /\ ~Unbound.flush
  /\ \A p \in 1..Parts, w \in Nat :
       /\ Bound(p, w) \in BookRows /\ Bound(p, w).part = p /\ Bound(p, w).whole = w
       /\ Bound(p, w).valid /\ ~Bound(p, w).flush
  BY OffsetFacts DEF Unbound, Bound, BookRows

\* What the reporter holds survives any step that gives the owner a new epoch, or leaves the
\* part alone, and a stop and its row too.
LEMMA ReporterStands ==
  ASSUME BookTypeOK, BookTypeOK', Behind, TellsHeard, TellsTheMark, UNCHANGED rep,
         own'.epoch >= own.epoch,
         \/ starts' = starts /\ heard \subseteq heard' /\ (earned => earned')
         \/ starts' = starts + 1 /\ own'.epoch > own.epoch,
         own'.epoch = own.epoch =>
           /\ own'.part = own.part
           /\ own.status = "Stopped" => UNCHANGED <<own, row>>
  PROVE  Behind' /\ TellsHeard' /\ TellsTheMark'
<1>0. /\ rep.start \in Nat /\ rep.epoch \in Nat /\ starts \in Nat
      /\ own.epoch \in Nat /\ own'.epoch \in Nat
  BY DEF BookTypeOK, Reporters, Owners
<1>1. ASSUME rep.pc # "idle" PROVE rep.start = starts' => rep.start = starts /\ starts' = starts
  BY <1>0, <1>1 DEF Behind
<1>2. ASSUME rep.pc # "idle", rep.epoch = own'.epoch
      PROVE  /\ rep.epoch = own.epoch /\ own'.epoch = own.epoch /\ starts' = starts
             /\ own'.part = own.part
  BY <1>0, <1>2 DEF Behind
<1>3. Behind'
  <2>1. rep.pc # "idle" => rep.start <= starts' /\ rep.epoch <= own'.epoch
    BY <1>0 DEF Behind
  <2> QED
    BY <1>0, <1>1, <1>2, <2>1 DEF Behind
<1>4. TellsHeard'
  BY <1>1, <1>0 DEF TellsHeard
<1>5. TellsTheMark'
  BY <1>2 DEF TellsTheMark
<1> QED
  BY <1>3, <1>4, <1>5

\* Whatever is started, nothing of it has been heard.
LEMMA StartSafe ==
  ASSUME BookInv, NEW part \in 1..Parts, NEW end \in 1..Parts, part <= end,
         NEW pos \in 0..(Length - 1), NEW bound \in BookRows, Start(part, end, pos, bound),
         ~bound.flush,
         bound.valid => bound.part = part /\ bound.whole = Offset(part) + pos
  PROVE  BookInv'
<1> USE DEF BookInv
<1>0. /\ own.epoch \in Nat /\ starts \in Nat /\ Offset(part) \in Nat /\ pos \in Nat
      /\ pos < Length /\ pos \in 0..Length /\ Length \in Nat
  BY Fields, OffsetFacts
<1>1. /\ own' = [Nothing EXCEPT !.part = part, !.last = end, !.pos = pos, !.status = "Loading",
                               !.epoch = own.epoch + 1, !.attempt = TRUE]
      /\ closed' = [p \in 1..Parts |-> "none"] /\ row' = bound /\ starts' = starts + 1
      /\ heard' = {} /\ latest' = Offset(part) + pos /\ earned' = FALSE /\ leftover' = FALSE
      /\ rep' = rep /\ remote' = remote
  BY DEF Start, reporterVars
<1>2. /\ own'.part = part /\ own'.last = end /\ own'.pos = pos /\ own'.status = "Loading"
      /\ own'.epoch = own.epoch + 1 /\ own'.attempt /\ ~own'.ready /\ own'.seek = NoSeek
  BY <1>1 DEF Nothing
<1>3. own' \in Owners
  <2>1. "Loading" \in PlayStatuses
    BY DEF PlayStatuses
  <2>2. NoSeek \in 0..NoSeek
    BY <1>0 DEF NoSeek
  <2>3. own' = [part |-> part, last |-> end, pos |-> pos, status |-> "Loading", ready |-> FALSE,
                seek |-> NoSeek, plays |-> FALSE, epoch |-> own.epoch + 1, attempt |-> TRUE]
    BY <1>1 DEF Nothing
  <2> QED
    BY <1>0, <2>1, <2>2, <2>3 DEF Owners
<1>4. BookTypeOK'
  <2>1. starts' \in Nat /\ heard' \in SUBSET Nat
    BY <1>0, <1>1
  <2>3. latest' \in Nat
    BY <1>0, <1>1
  <2>2. closed' \in [1..Parts -> Outcomes]
    BY <1>1 DEF Outcomes
  <2> QED
    BY <1>1, <1>2, <1>3, <2>1, <2>2, <2>3 DEF BookTypeOK
<1>5. PlaysHeard' /\ BeginsAtRow'
  <2>1. PlaysHeard'
    BY <1>2 DEF PlaysHeard
  <2>2. Whole(own') = Offset(part) + pos /\ pos < Length
    BY <1>0, <1>2 DEF Whole
  <2>3. closed'[own'.part] = "none" /\ row'.valid => row'.whole = Offset(part) + pos
    BY <1>1
  <2> QED
    BY <1>2, <2>1, <2>2, <2>3 DEF BeginsAtRow
<1>6. OutcomesAreHeard' /\ MarksAreHeard'
  <2>1. \A p \in 1..Parts : ~HeardOut(p)'
    BY <1>1 DEF HeardOut
  <2>2. MarksAreHeard'
    BY <1>1, <1>2 DEF MarksAreHeard
  <2> QED
    BY <2>1, <2>2, OffsetFacts DEF OutcomesAreHeard
<1>7. Behind' /\ TellsHeard' /\ TellsTheMark'
  <2>1. UNCHANGED rep /\ starts' = starts + 1
    BY <1>1
  <2>2. own'.epoch >= own.epoch /\ own'.epoch > own.epoch /\ own'.epoch # own.epoch
    BY <1>0, <1>2
  <2> QED
    BY <1>4, <2>1, <2>2, ReporterStands
<1> QED
  BY <1>4, <1>5, <1>6, <1>7

StatusNames ==
  /\ "Loading" \in PlayStatuses /\ "Active" \in PlayStatuses /\ "Paused" \in PlayStatuses
  /\ "Stopped" \in PlayStatuses /\ "Completed" \in PlayStatuses /\ "Error" \in PlayStatuses
  /\ "Kept" \in PlayStatuses
\* The statuses by name.
LEMMA StatusesNamed == StatusNames
  BY DEF StatusNames, PlayStatuses

\* A step after which nothing sounds: what has to be shown of it.
LEMMA SilentSafe ==
  ASSUME BookInv,
         own' \in Owners, own'.part = own.part, own'.last = own.last,
         own'.epoch >= own.epoch, own'.epoch = own.epoch => own.status # "Stopped",
         closed' \in [1..Parts -> Outcomes], \A p \in 1..Parts : HeardOut(p)' => HeardOut(p),
         row' \in BookRows, row'.part = row.part, row'.valid = row.valid,
         UNCHANGED <<starts, heard, latest, earned, leftover, rep, remote>>,
         own'.status # "Active",
         own'.status = "Completed" => own'.pos = Length,
         own'.seek # NoSeek => own'.status \in {"Loading", "Paused"} /\ own'.ready,
         row'.flush => /\ row'.whole \in heard /\ row'.part = own.part
                       /\ ~leftover => row'.whole = latest \/ EndHeard(row.part, row'.whole),
         heard = {} =>
           /\ ~own'.ready /\ own'.seek = NoSeek /\ own'.status # "Completed"
           /\ row.valid /\ closed'[own.part] = "none"
                => Whole(own') = row'.whole /\ own'.pos < Length /\ own'.attempt
  PROVE  BookInv'
<1> USE DEF BookInv
<1>1. BookTypeOK'
  BY Fields DEF BookTypeOK
<1>2. Behind' /\ TellsHeard' /\ TellsTheMark'
  <2>1. own.status = "Stopped" => own'.epoch # own.epoch
    OBVIOUS
  <2> QED
    BY <1>1, <2>1, ReporterStands
<1>3. PlaysHeard'
  BY DEF PlaysHeard
<1>4. OutcomesAreHeard'
  BY OffsetFacts DEF OutcomesAreHeard
<1>5. MarksAreHeard'
  BY DEF MarksAreHeard, EndHeard
<1>6. BeginsAtRow'
  BY DEF BeginsAtRow
<1> QED
  BY <1>1, <1>2, <1>3, <1>4, <1>5, <1>6

\* What the marks and the beginning say when the row is left alone.
LEMMA RowLeftAlone ==
  ASSUME BookInv, row' = row
  PROVE  /\ row' \in BookRows /\ row'.part = row.part /\ row'.valid = row.valid
         /\ row'.flush => /\ row'.whole \in heard /\ row'.part = own.part
                          /\ ~leftover => row'.whole = latest \/ EndHeard(row.part, row'.whole)
  BY DEF BookInv, MarksAreHeard, BookTypeOK

\* And the same of the outcomes.
LEMMA ClosedLeftAlone ==
  ASSUME BookInv, closed' = closed
  PROVE  /\ closed' \in [1..Parts -> Outcomes]
         /\ \A p \in 1..Parts : HeardOut(p)' => HeardOut(p)
  BY DEF BookInv, BookTypeOK, HeardOut

LEMMA PauseSafe == ASSUME BookInv, Pause PROVE BookInv'
<1> USE DEF BookInv
<1>0. own \in Owners /\ own.epoch \in Nat /\ own.epoch + 1 \in Nat
  BY Fields DEF BookTypeOK
<1>1. /\ own.status \in {"Active", "Loading"}
      /\ UNCHANGED <<closed, row, starts, heard, latest, earned, leftover, rep, remote>>
  BY DEF Pause, Playing, ownerHistory, reporterVars
<1>2. \/ own.seek = NoSeek /\ own' = [own EXCEPT !.status = "Paused", !.epoch = own.epoch + 1]
      \/ own.seek # NoSeek /\ own' = [own EXCEPT !.status = "Paused", !.plays = FALSE]
  BY <1>0 DEF Pause, Commanded, Owners
<1>3. /\ own' \in Owners /\ own'.part = own.part /\ own'.last = own.last
      /\ own'.epoch \in {own.epoch, own.epoch + 1} /\ own'.status = "Paused"
      /\ own'.seek = own.seek /\ own'.ready = own.ready /\ own'.pos = own.pos
      /\ own'.attempt = own.attempt
  <2>1. CASE own' = [own EXCEPT !.status = "Paused", !.epoch = own.epoch + 1]
    BY <1>0, <2>1, StatusesNamed DEF Owners, StatusNames
  <2>2. CASE own' = [own EXCEPT !.status = "Paused", !.plays = FALSE]
    BY <1>0, <2>2, StatusesNamed DEF Owners, StatusNames
  <2> QED
    BY <1>2, <2>1, <2>2
<1>4. Whole(own') = Whole(own)
  BY <1>3 DEF Whole
<1>5. heard = {} =>
        /\ ~own'.ready /\ own'.seek = NoSeek /\ own'.status # "Completed"
        /\ row.valid /\ closed'[own.part] = "none"
             => Whole(own') = row'.whole /\ own'.pos < Length /\ own'.attempt
  BY <1>1, <1>3, <1>4 DEF BeginsAtRow
<1>6. own'.seek # NoSeek => own'.status \in {"Loading", "Paused"} /\ own'.ready
  BY <1>3 DEF PlaysHeard
<1>7. own'.epoch >= own.epoch
  BY <1>0, <1>3
<1> QED
  BY <1>1, <1>3, <1>5, <1>6, <1>7, RowLeftAlone, ClosedLeftAlone, SilentSafe

LEMMA SeekSafe == ASSUME BookInv, Seek PROVE BookInv'
<1> USE DEF BookInv
<1>0. own \in Owners /\ own.epoch \in Nat /\ own.epoch + 1 \in Nat
  BY Fields DEF BookTypeOK
<1>1. /\ own.ready
      /\ UNCHANGED <<closed, row, starts, heard, latest, earned, leftover, rep, remote>>
  BY DEF Seek, ownerHistory, reporterVars
<1>2. PICK target \in 0..(Length - 1) :
        own' = [own EXCEPT !.seek = target, !.plays = Playing,
                           !.status = IF Playing THEN "Loading" ELSE "Paused",
                           !.epoch = own.epoch + 1]
  BY <1>0 DEF Seek, Commanded, Owners
<1>3. target \in 0..NoSeek /\ Playing \in BOOLEAN
  BY OffsetFacts DEF NoSeek, Playing
<1>4. /\ own' \in Owners /\ own'.part = own.part /\ own'.last = own.last
      /\ own'.epoch = own.epoch + 1 /\ own'.status \in {"Loading", "Paused"}
      /\ own'.ready = own.ready
  BY <1>0, <1>2, <1>3, StatusesNamed DEF Owners, StatusNames
<1>5. own'.epoch >= own.epoch /\ own'.epoch # own.epoch
  BY <1>0, <1>4
<1>6. heard # {}
  BY <1>1 DEF BeginsAtRow
<1> QED
  BY <1>1, <1>4, <1>5, <1>6, RowLeftAlone, ClosedLeftAlone, SilentSafe

LEMMA SeekFailsSafe == ASSUME BookInv, SeekFails PROVE BookInv'
<1> USE DEF BookInv
<1>0. own \in Owners /\ own.epoch \in Nat /\ NoSeek \in 0..NoSeek
  BY Fields DEF BookTypeOK
<1>1. /\ own.seek # NoSeek /\ own' = [own EXCEPT !.seek = NoSeek, !.status = "Error"]
      /\ UNCHANGED <<closed, row, starts, heard, latest, earned, leftover, rep, remote>>
  BY DEF SeekFails, ownerHistory, reporterVars
<1>2. /\ own' \in Owners /\ own'.part = own.part /\ own'.last = own.last
      /\ own'.epoch = own.epoch /\ own'.status = "Error" /\ own'.seek = NoSeek
  <2>1. "Error" \in PlayStatuses
    BY StatusesNamed DEF StatusNames
  <2>2. own' = [own EXCEPT !.seek = NoSeek, !.status = "Error"]
    BY <1>1
  <2> QED
    BY <1>0, <2>1, <2>2 DEF Owners
<1>3. own.status # "Stopped" /\ heard # {}
  BY <1>1 DEF BeginsAtRow, PlaysHeard
<1>4. own'.epoch >= own.epoch
  BY <1>0, <1>2
<1> QED
  BY <1>1, <1>2, <1>3, <1>4, RowLeftAlone, ClosedLeftAlone, SilentSafe

LEMMA ResumeSafe == ASSUME BookInv, Resume PROVE BookInv'
<1> USE DEF BookInv
<1>0. own \in Owners /\ own.epoch \in Nat /\ own.epoch + 1 \in Nat /\ own.pos \in 0..Length
      /\ 0 \in 0..Length /\ row \in BookRows
  BY Fields DEF BookTypeOK
<1>1. /\ own.status \in {"Paused", "Stopped", "Completed", "Error"}
      /\ UNCHANGED <<closed, starts, heard, latest, earned, leftover, rep, remote>>
  BY DEF Resume, ownerHistory, reporterVars
<1>2. CASE own.seek # NoSeek
  <2>1. own' = [own EXCEPT !.status = "Loading", !.plays = TRUE] /\ row' = row
    BY <1>2 DEF Resume
  <2>2. /\ own' \in Owners /\ own'.part = own.part /\ own'.last = own.last
        /\ own'.epoch = own.epoch /\ own'.status = "Loading" /\ own'.ready = own.ready
    <3>1. "Loading" \in PlayStatuses
      BY StatusesNamed DEF StatusNames
    <3> QED
      BY <1>0, <2>1, <3>1 DEF Owners
  <2>3. own.status # "Stopped" /\ heard # {} /\ own.ready
    BY <1>2 DEF BeginsAtRow, PlaysHeard
  <2>4. own'.epoch >= own.epoch
    BY <1>0, <2>2
  <2> QED
    BY <1>1, <2>1, <2>2, <2>3, <2>4, RowLeftAlone, ClosedLeftAlone, SilentSafe
<1>3. CASE own.seek = NoSeek
  <2> DEFINE place == IF own.status = "Completed" THEN 0 ELSE own.pos
  <2>1. /\ own' = [own EXCEPT !.status = "Loading", !.attempt = TRUE, !.pos = place,
                              !.epoch = own.epoch + 1]
        /\ row' = [row EXCEPT !.flush = FALSE]
    BY <1>0, <1>3 DEF Resume, Commanded, Owners
  <2>2. place \in 0..Length
    BY <1>0
  <2> HIDE DEF place
  <2>3. /\ own' \in Owners /\ own'.part = own.part /\ own'.last = own.last
        /\ own'.epoch = own.epoch + 1 /\ own'.status = "Loading" /\ own'.seek = own.seek
        /\ own'.attempt /\ own'.pos = place /\ own'.ready = own.ready
    BY <1>0, <2>1, <2>2, StatusesNamed DEF Owners, StatusNames
  <2>4. /\ row' \in BookRows /\ row'.part = row.part /\ row'.valid = row.valid /\ ~row'.flush
        /\ row'.whole = row.whole
    BY <1>0, <2>1 DEF BookRows
  <2>5. own'.epoch >= own.epoch /\ own'.epoch # own.epoch
    BY <1>0, <2>3
  <2>6. heard = {} =>
          /\ ~own'.ready /\ own'.seek = NoSeek /\ own'.status # "Completed"
          /\ row.valid /\ closed'[own.part] = "none"
               => Whole(own') = row'.whole /\ own'.pos < Length /\ own'.attempt
    <3> SUFFICES ASSUME heard = {} PROVE place = own.pos /\ ~own.ready /\
                   (row.valid /\ closed[own.part] = "none" => Whole(own) = row.whole /\ own.pos < Length)
      BY <1>1, <1>3, <2>3, <2>4 DEF Whole
    <3> QED
      BY DEF BeginsAtRow, place
  <2> QED
    BY <1>1, <1>3, <2>3, <2>4, <2>5, <2>6, ClosedLeftAlone, SilentSafe
<1> QED
  BY <1>2, <1>3

LEMMA SeekToEndSafe == ASSUME BookInv, SeekToEnd PROVE BookInv'
<1> USE DEF BookInv
<1>0. own \in Owners /\ own.epoch \in Nat /\ own.epoch + 1 \in Nat /\ row \in BookRows
      /\ NoSeek \in 0..NoSeek /\ Length \in 0..Length
  BY Fields, OffsetFacts DEF BookTypeOK
<1>1. /\ own.ready /\ row' = Recorded(row, Whole(own'))
      /\ UNCHANGED <<closed, starts, heard, latest, earned, leftover, rep, remote>>
  BY DEF SeekToEnd, ownerHistory, reporterVars
<1>2. own' = [own EXCEPT !.pos = Length, !.seek = NoSeek, !.status = "Completed",
                         !.epoch = own.epoch + 1]
  BY <1>0 DEF SeekToEnd, Commanded, Owners
<1>3. /\ own' \in Owners /\ own'.part = own.part /\ own'.last = own.last
      /\ own'.epoch = own.epoch + 1 /\ own'.status = "Completed" /\ own'.seek = NoSeek
      /\ own'.pos = Length
  BY <1>0, <1>2, StatusesNamed DEF Owners, StatusNames
<1>4. own'.epoch >= own.epoch /\ own'.epoch # own.epoch
  BY <1>0, <1>3
<1>5. heard # {}
  BY <1>1 DEF BeginsAtRow
<1>6. Whole(own') \in Nat
  BY <1>3, Fields, OffsetFacts DEF Whole
<1>7. /\ row' \in BookRows /\ row'.part = row.part /\ row'.valid = row.valid
      /\ row'.flush = row.flush
      /\ row'.flush => row'.whole = row.whole
  <2>1. /\ Recorded(row, Whole(own')) \in BookRows
        /\ Recorded(row, Whole(own')).part = row.part
        /\ Recorded(row, Whole(own')).valid = row.valid
        /\ Recorded(row, Whole(own')).flush = row.flush
        /\ row.flush => Recorded(row, Whole(own')).whole = row.whole
    BY <1>0, <1>6, RowFacts
  <2> QED
    BY <1>1, <2>1
<1>8. row'.flush => /\ row'.whole \in heard /\ row'.part = own.part
                    /\ ~leftover => row'.whole = latest \/ EndHeard(row.part, row'.whole)
  BY <1>7 DEF MarksAreHeard
<1> QED
  BY <1>1, <1>3, <1>4, <1>5, <1>7, <1>8, ClosedLeftAlone, SilentSafe

\* A stop keeps the mark of an earlier one, or marks a place that was heard.
LEMMA StopSafe == ASSUME BookInv, Stop PROVE BookInv'
<1> USE DEF BookInv
<1>0. own \in Owners /\ own.epoch \in Nat /\ own.epoch + 1 \in Nat /\ row \in BookRows
      /\ NoSeek \in 0..NoSeek /\ 0 \in 0..Length /\ Whole(own) \in Nat
      /\ Offset(own.part) \in Nat /\ own.part \in 1..Parts
  BY Fields, OffsetFacts DEF BookTypeOK
<1> DEFINE marked == IF Marks THEN Marked(row, Whole(own)) ELSE row
<1>1. /\ row' = Recorded(marked, Offset(own.part))
      /\ UNCHANGED <<closed, starts, heard, latest, earned, leftover, rep, remote>>
  BY DEF Stop, ownerHistory, reporterVars
<1>2. own' = [own EXCEPT !.pos = 0, !.seek = NoSeek, !.status = "Stopped",
                         !.epoch = own.epoch + 1]
  BY <1>0 DEF Stop, Commanded, Owners
<1>3. /\ own' \in Owners /\ own'.part = own.part /\ own'.last = own.last
      /\ own'.epoch = own.epoch + 1 /\ own'.status = "Stopped" /\ own'.seek = NoSeek
      /\ own'.pos = 0 /\ own'.ready = own.ready /\ own'.attempt = own.attempt
  BY <1>0, <1>2, StatusesNamed DEF Owners, StatusNames
<1>4. own'.epoch >= own.epoch /\ own'.epoch # own.epoch
  BY <1>0, <1>3
<1>5. /\ marked \in BookRows /\ marked.part = row.part /\ marked.valid = row.valid
      /\ marked.flush = (row.flush \/ (Marks /\ row.valid))
      /\ marked.whole = IF Marks /\ row.valid THEN Whole(own) ELSE row.whole
  BY <1>0, RowFacts DEF BookRows
<1> HIDE DEF marked
<1>6. /\ row' \in BookRows /\ row'.part = row.part /\ row'.valid = row.valid
      /\ row'.flush = marked.flush
      /\ row'.whole = IF row.part = 0 \/ marked.flush THEN marked.whole ELSE Offset(own.part)
  BY <1>0, <1>1, <1>5, RowFacts
<1>7. Marks => /\ Whole(own) \in heard
               /\ Whole(own) = latest \/ EndHeard(own.part, Whole(own))
  <2>1. CASE own.status = "Active"
    BY <2>1 DEF PlaysHeard
  <2>2. CASE own.status = "Completed" /\ closed[own.part] = "natural"
    <3>1. own.pos = Length
      BY <2>2 DEF PlaysHeard
    <3>2. Whole(own) = Offset(own.part) + Length
      BY <3>1 DEF Whole
    <3>3. HeardOut(own.part)
      BY <2>2 DEF HeardOut
    <3> QED
      BY <1>0, <3>2, <3>3 DEF OutcomesAreHeard, EndHeard
  <2> QED
    BY <2>1, <2>2 DEF Marks, Heard
<1>8. row'.flush => /\ row'.whole \in heard /\ row'.part = own.part
                    /\ ~leftover => row'.whole = latest \/ EndHeard(row.part, row'.whole)
  <2>1. CASE Marks /\ row.valid
    BY <1>5, <1>6, <1>7, <2>1 DEF MarksAreHeard
  <2>2. CASE ~(Marks /\ row.valid)
    BY <1>5, <1>6, <2>2 DEF MarksAreHeard
  <2> QED
    BY <2>1, <2>2
<1>9. heard = {} =>
        /\ ~own'.ready /\ own'.seek = NoSeek /\ own'.status # "Completed"
        /\ row.valid /\ closed'[own.part] = "none"
             => Whole(own') = row'.whole /\ own'.pos < Length /\ own'.attempt
  <2> SUFFICES ASSUME heard = {}
               PROVE  /\ ~own.ready
                      /\ row.valid /\ closed[own.part] = "none"
                           => Offset(own.part) = row'.whole /\ own.attempt
    <3>1. Whole(own') = Offset(own.part) /\ own'.pos < Length
      BY <1>0, <1>3, OffsetFacts DEF Whole
    <3> QED
      BY <1>1, <1>3, <3>1
  <2>1. ~Marks /\ ~own.ready
    BY DEF Marks, BeginsAtRow
  <2>2. ~row.flush
    BY DEF MarksAreHeard
  <2>3. row.valid => row.part # 0
    BY <1>0 DEF MarksAreHeard
  <2> QED
    BY <1>5, <1>6, <2>1, <2>2, <2>3 DEF BeginsAtRow
<1> QED
  BY <1>1, <1>3, <1>4, <1>6, <1>8, <1>9, ClosedLeftAlone, SilentSafe

LEMMA RestartSafe == ASSUME BookInv, Back PROVE BookInv'
<1> USE DEF BookInv
<1>0. own \in Owners /\ own.epoch \in Nat /\ own.epoch + 1 \in Nat /\ own.part \in 1..Parts
      /\ NoSeek \in 0..NoSeek /\ 0 \in 0..Length /\ closed \in [1..Parts -> Outcomes]
  BY Fields DEF BookTypeOK
<1>1. /\ closed' = IF own.attempt THEN [closed EXCEPT ![own.part] = "restarted"] ELSE closed
      /\ UNCHANGED <<row, starts, heard, latest, earned, leftover, rep, remote>>
  BY DEF Back, ownerHistory, reporterVars
<1>2. own' = [own EXCEPT !.pos = 0, !.seek = NoSeek, !.attempt = TRUE,
                         !.status = IF Playing THEN "Loading" ELSE "Paused",
                         !.epoch = own.epoch + 1]
  BY <1>0 DEF Back, Commanded, Owners
<1>3. /\ own' \in Owners /\ own'.part = own.part /\ own'.last = own.last
      /\ own'.epoch = own.epoch + 1 /\ own'.status \in {"Loading", "Paused"}
      /\ own'.seek = NoSeek /\ own'.pos = 0 /\ own'.ready = own.ready /\ own'.attempt
  BY <1>0, <1>2, StatusesNamed DEF Owners, StatusNames
<1>4. own'.epoch >= own.epoch /\ own'.epoch # own.epoch
  BY <1>0, <1>3
<1>5. closed' \in [1..Parts -> Outcomes] /\ \A p \in 1..Parts : HeardOut(p)' => HeardOut(p)
  <2>1. CASE own.attempt
    <3>1. "restarted" \in Outcomes
      BY DEF Outcomes
    <3>2. closed' = [closed EXCEPT ![own.part] = "restarted"]
      BY <1>1, <2>1
    <3> QED
      BY <1>0, <3>1, <3>2 DEF HeardOut
  <2>2. CASE ~own.attempt
    BY <1>1, <2>2, ClosedLeftAlone
  <2> QED
    BY <2>1, <2>2
<1>6. heard = {} =>
        /\ ~own'.ready /\ own'.seek = NoSeek /\ own'.status # "Completed"
        /\ row.valid /\ closed'[own.part] = "none"
             => Whole(own') = row'.whole /\ own'.pos < Length /\ own'.attempt
  <2> SUFFICES ASSUME heard = {}
               PROVE  ~own.ready /\ ~(row.valid /\ closed'[own.part] = "none")
    BY <1>3
  <2>1. ~own.ready /\ (row.valid /\ closed[own.part] = "none" => own.attempt)
    BY DEF BeginsAtRow
  <2>2. own.attempt => closed'[own.part] = "restarted"
    BY <1>0, <1>1
  <2>3. ~own.attempt => closed' = closed
    BY <1>1
  <2> QED
    BY <2>1, <2>2, <2>3
<1> QED
  BY <1>1, <1>3, <1>4, <1>5, <1>6, RowLeftAlone, SilentSafe

LEMMA FailSafe == ASSUME BookInv, Fail PROVE BookInv'
<1> USE DEF BookInv
<1>0. own \in Owners /\ own.epoch \in Nat /\ own.epoch + 1 \in Nat /\ own.part \in 1..Parts
      /\ closed \in [1..Parts -> Outcomes]
  BY Fields DEF BookTypeOK
<1>1. /\ own.status \in {"Active", "Loading"} /\ own.seek = NoSeek
      /\ UNCHANGED <<row, starts, heard, latest, earned, leftover, rep, remote>>
  BY DEF Fail, Playing, ownerHistory, reporterVars
<1>2. CASE own.attempt
  <2>1. /\ own' = [own EXCEPT !.status = "Error", !.attempt = FALSE]
        /\ closed' = [closed EXCEPT ![own.part] = "failure"]
    BY <1>2 DEF Fail
  <2>2. /\ own' \in Owners /\ own'.part = own.part /\ own'.last = own.last
        /\ own'.epoch = own.epoch /\ own'.status = "Error" /\ own'.seek = own.seek
        /\ own'.ready = own.ready
    BY <1>0, <2>1, StatusesNamed DEF Owners, StatusNames
  <2>3. /\ closed' \in [1..Parts -> Outcomes] /\ closed'[own.part] = "failure"
        /\ \A p \in 1..Parts : HeardOut(p)' => HeardOut(p)
    <3>1. "failure" \in Outcomes
      BY DEF Outcomes
    <3> QED
      BY <1>0, <2>1, <3>1 DEF HeardOut
  <2>4. own'.epoch >= own.epoch
    BY <1>0, <2>2
  <2>5. heard = {} => ~own.ready
    BY DEF BeginsAtRow
  <2> QED
    BY <1>1, <2>2, <2>3, <2>4, <2>5, RowLeftAlone, SilentSafe
<1>3. CASE ~own.attempt
  <2>1. own' = [own EXCEPT !.status = "Kept", !.epoch = own.epoch + 1] /\ closed' = closed
    BY <1>3 DEF Fail
  <2>2. /\ own' \in Owners /\ own'.part = own.part /\ own'.last = own.last
        /\ own'.epoch = own.epoch + 1 /\ own'.status = "Kept" /\ own'.seek = own.seek
        /\ own'.ready = own.ready
    BY <1>0, <2>1, StatusesNamed DEF Owners, StatusNames
  <2>3. own'.epoch >= own.epoch /\ own'.epoch # own.epoch
    BY <1>0, <2>2
  <2>4. heard = {} => ~own.ready /\ ~(row.valid /\ closed[own.part] = "none")
    BY <1>3 DEF BeginsAtRow
  <2> QED
    BY <1>1, <2>1, <2>2, <2>3, <2>4, RowLeftAlone, ClosedLeftAlone, SilentSafe
<1> QED
  BY <1>2, <1>3

\* The reporter is gone with the daemon.
LEMMA DaemonEndsSafe == ASSUME BookInv, DaemonEnds PROVE BookInv'
<1> USE DEF BookInv
<1>0. own \in Owners /\ own.epoch \in Nat /\ own.epoch + 1 \in Nat /\ NoSeek \in 0..NoSeek
  BY Fields DEF BookTypeOK
<1>1. rep' = Quiet /\ UNCHANGED <<closed, row, starts, heard, latest, earned, leftover, remote>>
  BY DEF DaemonEnds, ownerHistory
<1>2. own' = [own EXCEPT !.seek = NoSeek, !.plays = FALSE, !.ready = FALSE, !.status = "Paused",
                         !.epoch = own.epoch + 1]
  BY <1>0 DEF DaemonEnds, Commanded, Owners
<1>3. /\ own' \in Owners /\ own'.part = own.part /\ own'.last = own.last
      /\ own'.status = "Paused" /\ own'.seek = NoSeek /\ own'.pos = own.pos
      /\ ~own'.ready /\ own'.attempt = own.attempt
  BY <1>0, <1>2, StatusesNamed DEF Owners, StatusNames
<1>4. BookTypeOK'
  <2>1. Quiet \in Reporters
    BY OffsetFacts DEF Quiet, Reporters, Rounds
  <2> QED
    BY <1>1, <1>3, <2>1 DEF BookTypeOK
<1>5. PlaysHeard'
  BY <1>3 DEF PlaysHeard
<1>6. OutcomesAreHeard'
  BY <1>1 DEF OutcomesAreHeard, HeardOut
<1>7. MarksAreHeard'
  BY <1>1, <1>3 DEF MarksAreHeard, EndHeard
<1>8. BeginsAtRow'
  <2>1. Whole(own') = Whole(own)
    BY <1>3 DEF Whole
  <2> QED
    BY <1>1, <1>3, <2>1 DEF BeginsAtRow
<1>9. Behind' /\ TellsHeard' /\ TellsTheMark'
  <2>1. rep'.pc = "idle"
    BY <1>1 DEF Quiet
  <2> QED
    BY <2>1 DEF Behind, TellsHeard, TellsTheMark
<1> QED
  BY <1>4, <1>5, <1>6, <1>7, <1>8, <1>9

LEMMA SkipSafe == ASSUME BookInv, Skip PROVE BookInv'
<1> USE DEF BookInv
<1>0. own \in Owners /\ own.epoch \in Nat /\ own.epoch + 1 \in Nat /\ own.part \in 1..Parts
      /\ own.last \in 1..Parts /\ own.part < own.last /\ own.part + 1 \in 1..Parts
      /\ own.part + 1 <= own.last
      /\ NoSeek \in 0..NoSeek /\ 0 \in 0..Length /\ closed \in [1..Parts -> Outcomes]
  <2>1. own.part < own.last
    BY DEF Skip
  <2>2. own.part \in 1..Parts /\ own.last \in 1..Parts
    BY Fields
  <2>3. own.part + 1 \in 1..Parts /\ own.part + 1 <= own.last
    BY <2>1, <2>2, OffsetFacts
  <2> QED
    BY <2>1, <2>2, <2>3, Fields DEF BookTypeOK
<1>1. /\ closed' = IF own.attempt THEN [closed EXCEPT ![own.part] = "skip"] ELSE closed
      /\ row' = Unbound /\ UNCHANGED <<starts, heard, latest, earned, leftover, rep, remote>>
  BY DEF Skip, Advance, ownerHistory, reporterVars
<1>2. PICK s \in {"Loading", "Stopped", "Paused"} :
        own' = [own EXCEPT !.part = own.part + 1, !.pos = 0, !.status = s, !.ready = FALSE,
                           !.seek = NoSeek, !.epoch = own.epoch + 1, !.attempt = TRUE]
  BY <1>0 DEF Skip, Advance
<1>3. /\ own' \in Owners /\ own'.part = own.part + 1 /\ own'.last = own.last
      /\ own'.epoch = own.epoch + 1 /\ own'.status = s /\ ~own'.ready
      /\ own'.seek = NoSeek /\ own'.pos = 0 /\ own'.attempt
  <2>1. s \in PlayStatuses
    BY StatusesNamed DEF StatusNames
  <2> QED
    BY <1>0, <1>2, <2>1 DEF Owners
<1>4. closed' \in [1..Parts -> Outcomes] /\ \A p \in 1..Parts : HeardOut(p)' => HeardOut(p)
  <2>1. "skip" \in Outcomes
    BY DEF Outcomes
  <2> QED
    BY <1>0, <1>1, <2>1 DEF HeardOut
<1>5. BookTypeOK'
  BY <1>0, <1>1, <1>3, <1>4, BoundFacts DEF BookTypeOK
<1>6. PlaysHeard'
  BY <1>3 DEF PlaysHeard
<1>7. OutcomesAreHeard'
  BY <1>1, <1>4, OffsetFacts DEF OutcomesAreHeard
<1>8. MarksAreHeard' /\ BeginsAtRow'
  BY <1>1, <1>3, BoundFacts DEF MarksAreHeard, BeginsAtRow
<1>9. Behind' /\ TellsHeard' /\ TellsTheMark'
  <2>1. own'.epoch >= own.epoch /\ own'.epoch # own.epoch
    BY <1>0, <1>3
  <2> QED
    BY <1>1, <1>5, <2>1, ReporterStands
<1> QED
  BY <1>5, <1>6, <1>7, <1>8, <1>9

\* The end of a part was heard; the following part is bound at its beginning.
LEMMA CompleteSafe == ASSUME BookInv, Complete PROVE BookInv'
<1> USE DEF BookInv
<1>0. own \in Owners /\ own.epoch \in Nat /\ own.epoch + 1 \in Nat /\ own.part \in 1..Parts
      /\ own.last \in 1..Parts /\ own.part <= own.last /\ own.pos = Length
      /\ NoSeek \in 0..NoSeek /\ 0 \in 0..Length /\ closed \in [1..Parts -> Outcomes]
      /\ own.status = "Active" /\ own.seek = NoSeek
  BY Fields DEF BookTypeOK, Complete, PlaysHeard
<1>1. /\ closed' = IF own.attempt THEN [closed EXCEPT ![own.part] = "natural"] ELSE closed
      /\ earned' = (earned \/ own.part = Parts)
      /\ UNCHANGED <<starts, heard, latest, leftover, rep, remote>>
  BY DEF Complete, reporterVars
<1>2. Offset(own.part) + Length \in heard
  BY <1>0 DEF PlaysHeard, Whole
<1>3. closed' \in [1..Parts -> Outcomes]
      /\ \A p \in 1..Parts : HeardOut(p)' => HeardOut(p) \/ (p = own.part /\ own.attempt)
  <2>1. "natural" \in Outcomes
    BY DEF Outcomes
  <2> QED
    BY <1>0, <1>1, <2>1 DEF HeardOut
<1>4. OutcomesAreHeard'
  BY <1>1, <1>2, <1>3, OffsetFacts DEF OutcomesAreHeard
<1>5. heard # {}
  BY <1>2
<1>6. earned' \in BOOLEAN /\ (earned => earned')
  BY <1>1 DEF BookTypeOK
<1>7. CASE ~own.attempt
  <2>1. own' = [own EXCEPT !.status = "Kept", !.epoch = own.epoch + 1] /\ row' = row
    BY <1>7 DEF Complete
  <2>2. /\ own' \in Owners /\ own'.part = own.part /\ own'.last = own.last
        /\ own'.epoch = own.epoch + 1 /\ own'.status = "Kept" /\ own'.seek = own.seek
    BY <1>0, <2>1, StatusesNamed DEF Owners, StatusNames
  <2>3. BookTypeOK'
    BY <1>1, <1>3, <1>6, <2>1, <2>2 DEF BookTypeOK
  <2>4. PlaysHeard' /\ BeginsAtRow'
    BY <1>0, <1>1, <1>5, <2>2 DEF PlaysHeard, BeginsAtRow
  <2>5. MarksAreHeard'
    BY <1>1, <2>1, <2>2 DEF MarksAreHeard, EndHeard
  <2>6. own'.epoch >= own.epoch /\ own'.epoch # own.epoch
    BY <1>0, <2>2
  <2>7. Behind' /\ TellsHeard' /\ TellsTheMark'
    BY <1>1, <1>6, <2>3, <2>6, ReporterStands
  <2> QED
    BY <1>4, <2>3, <2>4, <2>5, <2>7
<1>8. CASE own.attempt /\ own.part < own.last
  <2>1. /\ own' = [own EXCEPT !.part = own.part + 1, !.pos = 0, !.status = "Loading",
                       !.ready = FALSE, !.seek = NoSeek, !.epoch = own.epoch + 1, !.attempt = TRUE]
        /\ \/ row' = Unbound
           \/ row' = Bound(own.part + 1, Offset(own.part + 1))
    BY <1>0, <1>8 DEF Complete, Advance
  <2>0. own.part + 1 \in 1..Parts /\ own.part + 1 <= own.last
    BY <1>0, <1>8, OffsetFacts
  <2>2. /\ own' \in Owners /\ own'.part = own.part + 1 /\ own'.last = own.last
        /\ own'.epoch = own.epoch + 1 /\ own'.status = "Loading" /\ own'.seek = NoSeek
    BY <1>0, <2>0, <2>1, StatusesNamed DEF Owners, StatusNames
  <2>3. /\ row' \in BookRows /\ ~row'.flush
        /\ row'.valid => row'.part = own'.part
    BY <2>0, <2>1, <2>2, BoundFacts, OffsetFacts
  <2>4. BookTypeOK'
    BY <1>1, <1>3, <1>6, <2>0, <2>2, <2>3 DEF BookTypeOK
  <2>5. PlaysHeard' /\ BeginsAtRow'
    BY <1>0, <1>1, <1>5, <2>2 DEF PlaysHeard, BeginsAtRow
  <2>6. MarksAreHeard'
    BY <2>3 DEF MarksAreHeard
  <2>7. own'.epoch >= own.epoch /\ own'.epoch # own.epoch
    BY <1>0, <2>2
  <2>8. Behind' /\ TellsHeard' /\ TellsTheMark'
    BY <1>1, <1>6, <2>4, <2>7, ReporterStands
  <2> QED
    BY <1>4, <2>4, <2>5, <2>6, <2>8
<1>9. CASE own.attempt /\ own.part = own.last
  <2>1. own' = [own EXCEPT !.status = "Completed", !.attempt = FALSE] /\ row' = row
    BY <1>0, <1>9 DEF Complete
  <2>2. /\ own' \in Owners /\ own'.part = own.part /\ own'.last = own.last
        /\ own'.epoch = own.epoch /\ own'.status = "Completed" /\ own'.seek = own.seek
        /\ own'.pos = own.pos
    BY <1>0, <2>1, StatusesNamed DEF Owners, StatusNames
  <2>3. BookTypeOK'
    BY <1>1, <1>3, <1>6, <2>1, <2>2 DEF BookTypeOK
  <2>4. PlaysHeard' /\ BeginsAtRow'
    BY <1>0, <1>1, <1>5, <2>2 DEF PlaysHeard, BeginsAtRow
  <2>5. MarksAreHeard'
    BY <1>1, <2>1, <2>2 DEF MarksAreHeard, EndHeard
  <2>6. own'.epoch >= own.epoch
    BY <1>0, <2>2
  <2>7. own.status # "Stopped"
    BY <1>0
  <2>8. Behind' /\ TellsHeard' /\ TellsTheMark'
    BY <1>1, <1>6, <2>2, <2>3, <2>6, <2>7, ReporterStands
  <2> QED
    BY <1>4, <2>3, <2>4, <2>5, <2>8
<1> QED
  BY <1>0, <1>7, <1>8, <1>9 DEF Complete

\* A step that is heard: the mark of a stop that is still there is left over.
LEMMA HeardSafe ==
  ASSUME BookInv,
         own' \in Owners, own'.part = own.part, own'.last = own.last, own'.epoch = own.epoch,
         own.status # "Stopped", own'.status = "Active", own'.seek = NoSeek,
         heard' = heard \cup {Whole(own')}, latest' = Whole(own'),
         leftover' \in BOOLEAN, leftover => leftover', row.flush => leftover',
         row' \in BookRows, row'.part = row.part, row'.valid = row.valid, row'.flush = row.flush,
         row.flush => row'.whole = row.whole,
         UNCHANGED <<closed, starts, earned, rep, remote>>
  PROVE  BookInv'
<1> USE DEF BookInv
<1>1. Whole(own') \in Nat
  BY Fields, OffsetFacts DEF Whole, Owners
<1>2. BookTypeOK'
  BY <1>1, Fields DEF BookTypeOK
<1>3. PlaysHeard' /\ BeginsAtRow'
  BY DEF PlaysHeard, BeginsAtRow
<1>4. OutcomesAreHeard'
  BY DEF OutcomesAreHeard, HeardOut
<1>5. MarksAreHeard'
  BY DEF MarksAreHeard
<1>6. Behind' /\ TellsHeard' /\ TellsTheMark'
  <2>1. own'.epoch >= own.epoch
    BY Fields
  <2> QED
    BY <1>2, <2>1, ReporterStands
<1> QED
  BY <1>2, <1>3, <1>4, <1>5, <1>6

LEMMA ActivateSafe == ASSUME BookInv, Activate PROVE BookInv'
<1> USE DEF BookInv
<1>0. own \in Owners /\ own.pos \in 0..Length /\ 0 \in 0..Length
  BY Fields DEF BookTypeOK
<1>1. /\ own.status = "Loading" /\ own.seek = NoSeek
      /\ heard' = heard \cup {Whole(own')} /\ latest' = Whole(own')
      /\ leftover' = (leftover \/ row.flush)
      /\ UNCHANGED <<closed, row, starts, earned, rep, remote>>
  BY DEF Activate, Hears, reporterVars
<1>2. PICK q \in 0..Length : own' = [own EXCEPT !.status = "Active", !.ready = TRUE, !.pos = q]
  BY <1>0 DEF Activate
<1>3. /\ own' \in Owners /\ own'.part = own.part /\ own'.last = own.last
      /\ own'.epoch = own.epoch /\ own'.status = "Active" /\ own'.seek = own.seek
  BY <1>0, <1>2, StatusesNamed DEF Owners, StatusNames
<1>4. leftover' \in BOOLEAN
  BY <1>1
<1> QED
  BY <1>1, <1>3, <1>4, HeardSafe DEF BookTypeOK

LEMMA ListenSafe == ASSUME BookInv, Listen PROVE BookInv'
<1> USE DEF BookInv
<1>0. own \in Owners /\ own.pos \in 0..Length /\ row \in BookRows
  BY Fields DEF BookTypeOK
<1>1. /\ own.status = "Active" /\ own' = [own EXCEPT !.pos = own.pos + 1]
      /\ row' = Recorded(row, Whole(own')) /\ own.pos < Length
      /\ heard' = heard \cup {Whole(own')} /\ latest' = Whole(own')
      /\ UNCHANGED <<closed, starts, earned, leftover, rep, remote>>
  BY DEF Listen, Hears, reporterVars, More
<1>2. own.pos + 1 \in 0..Length
  BY <1>0, <1>1, OffsetFacts
<1>3. /\ own' \in Owners /\ own'.part = own.part /\ own'.last = own.last
      /\ own'.epoch = own.epoch /\ own'.status = own.status /\ own'.seek = own.seek
  <2>1. own' = [own EXCEPT !.pos = own.pos + 1]
    BY <1>1
  <2> QED
    BY <1>0, <1>2, <2>1 DEF Owners
<1>4. own.seek = NoSeek /\ (row.flush => leftover)
  BY <1>1 DEF PlaysHeard, MarksAreHeard, BookTypeOK
<1>5. Whole(own') \in Nat
  BY <1>3, Fields, OffsetFacts DEF Whole, Owners
<1>6. /\ row' \in BookRows /\ row'.part = row.part /\ row'.valid = row.valid
      /\ row'.flush = row.flush
      /\ row.flush => row'.whole = row.whole
  BY <1>0, <1>1, <1>5, RowFacts
<1> QED
  BY <1>1, <1>3, <1>4, <1>6, HeardSafe DEF BookTypeOK

LEMMA SeekCommitsSafe == ASSUME BookInv, SeekCommits PROVE BookInv'
<1> USE DEF BookInv
<1>0. /\ own \in Owners /\ own.seek \in 0..NoSeek /\ NoSeek \in 0..NoSeek /\ row \in BookRows
      /\ own.epoch \in Nat
  BY Fields DEF BookTypeOK
<1>1. /\ own.seek # NoSeek /\ row' = Recorded(row, Whole(own'))
      /\ own' = [own EXCEPT !.pos = own.seek, !.seek = NoSeek,
                            !.status = IF own.plays THEN "Active" ELSE "Paused"]
      /\ leftover' = (leftover \/ (own.plays /\ row.flush))
      /\ UNCHANGED <<closed, starts, earned, rep, remote>>
  BY DEF SeekCommits, reporterVars
<1>2. own.seek \in 0..Length
  BY <1>0, <1>1, OffsetFacts DEF NoSeek
<1>3. /\ own' \in Owners /\ own'.part = own.part /\ own'.last = own.last
      /\ own'.epoch = own.epoch /\ own'.seek = NoSeek
      /\ own'.status = IF own.plays THEN "Active" ELSE "Paused"
  <2>1. own' = [own EXCEPT !.pos = own.seek, !.seek = NoSeek,
                           !.status = IF own.plays THEN "Active" ELSE "Paused"]
    BY <1>1
  <2> QED
    BY <1>0, <1>2, <2>1, StatusesNamed DEF Owners, StatusNames
<1>4. Whole(own') \in Nat
  BY <1>3, Fields, OffsetFacts DEF Whole, Owners
<1>5. /\ row' \in BookRows /\ row'.part = row.part /\ row'.valid = row.valid
      /\ row'.flush = row.flush
      /\ row.flush => row'.whole = row.whole
  <2>1. /\ Recorded(row, Whole(own')) \in BookRows
        /\ Recorded(row, Whole(own')).part = row.part
        /\ Recorded(row, Whole(own')).valid = row.valid
        /\ Recorded(row, Whole(own')).flush = row.flush
        /\ row.flush => Recorded(row, Whole(own')).whole = row.whole
    BY <1>0, <1>4, RowFacts
  <2> QED
    BY <1>1, <2>1
<1>6. own.status # "Stopped" /\ heard # {}
  BY <1>1 DEF PlaysHeard, BeginsAtRow
<1>7. CASE own.plays
  <2>1. heard' = heard \cup {Whole(own')} /\ latest' = Whole(own')
    BY <1>7 DEF SeekCommits, Hears
  <2>2. leftover' \in BOOLEAN /\ (leftover => leftover') /\ (row.flush => leftover')
    BY <1>1, <1>7
  <2> QED
    BY <1>1, <1>3, <1>5, <1>6, <1>7, <2>1, <2>2, HeardSafe
<1>8. CASE ~own.plays
  <2>1. UNCHANGED <<heard, latest>>
    BY <1>8 DEF SeekCommits, Unheard
  <2>2. leftover' = leftover
    BY <1>1, <1>8 DEF BookTypeOK
  <2>3. row'.flush => /\ row'.whole \in heard /\ row'.part = own.part
                      /\ ~leftover => row'.whole = latest \/ EndHeard(row.part, row'.whole)
    BY <1>5 DEF MarksAreHeard
  <2>4. own'.epoch >= own.epoch
    BY <1>0, <1>3
  <2> QED
    BY <1>1, <1>3, <1>5, <1>6, <1>8, <2>1, <2>2, <2>3, <2>4, ClosedLeftAlone, SilentSafe
<1> QED
  BY <1>7, <1>8

\* The place a book is started at lies in its part.
LEMMA StartsSafe == ASSUME BookInv, StartBook \/ StartPart \/ StartUnbound PROVE BookInv'
<1> USE DEF BookInv
<1>1. CASE StartBook
  <2> DEFINE w == ResumeAt(remote)
             bound == IF Usable(remote) THEN Bound(PartAt(w), w) ELSE Unbound
  <2>1. w \in Nat /\ w < Duration
    <3>1. Duration \in Nat /\ 0 < Duration
      <4>1. 1 * Length <= Parts * Length
        <5>1. 1 <= Parts /\ 1 \in Nat
          BY OffsetFacts
        <5> QED
          BY <5>1, OffsetFacts, ProductsGrow
      <4>2. 1 * Length = Length /\ Parts * Length \in Nat
        BY OffsetFacts, \A x, y \in Nat : x * y \in Nat
      <4> QED
        BY <4>1, <4>2, OffsetFacts DEF Duration
    <3>2. remote.pos \in Nat
      BY DEF BookTypeOK
    <3> QED
      BY <3>1, <3>2 DEF ResumeAt, Usable
  <2> HIDE DEF w
  <2>2. /\ PartAt(w) \in 1..Parts /\ Offset(PartAt(w)) \in Nat
        /\ Offset(PartAt(w)) <= w /\ w < Offset(PartAt(w)) + Length
        /\ PartAt(w) <= Parts /\ Parts \in 1..Parts
    BY <2>1, PlaceInPart, OffsetFacts
  <2>3. /\ w - Offset(PartAt(w)) \in 0..(Length - 1)
        /\ Offset(PartAt(w)) + (w - Offset(PartAt(w))) = w
    BY <2>1, <2>2, OffsetFacts
  <2>4. Start(PartAt(w), Parts, w - Offset(PartAt(w)), bound)
    BY <1>1 DEF StartBook, w
  <2>5. /\ bound \in BookRows /\ ~bound.flush
        /\ bound.valid => bound.part = PartAt(w) /\ bound.whole = w
    BY <2>1, <2>2, BoundFacts
  <2> HIDE DEF bound
  <2> QED
    BY <2>2, <2>3, <2>4, <2>5, StartSafe
<1>2. ASSUME NEW p \in 1..Parts, NEW e \in 1..Parts, p <= e, Start(p, e, 0, Unbound) PROVE BookInv'
  <2>1. 0 \in 0..(Length - 1)
    BY OffsetFacts
  <2> QED
    BY <1>2, <2>1, BoundFacts, StartSafe
<1>3. CASE StartPart
  <2>1. PICK p \in 1..Parts : Start(p, p, 0, Bound(p, Offset(p)))
    BY <1>3 DEF StartPart
  <2>2. 0 \in 0..(Length - 1) /\ Offset(p) \in Nat /\ Offset(p) + 0 = Offset(p) /\ p <= p
    BY OffsetFacts
  <2>3. /\ Bound(p, Offset(p)) \in BookRows /\ ~Bound(p, Offset(p)).flush
        /\ Bound(p, Offset(p)).part = p /\ Bound(p, Offset(p)).whole = Offset(p)
    BY <2>2, BoundFacts
  <2> QED
    BY <2>1, <2>2, <2>3, StartSafe
<1>4. CASE StartUnbound
  <2>1. 1 \in 1..Parts /\ Parts \in 1..Parts /\ 1 <= Parts /\ \A p \in 1..Parts : p <= p
    BY OffsetFacts
  <2> QED
    BY <1>2, <1>4, <2>1 DEF StartUnbound
<1> QED
  BY <1>1, <1>3, <1>4

(***************************************************************************)
(* The steps of the reporter.                                              *)
(***************************************************************************)

\* The fields of the reporter.
LEMMA ReporterFields ==
  ASSUME BookTypeOK
  PROVE  /\ rep \in Reporters /\ rep.pc \in Rounds /\ rep.start \in Nat /\ rep.epoch \in Nat
         /\ rep.part \in 0..Parts /\ rep.pos \in Nat /\ rep.fin \in BOOLEAN
         /\ rep.kind \in {"none", "sample", "completed", "stopped"}
  BY DEF BookTypeOK, Reporters

\* The owner's part of the invariant speaks of the row only when it is valid or marked.
LEMMA InvalidateSafe ==
  ASSUME BookInv, UNCHANGED <<own, closed, starts, heard, latest, earned, leftover>>,
         UNCHANGED row \/ Invalidate
  PROVE  /\ row' \in BookRows /\ row'.flush = row.flush /\ row'.whole = row.whole
         /\ PlaysHeard' /\ OutcomesAreHeard' /\ MarksAreHeard' /\ BeginsAtRow'
<1> USE DEF BookInv
<1>1. /\ row' \in BookRows /\ row'.flush = row.flush /\ row'.whole = row.whole
      /\ row'.part = row.part
      /\ row'.valid => row.valid
  BY DEF BookTypeOK, BookRows, Invalidate
<1>2. PlaysHeard' /\ OutcomesAreHeard'
  BY DEF PlaysHeard, OutcomesAreHeard, HeardOut
<1>3. MarksAreHeard' /\ BeginsAtRow'
  BY <1>1 DEF MarksAreHeard, BeginsAtRow, EndHeard
<1> QED
  BY <1>1, <1>2, <1>3

\* The reporter leaves its round.
LEMMA LeavesSafe ==
  ASSUME BookInv, Leaves, UNCHANGED <<own, closed, starts, heard, latest, earned, leftover>>,
         UNCHANGED row \/ Invalidate, remote' \in [pos : Nat, fin : BOOLEAN]
  PROVE  BookInv'
<1> USE DEF BookInv
<1>1. rep' \in Reporters /\ rep'.pc = "idle"
  BY OffsetFacts DEF Leaves, Quiet, Reporters, Rounds
<1>2. BookTypeOK'
  BY <1>1, InvalidateSafe DEF BookTypeOK
<1>3. Behind' /\ TellsHeard' /\ TellsTheMark'
  BY <1>1 DEF Behind, TellsHeard, TellsTheMark
<1> QED
  BY <1>2, <1>3, InvalidateSafe

\* Only the reporter has moved: what remains to be shown of it.
LEMMA ReportsSafe ==
  ASSUME BookInv, rep' \in Reporters, UNCHANGED playVars,
         remote' \in [pos : Nat, fin : BOOLEAN], Behind', TellsHeard', TellsTheMark'
  PROVE  BookInv'
<1> USE DEF BookInv, playVars, ownerHistory
<1>1. BookTypeOK'
  BY DEF BookTypeOK
<1>2. UNCHANGED row \/ Invalidate
  OBVIOUS
<1> QED
  BY <1>1, <1>2, InvalidateSafe

\* The reporter goes on with what it holds.
LEMMA GoesOnSafe ==
  ASSUME BookInv, NEW pc \in Rounds \ {"idle", "loaded"}, GoesOn(pc), UNCHANGED playVars,
         remote' \in [pos : Nat, fin : BOOLEAN], rep.pc # "idle",
         rep.fin => pc \in {"decided"} \cup Told,
         pc \in Told /\ rep.pc \notin Told => rep.epoch = own.epoch,
         pc \in Chosen \cup Told /\ rep.pc \notin Chosen \cup Told =>
           /\ rep.kind # "completed"
           /\ rep.kind = "stopped" => row.flush /\ rep.pos = row.whole
  PROVE  BookInv'
<1> USE DEF BookInv, playVars, ownerHistory
<1>1. /\ rep' \in Reporters /\ rep'.pc = pc /\ rep'.start = rep.start /\ rep'.part = rep.part
      /\ rep'.epoch = rep.epoch /\ rep'.kind = rep.kind /\ rep'.pos = rep.pos
      /\ rep'.fin = rep.fin
  BY ReporterFields DEF GoesOn, Reporters
<1>2. Behind'
  BY <1>1 DEF Behind
<1>3. TellsTheMark'
  BY <1>1 DEF TellsTheMark
<1>4. TellsHeard'
  <2>1. rep.epoch = own.epoch /\ rep.kind = "stopped" /\ rep.pc \in Chosen /\ ~rep.fin
          => rep.pos \in heard
    BY DEF TellsTheMark, MarksAreHeard, Chosen
  <2> QED
    BY <1>1, <2>1 DEF TellsHeard, MarksAreHeard, Chosen, Told
<1> QED
  BY <1>1, <1>2, <1>3, <1>4, ReportsSafe

LEMMA ObserveSafe == ASSUME BookInv, Observe PROVE BookInv'
<1> USE DEF BookInv, Reads, Server, playVars, ownerHistory
<1>1. /\ own.seek = NoSeek /\ Sample # "none"
      /\ rep' = [pc |-> "observed", start |-> starts, part |-> own.part, epoch |-> own.epoch,
                 kind |-> Sample, pos |-> Whole(own), fin |-> FALSE]
      /\ UNCHANGED <<playVars, remote>>
  BY DEF Observe
<1>2. /\ Sample = "sample" => own.status = "Active"
      /\ Sample = "stopped" => own.status = "Stopped"
      /\ Sample \in {"none", "sample", "completed", "stopped"}
  BY DEF Sample
<1>3. /\ rep'.pc = "observed" /\ rep'.start = starts /\ rep'.part = own.part
      /\ rep'.epoch = own.epoch /\ rep'.kind = Sample /\ rep'.pos = Whole(own) /\ ~rep'.fin
  BY <1>1
<1>4. rep' \in Reporters
  <2>1. "observed" \in Rounds /\ own.part \in 0..Parts
    BY Fields, OffsetFacts DEF Rounds
  <2> QED
    BY <1>1, <1>2, <2>1, Fields DEF Reporters
<1>5. Behind'
  <2>1. own.part \in 1..Parts /\ own.part # 0 /\ starts <= starts /\ own.epoch <= own.epoch
    BY Fields
  <2> QED
    BY <1>1, <1>3, <2>1 DEF Behind
<1>6. TellsHeard' /\ TellsTheMark'
  BY <1>1, <1>2, <1>3 DEF TellsHeard, TellsTheMark, PlaysHeard, Chosen, Told
<1> QED
  BY <1>1, <1>4, <1>5, <1>6, ReportsSafe DEF BookTypeOK

LEMMA LoadSafe == ASSUME BookInv, Load PROVE BookInv'
<1> USE DEF BookInv, Reads, Server, playVars, ownerHistory
<1>1. rep.pc = "observed" /\ UNCHANGED <<playVars, remote>> /\ remote \in [pos : Nat, fin : BOOLEAN]
  BY DEF Load, At, BookTypeOK
<1>2. CASE ~BindsIt
  BY <1>1, <1>2, LeavesSafe DEF Load
<1>3. CASE BindsIt
  <2>1. PICK q \in Nat : /\ rep' = [rep EXCEPT !.pc = "loaded", !.pos = q]
                         /\ rep.kind = "stopped" => q = row.whole
                         /\ rep.kind # "stopped" => q = rep.pos
    BY <1>3, Fields, ReporterFields DEF Load
  <2>2. "loaded" \in Rounds
    BY DEF Rounds
  <2>3. /\ rep' \in Reporters /\ rep'.pc = "loaded" /\ rep'.start = rep.start
        /\ rep'.part = rep.part /\ rep'.epoch = rep.epoch /\ rep'.kind = rep.kind
        /\ rep'.pos = q /\ rep'.fin = rep.fin
    BY <2>1, <2>2, ReporterFields DEF Reporters
  <2>4. Behind'
    BY <1>1, <2>3 DEF Behind, Told
  <2>5. TellsHeard' /\ TellsTheMark'
    BY <1>1, <2>1, <2>3 DEF TellsHeard, TellsTheMark, Chosen, Told
  <2> QED
    BY <1>1, <2>3, <2>4, <2>5, ReportsSafe
<1> QED
  BY <1>2, <1>3

\* The reporter chooses a place that was heard, unless it reports a stop that is over.
LEMMA ChooseSafe == ASSUME BookInv, Choose PROVE BookInv'
<1> USE DEF BookInv, Reads, Server, playVars, ownerHistory
<1>1. rep.pc = "loaded" /\ UNCHANGED <<playVars, remote>> /\ remote \in [pos : Nat, fin : BOOLEAN]
  BY DEF Choose, At, BookTypeOK
<1>2. rep.kind \in {"sample", "stopped", "completed"} /\ ~rep.fin
  BY <1>1, ReporterFields DEF Behind, Told
<1>3. CASE Leaves
  BY <1>1, <1>3, LeavesSafe
<1>4. CASE GoesOn("chosen") /\ rep.kind # "completed"
           /\ (rep.kind = "stopped" => row.flush)
  <2>1. "chosen" \in Rounds \ {"idle", "loaded"} /\ "chosen" \notin Told
    BY DEF Rounds, Chosen, Told
  <2>2. CASE rep.kind = "stopped" /\ rep.epoch # own.epoch
    <3>1. /\ rep' \in Reporters /\ rep'.pc = "chosen" /\ rep'.start = rep.start
          /\ rep'.part = rep.part /\ rep'.epoch = rep.epoch /\ rep'.kind = rep.kind
          /\ rep'.fin = rep.fin
      BY <1>4, <2>1, ReporterFields DEF GoesOn, Reporters
    <3>2. Behind'
      BY <1>1, <1>2, <3>1 DEF Behind
    <3>3. TellsHeard' /\ TellsTheMark'
      BY <1>1, <2>1, <2>2, <3>1 DEF TellsHeard, TellsTheMark
    <3> QED
      BY <1>1, <3>1, <3>2, <3>3, ReportsSafe
  <2>3. CASE ~(rep.kind = "stopped" /\ rep.epoch # own.epoch)
    <3>1. rep.kind = "stopped" => rep.pos = row.whole
      BY <1>1, <2>3 DEF TellsTheMark
    <3> QED
      BY <1>1, <1>2, <1>4, <2>1, <3>1, GoesOnSafe
  <2> QED
    BY <2>2, <2>3
<1>5. CASE /\ rep.kind = "completed" /\ HeardOut(rep.part)
           /\ rep' = [rep EXCEPT !.pc = "chosen", !.pos = Offset(rep.part) + Length]
  <2>1. "chosen" \in Rounds /\ "chosen" \notin Told
    BY DEF Rounds, Chosen, Told
  <2>2. rep.part \in 1..Parts /\ Offset(rep.part) + Length \in Nat
    BY <1>1, ReporterFields, OffsetFacts DEF Behind
  <2>3. /\ rep' \in Reporters /\ rep'.pc = "chosen" /\ rep'.start = rep.start
        /\ rep'.part = rep.part /\ rep'.epoch = rep.epoch /\ rep'.kind = rep.kind
        /\ rep'.pos = Offset(rep.part) + Length /\ rep'.fin = rep.fin
    BY <1>5, <2>1, <2>2, ReporterFields DEF Reporters
  <2>4. Offset(rep.part) + Length \in heard
    BY <1>5, <2>2 DEF OutcomesAreHeard
  <2>5. Behind'
    BY <1>1, <1>2, <2>3 DEF Behind
  <2>6. TellsHeard' /\ TellsTheMark'
    BY <1>1, <1>5, <2>3, <2>4 DEF TellsHeard, TellsTheMark
  <2> QED
    BY <1>1, <2>3, <2>5, <2>6, ReportsSafe
<1> QED
  BY <1>2, <1>3, <1>4, <1>5 DEF Choose

\* A finish is decided when the last part was heard out.
LEMMA DecideSafe == ASSUME BookInv, Decide PROVE BookInv'
<1> USE DEF BookInv, Reads, Server, playVars, ownerHistory
<1>1. rep.pc = "resolved" /\ UNCHANGED <<playVars, remote>> /\ remote \in [pos : Nat, fin : BOOLEAN]
  BY DEF Decide, At, BookTypeOK
<1>2. CASE Leaves
  BY <1>1, <1>2, LeavesSafe
<1>3. CASE rep' = [rep EXCEPT !.pc = "decided"]
  <2>1. "decided" \in Rounds \ {"idle", "loaded"} /\ "decided" \notin Told
    BY DEF Rounds, Chosen, Told
  <2>2. rep.pc \in Chosen
    BY <1>1 DEF Chosen
  <2> QED
    BY <1>1, <1>3, <2>1, <2>2, GoesOnSafe DEF GoesOn
<1>4. CASE Finishes /\ rep' = [rep EXCEPT !.pos = Duration, !.fin = TRUE, !.pc = "decided"]
  <2>1. "decided" \in Rounds /\ Duration \in Nat
    BY OffsetFacts, \A x, y \in Nat : x * y \in Nat DEF Rounds, Chosen, Duration
  <2>2. /\ rep' \in Reporters /\ rep'.pc = "decided" /\ rep'.start = rep.start
        /\ rep'.part = rep.part /\ rep'.epoch = rep.epoch /\ rep'.kind = rep.kind
        /\ rep'.fin
    BY <1>4, <2>1, ReporterFields DEF Reporters
  <2>3. earned
    BY <1>4 DEF Finishes, OutcomesAreHeard
  <2>4. Behind'
    BY <1>1, <2>2, <2>3 DEF Behind
  <2>5. TellsHeard' /\ TellsTheMark'
    BY <1>1, <2>2 DEF TellsHeard, TellsTheMark, Chosen
  <2> QED
    BY <1>1, <2>2, <2>4, <2>5, ReportsSafe
<1> QED
  BY <1>2, <1>3, <1>4 DEF Decide

LEMMA GoingOnSafe ==
  ASSUME BookInv, Resolve \/ Recheck \/ Reload \/ Patch
  PROVE  BookInv'
<1> USE DEF BookInv, Reads, Server, playVars, ownerHistory
<1>0. remote \in [pos : Nat, fin : BOOLEAN]
  BY DEF BookTypeOK
<1>1. CASE Resolve
  <2>1. "resolved" \in Rounds \ {"idle", "loaded"} /\ "resolved" \notin Told
    BY DEF Rounds, Chosen, Told
  <2>2. /\ rep.pc = "chosen" /\ rep.pc \in Chosen /\ GoesOn("resolved")
        /\ UNCHANGED <<playVars, remote>>
    BY <1>1 DEF Resolve, At, Chosen
  <2>3. ~rep.fin
    BY <2>2, ReporterFields DEF Behind, Told
  <2> QED
    BY <1>0, <2>1, <2>2, <2>3, GoesOnSafe
<1>2. CASE Recheck
  <2>1. "fenced" \in Rounds \ {"idle", "loaded"} /\ "fenced" \in Told
    BY DEF Rounds, Told
  <2>2. rep.pc = "decided" /\ rep.pc \in Chosen /\ UNCHANGED <<playVars, remote>>
    BY <1>2 DEF Recheck, At, Chosen
  <2>3. CASE Fenced
    BY <1>0, <1>2, <2>1, <2>2, <2>3, GoesOnSafe DEF Recheck, Fenced
  <2>4. CASE ~Fenced
    BY <1>0, <1>2, <2>2, <2>4, LeavesSafe DEF Recheck
  <2> QED
    BY <2>3, <2>4
<1>3. CASE Reload
  <2>1. "writing" \in Rounds \ {"idle", "loaded"} /\ "writing" \in Told
    BY DEF Rounds, Told
  <2>2. rep.pc = "fenced" /\ rep.pc \in Told /\ UNCHANGED <<playVars, remote>>
    BY <1>3 DEF Reload, At, Told
  <2>3. CASE BindsIt
    BY <1>0, <1>3, <2>1, <2>2, <2>3, GoesOnSafe DEF Reload
  <2>4. CASE ~BindsIt
    BY <1>0, <1>3, <2>2, <2>4, LeavesSafe DEF Reload
  <2> QED
    BY <2>3, <2>4
<1>4. CASE Patch
  <2>1. "settling" \in Rounds \ {"idle", "loaded"} /\ "settling" \in Told
    BY DEF Rounds, Told
  <2>2. /\ rep.pc = "writing" /\ rep.pc \in Told /\ UNCHANGED playVars /\ GoesOn("settling")
    BY <1>4 DEF Patch, At, Told
  <2>3. remote' \in [pos : Nat, fin : BOOLEAN]
    BY <1>4, ReporterFields DEF Patch, Applied
  <2> QED
    BY <2>1, <2>2, <2>3, GoesOnSafe
<1> QED
  BY <1>1, <1>2, <1>3, <1>4

LEMMA LeavingSafe == ASSUME BookInv, ResolveFails \/ WriteLost \/ Acknowledge PROVE BookInv'
<1> USE DEF BookInv, Server, playVars, ownerHistory
<1>1. remote' \in [pos : Nat, fin : BOOLEAN]
  BY ReporterFields DEF BookTypeOK, ResolveFails, WriteLost, Acknowledge, Applied
<1>2. /\ Leaves /\ UNCHANGED <<own, closed, starts, heard, latest, earned, leftover>>
      /\ UNCHANGED row \/ Invalidate
  BY DEF ResolveFails, WriteLost, Acknowledge
<1> QED
  BY <1>1, <1>2, LeavesSafe

(***************************************************************************)
(* The theorems.                                                           *)
(***************************************************************************)

\* Every step keeps it.
LEMMA BookStep == BookInv /\ [BookNext]_bookVars => BookInv'
<1> SUFFICES ASSUME BookInv, [BookNext]_bookVars PROVE BookInv'
  OBVIOUS
<1>1. CASE OwnerNext
  BY <1>1, StartsSafe, ActivateSafe, ListenSafe, CompleteSafe, FailSafe, SeekCommitsSafe,
     SeekFailsSafe, PauseSafe, ResumeSafe, SeekSafe, SeekToEndSafe, StopSafe, SkipSafe,
     RestartSafe, DaemonEndsSafe DEF OwnerNext
<1>2. CASE Reports
  BY <1>2, ObserveSafe, LoadSafe, ChooseSafe, DecideSafe, GoingOnSafe, LeavingSafe DEF Reports
<1>3. CASE ResolveFails \/ WriteLost
  BY <1>3, LeavingSafe
<1>4. CASE UNCHANGED bookVars
  <2>1. UNCHANGED playVars /\ UNCHANGED <<rep, remote>>
    BY <1>4 DEF bookVars
  <2>2. /\ rep' \in Reporters /\ remote' \in [pos : Nat, fin : BOOLEAN]
        /\ Behind' /\ TellsHeard' /\ TellsTheMark'
    BY <2>1 DEF BookInv, BookTypeOK, Behind, TellsHeard, TellsTheMark, playVars, ownerHistory
  <2> QED
    BY <2>1, <2>2, ReportsSafe
<1> QED
  BY <1>1, <1>2, <1>3, <1>4 DEF BookNext

\* The invariant of the book and its reporter, for any number and length of parts.
THEOREM BookInvariant == Spec => []BookInv
<1>1. BookInv /\ [BookNext]_bookVars => BookInv'
  BY BookStep
<1> QED
  BY BookInitInv, <1>1, PTL DEF Spec

\* What the server is told as a place was heard since the book was started: whatever was
\* commanded while the reporter waited for the provider.
THEOREM PlacesWereHeard == Spec => []PositionWasHeard
<1>1. BookInv => PositionWasHeard
  <2> SUFFICES ASSUME BookInv, Writing, ~rep.fin PROVE rep.pos \in heard
    BY DEF PositionWasHeard
  <2>1. rep.pc = "writing" /\ rep.pc \in Told /\ rep.start = starts
    BY DEF Writing, At, Told
  <2>2. rep.kind \in {"sample", "completed", "stopped"}
    BY <2>1, ReporterFields DEF BookInv, Behind
  <2> QED
    BY <2>1, <2>2 DEF BookInv, TellsHeard
<1> QED
  BY BookInvariant, <1>1, PTL

\* The server is told that the book is finished only if its last part was heard to its end.
THEOREM FinishesAreEarned == Spec => []FinishedIsEarned
<1>1. BookInv => FinishedIsEarned
  BY DEF BookInv, FinishedIsEarned, Writing, At, Behind
<1> QED
  BY BookInvariant, <1>1, PTL

\* A stop tells the last place that was heard, unless a place was heard over its mark.
THEOREM StopsReportTheLatest == Spec => []StopReportsLatest
<1>1. BookInv => StopReportsLatest
  <2> SUFFICES ASSUME BookInv, Writing, rep.kind = "stopped", rep.epoch = own.epoch, ~leftover,
                      ~rep.fin
               PROVE  Latest
    BY DEF StopReportsLatest, Latest
  <2>1. rep.pc = "writing" /\ rep.pc \in Told
    BY DEF Writing, At, Told
  <2>2. row.flush /\ rep.pos = row.whole /\ rep.part = own.part /\ row.part = own.part
    BY <2>1 DEF BookInv, TellsTheMark, Behind, MarksAreHeard
  <2> QED
    BY <2>2 DEF BookInv, MarksAreHeard, EndHeard, Latest
<1> QED
  BY BookInvariant, <1>1, PTL

\* A book that is started again is first heard where its server has it, on a boundary of
\* two parts as elsewhere. The only step that is heard first is the one that starts to play.
THEOREM HeardFirstWhereReported == Spec => HeardFromWhereReported
<1> DEFINE A == row.valid /\ heard = {} /\ heard' # {} /\ closed[own.part] = "none"
                  => heard' = {row.whole}
<1>1. ASSUME BookInv, [BookNext]_bookVars PROVE A
  <2> SUFFICES ASSUME row.valid, heard = {}, heard' # {}, closed[own.part] = "none"
               PROVE  heard' = {row.whole}
    OBVIOUS
  <2>1. /\ own.seek = NoSeek /\ own.status # "Active" /\ own.pos < Length
        /\ Whole(own) = row.whole
    BY <1>1 DEF BookInv, BeginsAtRow
  <2>2. Activate
    <3>1. ~(\E part, end, pos, bound : Start(part, end, pos, bound))
      BY DEF Start
    <3>2. ~(StartBook \/ StartPart \/ StartUnbound)
      BY <3>1 DEF StartBook, StartPart, StartUnbound
    <3>3. ~(Listen \/ Complete \/ SeekCommits)
      BY <2>1 DEF Listen, Complete, SeekCommits
    <3>4. ~(Fail \/ SeekFails \/ Pause \/ Resume \/ Seek \/ SeekToEnd \/ Stop \/ Skip
            \/ Back \/ DaemonEnds)
      BY DEF Fail, SeekFails, Pause, Resume, Seek, SeekToEnd, Stop, Skip, Back, DaemonEnds,
         ownerHistory
    <3>5. ~(Reports \/ ResolveFails \/ WriteLost \/ UNCHANGED bookVars)
      BY DEF Reports, Observe, Load, Choose, Resolve, Decide, Recheck, Reload, Patch, Acknowledge,
         ResolveFails, WriteLost, Reads, bookVars, playVars, ownerHistory
    <3> QED
      BY <1>1, <3>2, <3>3, <3>4, <3>5 DEF BookNext, OwnerNext
  <2>3. heard' = {Whole(own')} /\ own' = [own EXCEPT !.status = "Active", !.ready = TRUE]
    <3>1. own.pos # Length /\ own \in Owners
      BY <1>1, <2>1, Fields DEF BookInv, BookTypeOK
    <3>2. own' = [own EXCEPT !.status = "Active", !.ready = TRUE, !.pos = own.pos]
      BY <2>2, <3>1 DEF Activate
    <3>3. [own EXCEPT !.status = "Active", !.ready = TRUE, !.pos = own.pos]
            = [own EXCEPT !.status = "Active", !.ready = TRUE]
      BY <3>1 DEF Owners
    <3> QED
      BY <2>2, <3>2, <3>3 DEF Activate, Hears
  <2>4. own'.part = own.part /\ own'.pos = own.pos
    BY <1>1, <2>3 DEF BookInv, BookTypeOK, Owners
  <2> QED
    BY <2>1, <2>3, <2>4 DEF Whole
<1> QED
  BY BookInvariant, <1>1, PTL DEF Spec, HeardFromWhereReported
=============================================================================
