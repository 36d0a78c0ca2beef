--------------------------- MODULE FeedbackProofs ---------------------------
(***************************************************************************)
(* Theorems about PlaybackFeedback, for any number of operations, tracks,  *)
(* values and faults and any limits of the journal.                        *)
(***************************************************************************)
EXTENDS PlaybackFeedback, FiniteSetTheorems, WellFoundedInduction, TLAPS

\* The worker has claimed an operation and has not settled it.
Working == {"verify", "await", "readBack", "settle", "settleUnsent"}

ReaderTyped ==
  reader \in [at : {"idle", "read", "reconcile", "publish"}, track : Tracks \cup {"none"},
              op : Ops \cup {NoOp}, status : Statuses \cup {"none"}, seen : SUBSET Ops]

\* Rows are numbered in the order in which they were recorded.
RowsAreNumbered ==
  /\ \A op \in Ops : journal[op].status = "none" => journal[op] = NoRow
  /\ \A op \in Rows : journal[op].seq > 0
  /\ \A op \in Rows \cup forgotten : asked[op] # NoAsk
  /\ \A p, q \in Rows : p # q => journal[p].seq # journal[q].seq

\* The worker holds one row, and nobody else changes a row that is being sent.
JobHoldsRow ==
  /\ worker \in Working => journal[job].status = "sending"
  /\ \A p, q \in RowsWith({"sending"}) : p = q

\* What the worker knows about the request of its job.
WorkerIsHonest ==
  /\ worker = "verify" => sends[job] = 0 /\ job \notin landed \cup wire
  /\ worker = "readBack" => job \in landed
  /\ worker = "settle" => verdict \in {"failed", "ambiguous", "confirmed"}
  /\ worker = "settleUnsent" => verdict = "failed"
  /\ worker \in {"settle", "settleUnsent"} /\ verdict = "failed" =>
       job \notin landed \cup wire
  /\ worker = "settle" /\ verdict = "confirmed" => job \in landed

\* What waits, stands behind a conflict or has not been recorded was not sent.
UnsentIsUnsent ==
  \A op \in Ops :
    \/ journal[op].status \in {"pending", "conflict"}
    \/ journal[op].status = "none" /\ op \notin forgotten
    => sends[op] = 0 /\ op \notin landed \cup wire

StatusIsHonest ==
  /\ \A op \in Ops :
       /\ journal[op].status = "confirmed" => op \in landed
       /\ journal[op].status = "failed" => op \notin landed \cup wire
       /\ sends[op] <= 1
  /\ landed \cap wire = {}

SameTrack(p, q) == asked[p].track = asked[q].track

\* An operation is claimed when all before it are settled, and they stay so.
OlderAreSettled ==
  \A p, q \in Rows :
    /\ SameTrack(p, q) /\ Older(p, q)
    /\ journal[q].status \notin {"pending", "conflict"}
    => journal[p].status \in Settled

\* What is unresolved stops everything of its track.
UnresolvedStops ==
  \A p, q \in Rows :
    SameTrack(p, q) /\ journal[p].status \in Unresolved => journal[q].status \notin Queued

\* A status never comes back once it has been left.
Later(before, now) ==
  \/ now \in {before, "none"} \/ before = "pending"
  \/ before = "sending" /\ now \notin {"pending", "conflict"}
  \/ before \in Unresolved /\ now = "reconciled"

\* The last row of the reader: it is still there as it was, has gone on, or is forgotten.
ReaderFollows ==
  reader.at # "idle" /\ reader.op # NoOp =>
    /\ asked[reader.op].track = reader.track
    /\ reader.status # "none"
    /\ Later(reader.status, journal[reader.op].status)
    /\ journal[reader.op].status = "none" => reader.op \in forgotten

\* Nothing up to the last row of the reader was confirmed since it looked, as long as
\* that row has not changed.
Unchanged ==
  \/ journal[reader.op].status = reader.status
  \/ reader.status \in Unresolved /\ journal[reader.op].status = "reconciled"
SeenCovers ==
  /\ reader.at \in {"reconcile", "publish"} /\ reader.op # NoOp
  /\ Unchanged /\ journal[reader.op].status # "pending"
  => \A c \in RowsWith({"confirmed"}) \cap Of(reader.track) :
       Older(reader.op, c) \/ c \in reader.seen

Inv ==
  /\ FeedbackTypeOK /\ ReaderTyped /\ RowsAreNumbered /\ JobHoldsRow /\ WorkerIsHonest
  /\ UnsentIsUnsent /\ StatusIsHonest /\ OlderAreSettled /\ UnresolvedStops
  /\ ReaderFollows /\ SeenCovers

\* The last row of a track exists as soon as the track has one.
LEMMA LatestIsLast ==
  ASSUME FeedbackAssumption, FeedbackTypeOK, NEW t
  PROVE  \/ Latest(t) = NoOp /\ Rows \cap Of(t) = {}
         \/ /\ Latest(t) \in Rows \cap Of(t)
            /\ \A p \in Rows \cap Of(t) : ~Older(Latest(t), p)
<1> DEFINE own == Rows \cap Of(t)
           ages == {lastSeq - journal[p].seq : p \in own}
<1>1. CASE own = {}
  BY <1>1 DEF Latest
<1>2. CASE own # {}
  <2>1. \A p \in own : journal[p].seq \in 0..lastSeq /\ lastSeq \in Nat
    BY DEF FeedbackTypeOK, Rows, Seqs
  <2>2. ages \subseteq Nat /\ ages # {}
    BY <2>1, <1>2
  <2> DEFINE less == {pair \in Nat \X Nat : pair[1] < pair[2]}
  <2>3. PICK age \in ages : \A other \in ages : <<other, age>> \notin less
    <3>1. IsWellFoundedOn(less, Nat)
      BY NatLessThanWellFounded DEF OpToRel
    <3> HIDE DEF ages, less
    <3> QED BY <3>1, <2>2, WFMin
  <2>4. \A other \in ages : ~(other < age)
    BY <2>2, <2>3
  <2>5. \E op \in own : \A p \in own : ~Older(op, p)
    <3>1. PICK op \in own : age = lastSeq - journal[op].seq
      OBVIOUS
    <3>2. \A p \in own : ~(journal[op].seq < journal[p].seq)
      <4> TAKE p \in own
      <4>1. lastSeq - journal[p].seq \in ages
        OBVIOUS
      <4>2. ~(lastSeq - journal[p].seq < lastSeq - journal[op].seq)
        BY <4>1, <3>1, <2>4
      <4> QED BY <4>2, <2>1
    <3> QED BY <3>1, <3>2 DEF Older
  <2>6. Latest(t) = CHOOSE op \in own : \A p \in own : ~Older(op, p)
    BY <1>2 DEF Latest
  <2> HIDE DEF own
  <2>7. Latest(t) \in own /\ \A p \in own : ~Older(Latest(t), p)
    BY <2>5, <2>6
  <2> QED BY <2>7 DEF own
<1> QED BY <1>1, <1>2

LEMMA LaterIsTransitive ==
  ASSUME NEW a, NEW b, NEW c, Later(a, b), Later(b, c)
  PROVE  Later(a, c)
BY DEF Later, Unresolved

\* A step that only moves statuses on, or forgets rows, leaves the reader right.
LEMMA ReaderKeepsUp ==
  ASSUME Inv, reader' = reader,
         \A op \in Rows \cup forgotten :
           /\ asked'[op].track = asked[op].track
           /\ Later(journal[op].status, journal'[op].status)
           /\ journal'[op].status # "none" => journal'[op].seq = journal[op].seq
           /\ journal'[op].status = "none" => op \in forgotten',
         \A op \in Ops : journal'[op].status = "confirmed" =>
           op \in Rows /\ journal[op].status \in {"sending", "confirmed"}
  PROVE  ReaderFollows' /\ SeenCovers'
<1> DEFINE r == reader.op
           before == journal[r].status
           now == journal'[r].status
<1> SUFFICES ASSUME reader.at # "idle", r # NoOp
             PROVE  ReaderFollows' /\ SeenCovers'
  BY DEF ReaderFollows, SeenCovers
<1>1. /\ r \in Rows \cup forgotten /\ r \in Ops
      /\ reader.status # "none" /\ Later(reader.status, before)
      /\ asked[r].track = reader.track
  BY DEF Inv, ReaderFollows, ReaderTyped, Rows
<1>2. Later(before, now) /\ asked'[r].track = reader.track
      /\ (now = "none" => r \in forgotten')
      /\ (now # "none" => journal'[r].seq = journal[r].seq)
  BY <1>1
<1>3. ReaderFollows'
  <2>1. Later(reader.status, now)
    BY <1>1, <1>2, LaterIsTransitive
  <2>2. Later(reader.status, journal[r].status)'
    BY <2>1 DEF Later
  <2> QED BY <1>1, <1>2, <2>2 DEF ReaderFollows
<1>4. ASSUME Unchanged', now # "pending"
      PROVE  Unchanged /\ before # "pending" /\ now # "none"
  <2>1. now = reader.status \/ (reader.status \in Unresolved /\ now = "reconciled")
    BY <1>4 DEF Unchanged
  <2> QED BY <1>1, <1>2, <1>4, <2>1 DEF Unchanged, Later, Unresolved
<1>5. ASSUME reader.at \in {"reconcile", "publish"}, Unchanged', now # "pending",
             NEW c \in Ops, journal'[c].status = "confirmed", asked'[c].track = reader.track
      PROVE  journal'[r].seq < journal'[c].seq \/ c \in reader.seen
  <2>1. /\ c \in Rows /\ journal[c].status \in {"sending", "confirmed"}
        /\ journal'[c].seq = journal[c].seq /\ asked[c].track = reader.track
    BY <1>5
  <2>2. Unchanged /\ before # "pending" /\ now # "none" /\ journal'[r].seq = journal[r].seq
    BY <1>2, <1>4, <1>5
  <2>3. CASE journal[c].status = "confirmed"
    <3>1. c \in RowsWith({"confirmed"}) \cap Of(reader.track)
      BY <2>1, <2>3 DEF RowsWith, Of, Rows
    <3> QED BY <2>1, <2>2, <3>1, <1>5 DEF Inv, SeenCovers, Older
  <2>4. CASE journal[c].status = "sending"
    <3>1. r \in Rows
      BY <1>1, <1>2, <2>2 DEF Later, Unresolved, Rows
    <3>2. r # c
      BY <1>1, <1>5, <2>2, <2>4 DEF Unchanged, Later, Unresolved
    <3>3. before \notin {"pending", "conflict"}
      BY <1>1, <2>1, <2>2, <2>4, <3>1 DEF Inv, UnresolvedStops, SameTrack, Unresolved, Queued
    <3>4. ~Older(c, r)
      BY <1>1, <2>1, <2>4, <3>1, <3>3 DEF Inv, OlderAreSettled, SameTrack, Settled
    <3>5. journal[r].seq # journal[c].seq /\ journal[r].seq \in Nat /\ journal[c].seq \in Nat
      BY <2>1, <3>1, <3>2 DEF Inv, RowsAreNumbered, FeedbackTypeOK, Rows, Seqs
    <3> QED BY <2>1, <2>2, <3>4, <3>5 DEF Older
  <2> QED BY <2>1, <2>3, <2>4
<1> QED BY <1>3, <1>5 DEF SeenCovers, RowsWith, Of, Older

\* The journal of a track is a part of the operations, and those are finitely many.
LEMMA RowsAreFinite ==
  ASSUME FeedbackAssumption, NEW S \in SUBSET Ops
  PROVE  IsFiniteSet(S) /\ Cardinality(S) \in Nat
<1>1. IsFiniteSet(1..MaxOps)
  BY FS_Interval DEF FeedbackAssumption
<1>2. IsFiniteSet(S)
  BY <1>1, FS_Subset DEF Ops
<1> QED BY <1>2, FS_CardinalityType

\* What every outcome of Accept has in common.
Asks(op, t, value) ==
  /\ journal[op] = NoRow /\ op \notin forgotten
  /\ asked[op] \in {NoAsk, [track |-> t, value |-> value]}
  /\ asked' = [asked EXCEPT ![op] = [track |-> t, value |-> value]]
  /\ rejected' = Disposed(t, value)

LEMMA AskingKeepsTracks ==
  ASSUME FeedbackAssumption, Inv, NEW op \in Ops, NEW t \in Tracks, NEW value \in Values,
         Asks(op, t, value)
  PROVE  /\ asked' \in [Ops -> {NoAsk} \cup [track : Tracks, value : Values]]
         /\ rejected' \in [Tracks -> BOOLEAN]
         /\ op \notin Rows /\ op \notin forgotten /\ journal[op] = NoRow
         /\ asked'[op] = [track |-> t, value |-> value] /\ asked'[op] # NoAsk
         /\ \A p \in Ops \ {op} : asked'[p] = asked[p]
         /\ \A p \in Ops : asked[p] # NoAsk => asked'[p] = asked[p]
<1>1. asked \in [Ops -> {NoAsk} \cup [track : Tracks, value : Values]]
  BY DEF Inv, FeedbackTypeOK
<1>2. [track |-> t, value |-> value] # NoAsk
  BY DEF NoAsk, FeedbackAssumption
<1>3. rejected' \in [Tracks -> BOOLEAN]
  BY DEF Asks, Disposed, Inv, FeedbackTypeOK
<1> QED BY <1>1, <1>2, <1>3 DEF Asks, Rows, NoRow

LEMMA UnrecordedKeepsInv ==
  ASSUME FeedbackAssumption, Inv, NEW op \in Ops, NEW t \in Tracks, NEW value \in Values, Asks(op, t, value),
         faults' \in {faults, faults + 1}, faults' # faults => faults < MaxFaults,
         UNCHANGED <<journal, lastSeq, forgotten, workVars, serverVars, reader>>
  PROVE  Inv'
<1>a. UNCHANGED <<worker, job, verdict, sends, remote, landed, wire, reader>>
  BY DEF workVars, serverVars
<1>b. /\ asked' \in [Ops -> {NoAsk} \cup [track : Tracks, value : Values]]
      /\ rejected' \in [Tracks -> BOOLEAN]
      /\ op \notin Rows /\ op \notin forgotten /\ journal[op] = NoRow
      /\ asked'[op] = [track |-> t, value |-> value] /\ asked'[op] # NoAsk
      /\ \A p \in Ops \ {op} : asked'[p] = asked[p]
  BY AskingKeepsTracks
<1>c. UNCHANGED <<journal, lastSeq, forgotten, Rows>>
  BY DEF Rows, Ops
<1>d. \A p \in Rows \cup forgotten : p \in Ops \ {op}
  BY <1>b DEF Rows, Inv, FeedbackTypeOK
<1>1. FeedbackTypeOK'
  <2>1. faults' \in 0..MaxFaults
    BY DEF Inv, FeedbackTypeOK, FeedbackAssumption
  <2> QED BY <1>a, <1>b, <1>c, <2>1 DEF Inv, FeedbackTypeOK, Seqs
<1>2. ReaderTyped'
  BY <1>a DEF Inv, ReaderTyped
<1>3. RowsAreNumbered'
  BY <1>b, <1>c, <1>d DEF Inv, RowsAreNumbered
<1>4. JobHoldsRow'
  BY <1>a, <1>c DEF Inv, JobHoldsRow, RowsWith
<1>5. WorkerIsHonest'
  BY <1>a DEF Inv, WorkerIsHonest
<1>6. UnsentIsUnsent'
  BY <1>a, <1>c DEF Inv, UnsentIsUnsent
<1>7. StatusIsHonest'
  BY <1>a, <1>c DEF Inv, StatusIsHonest
<1>8. OlderAreSettled'
  BY <1>b, <1>c, <1>d DEF Inv, OlderAreSettled, SameTrack, Older
<1>9. UnresolvedStops'
  BY <1>b, <1>c, <1>d DEF Inv, UnresolvedStops, SameTrack
<1>10. ReaderFollows' /\ SeenCovers'
  <2>1. \A p \in Rows \cup forgotten :
          /\ asked'[p].track = asked[p].track
          /\ Later(journal[p].status, journal'[p].status)
          /\ journal'[p].seq = journal[p].seq
          /\ journal'[p].status = "none" => p \in forgotten'
    BY <1>b, <1>c, <1>d DEF Later, Rows
  <2>2. \A p \in Ops : journal'[p].status = "confirmed" =>
          p \in Rows /\ journal[p].status \in {"sending", "confirmed"}
    BY <1>c DEF Rows
  <2> QED BY <1>a, <2>1, <2>2, ReaderKeepsUp
<1> QED BY <1>1, <1>2, <1>3, <1>4, <1>5, <1>6, <1>7, <1>8, <1>9, <1>10 DEF Inv

LEMMA RecordKeepsInv ==
  ASSUME FeedbackAssumption, Inv, NEW op \in Ops, NEW t \in Tracks, NEW value \in Values, Asks(op, t, value),
         NEW gone \in SUBSET RowsWith(Settled), RecordFeedback(op, t, gone),
         UNCHANGED <<faults, workVars, serverVars, reader>>
  PROVE  Inv'
<1>a. UNCHANGED <<worker, job, verdict, sends, remote, landed, wire, reader>>
  BY DEF workVars, serverVars
<1>b. /\ asked' \in [Ops -> {NoAsk} \cup [track : Tracks, value : Values]]
      /\ rejected' \in [Tracks -> BOOLEAN]
      /\ op \notin Rows /\ op \notin forgotten /\ journal[op] = NoRow
      /\ asked'[op] = [track |-> t, value |-> value] /\ asked'[op] # NoAsk
      /\ \A p \in Ops \ {op} : asked'[p] = asked[p]
  BY AskingKeepsTracks
<1> DEFINE new == [seq |-> lastSeq + 1,
                   status |-> IF RowsWith(Unresolved) \cap Of(t) # {} THEN "conflict"
                              ELSE "pending"]
<1>c. /\ lastSeq' = lastSeq + 1 /\ lastSeq \in Nat /\ lastSeq' \in Nat
      /\ forgotten' = forgotten \cup gone
      /\ Cardinality(Rows \ gone) < MaxRows
  BY DEF RecordFeedback, Inv, FeedbackTypeOK
<1>d. gone \subseteq Rows /\ \A p \in gone : p \in Ops \ {op} /\ journal[p].status \in Settled
  BY <1>b DEF RowsWith, Rows, Settled
<1>e. /\ journal' = [[p \in Ops |-> IF p \in gone THEN NoRow ELSE journal[p]] EXCEPT ![op] = new]
      /\ new \in [seq : Seqs', status : Statuses \cup {"none"}]
  BY <1>c DEF RecordFeedback, Seqs, Statuses, Queued, Unresolved
<1>f. /\ journal' \in [Ops -> [seq : Seqs', status : Statuses \cup {"none"}]]
      /\ journal'[op] = new
      /\ \A p \in gone : journal'[p] = NoRow
      /\ \A p \in Ops \ (gone \cup {op}) : journal'[p] = journal[p]
  <2>1. \A p \in Ops : journal[p] \in [seq : Seqs', status : Statuses \cup {"none"}]
    BY <1>c DEF Inv, FeedbackTypeOK, Seqs
  <2>2. NoRow \in [seq : Seqs', status : Statuses \cup {"none"}]
    BY <1>c DEF NoRow, Seqs
  <2> HIDE DEF new
  <2> QED BY <1>d, <1>e, <2>1, <2>2
<1>g. new.seq = lastSeq + 1 /\ new.status \in {"pending", "conflict"}
  OBVIOUS
<1>h. Rows' = (Rows \ gone) \cup {op}
  <2> HIDE DEF new
  <2> QED BY <1>d, <1>f, <1>g DEF Rows, NoRow, Ops
<1>i. \A p \in Rows \cup forgotten : p \in Ops \ {op}
  BY <1>b DEF Rows, Inv, FeedbackTypeOK
<1>j. \A p \in Rows : journal[p].seq \in Nat /\ journal[p].seq < new.seq
  BY <1>c, <1>g DEF Inv, FeedbackTypeOK, Rows, Seqs
<1> HIDE DEF new
<1>1. FeedbackTypeOK'
  <2>1. Cardinality(Rows') <= MaxRows
    <3>1. Rows \ gone \in SUBSET Ops /\ op \notin Rows \ gone
      BY <1>b DEF Rows
    <3>2. IsFiniteSet(Rows \ gone) /\ Cardinality(Rows \ gone) \in Nat
      BY <3>1, RowsAreFinite
    <3>3. Cardinality((Rows \ gone) \cup {op}) = Cardinality(Rows \ gone) + 1
      BY <3>1, <3>2, FS_AddElement
    <3> QED BY <1>c, <1>h, <3>2, <3>3 DEF FeedbackAssumption
  <2>2. forgotten' \subseteq Ops
    BY <1>c, <1>d DEF Inv, FeedbackTypeOK
  <2> QED BY <1>a, <1>b, <1>c, <1>f, <2>1, <2>2 DEF Inv, FeedbackTypeOK
<1>2. ReaderTyped'
  BY <1>a DEF Inv, ReaderTyped
<1>3. RowsAreNumbered'
  <2>1. \A p \in Ops : journal'[p].status = "none" => journal'[p] = NoRow
    BY <1>f, <1>g DEF Inv, RowsAreNumbered
  <2>2. \A p \in Rows' : journal'[p].seq > 0
    BY <1>c, <1>f, <1>g, <1>h DEF Inv, RowsAreNumbered, Rows
  <2>3. \A p \in Rows' \cup forgotten' : asked'[p] # NoAsk
    BY <1>b, <1>c, <1>d, <1>h, <1>i DEF Inv, RowsAreNumbered
  <2>4. \A p, q \in Rows' : p # q => journal'[p].seq # journal'[q].seq
    BY <1>f, <1>g, <1>h, <1>j DEF Inv, RowsAreNumbered, Rows
  <2> QED BY <2>1, <2>2, <2>3, <2>4 DEF RowsAreNumbered
<1>4. JobHoldsRow'
  <2>1. \A p \in Ops : journal'[p].status = "sending" <=> journal[p].status = "sending"
    BY <1>b, <1>d, <1>f, <1>g DEF NoRow, Settled
  <2>2. worker \in Working => job \in Ops
    BY DEF Working, Inv, FeedbackTypeOK
  <2> QED BY <1>a, <2>1, <2>2 DEF Inv, JobHoldsRow, RowsWith
<1>5. WorkerIsHonest'
  BY <1>a DEF Inv, WorkerIsHonest
<1>6. UnsentIsUnsent'
  BY <1>a, <1>b, <1>c, <1>d, <1>f, <1>g DEF Inv, UnsentIsUnsent, NoRow
<1>7. StatusIsHonest'
  BY <1>a, <1>d, <1>f, <1>g DEF Inv, StatusIsHonest, NoRow
<1>8. OlderAreSettled'
  <2>1. SUFFICES ASSUME NEW p \in Rows', NEW q \in Rows',
                        asked'[p].track = asked'[q].track, journal'[p].seq < journal'[q].seq,
                        journal'[q].status \notin {"pending", "conflict"}
                 PROVE  journal'[p].status \in Settled
    BY DEF OlderAreSettled, SameTrack, Older
  <2>2. q \in Rows \ gone /\ q # op
    BY <2>1, <1>b, <1>f, <1>g, <1>h
  <2>3. p \in Rows \ gone /\ p # op
    BY <2>1, <2>2, <1>c, <1>f, <1>g, <1>h, <1>i, <1>j
  <2> QED BY <2>1, <2>2, <2>3, <1>b, <1>f DEF Inv, OlderAreSettled, SameTrack, Older, Rows
<1>9. UnresolvedStops'
  <2>1. SUFFICES ASSUME NEW p \in Rows', NEW q \in Rows', asked'[p].track = asked'[q].track,
                        journal'[p].status \in Unresolved, journal'[q].status \in Queued
                 PROVE  FALSE
    BY DEF UnresolvedStops, SameTrack
  <2>2. CASE p # op /\ q # op
    BY <2>1, <2>2, <1>b, <1>f, <1>h DEF Inv, UnresolvedStops, SameTrack, Rows
  <2>3. CASE p # op /\ q = op
    <3>1. p \in RowsWith(Unresolved) \cap Of(t)
      BY <2>1, <2>3, <1>b, <1>f, <1>h DEF RowsWith, Of, Rows
    <3> QED BY <2>1, <2>3, <3>1, <1>f DEF new, Queued
  <2>4. CASE p = op /\ q # op
    <3>1. PICK r \in Ops : journal[r].status \in Unresolved /\ asked[r].track = t
      BY <2>1, <2>4, <1>f DEF new, RowsWith, Of, Unresolved
    <3> QED BY <2>1, <2>4, <3>1, <1>b, <1>f, <1>h DEF Inv, UnresolvedStops, SameTrack, Rows,
         Unresolved
  <2>5. CASE p = op /\ q = op
    BY <2>1, <2>5 DEF Unresolved, Queued
  <2> QED BY <2>2, <2>3, <2>4, <2>5
<1>10. ReaderFollows' /\ SeenCovers'
  <2>1. \A p \in Rows \cup forgotten :
          /\ asked'[p].track = asked[p].track
          /\ Later(journal[p].status, journal'[p].status)
          /\ journal'[p].status # "none" => journal'[p].seq = journal[p].seq
          /\ journal'[p].status = "none" => p \in forgotten'
    BY <1>b, <1>c, <1>d, <1>f, <1>i DEF Later, Rows, NoRow
  <2>2. \A p \in Ops : journal'[p].status = "confirmed" =>
          p \in Rows /\ journal[p].status \in {"sending", "confirmed"}
    BY <1>d, <1>f, <1>g DEF Rows, NoRow
  <2> QED BY <1>a, <2>1, <2>2, ReaderKeepsUp
<1> QED BY <1>1, <1>2, <1>3, <1>4, <1>5, <1>6, <1>7, <1>8, <1>9, <1>10 DEF Inv

LEMMA FailedWriteKeepsInv ==
  ASSUME FeedbackAssumption, Inv, NEW next, Fails(next),
         next = "recover" \/ (worker = "settleUnsent" /\ next = "settleUnsent"),
         UNCHANGED <<asked, lastSeq, forgotten, rejected, sends, serverVars, reader>>
  PROVE  Inv'
<1>1. FeedbackTypeOK'
  <2>1. Rows' = Rows
    BY DEF Fails, Rows, askVars, workVars, serverVars, Ops
  <2>2. faults' \in 0..MaxFaults
    BY DEF Fails, Inv, FeedbackTypeOK, FeedbackAssumption
  <2> QED BY <2>1, <2>2 DEF Fails, Inv, FeedbackTypeOK, Settled, Unresolved, Queued, Statuses,
       Ops, NoOp, Seqs, FeedbackAssumption, askVars, workVars, serverVars
<1>2. ReaderTyped'
  BY DEF Inv, ReaderTyped
<1>3. RowsAreNumbered'
  BY DEF Fails, Inv, RowsAreNumbered, Rows
<1>4. JobHoldsRow'
  BY DEF Fails, Inv, JobHoldsRow, Working, RowsWith
<1>5. WorkerIsHonest'
  BY DEF Fails, Inv, WorkerIsHonest, serverVars
<1>6. UnsentIsUnsent'
  BY DEF Fails, Inv, UnsentIsUnsent, serverVars
<1>7. StatusIsHonest'
  BY DEF Fails, Inv, StatusIsHonest, serverVars
<1>8. OlderAreSettled'
  BY DEF Fails, Inv, OlderAreSettled, SameTrack, Rows, Older
<1>9. UnresolvedStops'
  BY DEF Fails, Inv, UnresolvedStops, SameTrack, Rows
<1>10. ReaderFollows'
  BY DEF Fails, Inv, ReaderFollows
<1>11. SeenCovers'
  BY DEF Fails, Inv, SeenCovers, Unchanged, RowsWith, Of, Older
<1> QED BY <1>1, <1>2, <1>3, <1>4, <1>5, <1>6, <1>7, <1>8, <1>9, <1>10, <1>11 DEF Inv

LEMMA RecoveryKeepsInv ==
  ASSUME FeedbackAssumption, Inv, journal' = Recovered, worker' = "claim", job' = NoOp, verdict' = "none",
         UNCHANGED <<asked, lastSeq, forgotten, rejected, sends, serverVars, reader, faults>>
  PROVE  Inv'
<1> DEFINE uncertain == RowsWith({"sending", "ambiguous"})
           behind == {op \in RowsWith({"pending"}) :
                        \E p \in uncertain : asked[p].track = asked[op].track}
<1>a. UNCHANGED <<asked, lastSeq, forgotten, rejected, sends, remote, landed, wire, reader, faults>>
  BY DEF serverVars
<1>b. journal' = [op \in Ops |-> IF op \in behind THEN [journal[op] EXCEPT !.status = "conflict"]
                               ELSE IF op \in uncertain THEN [journal[op] EXCEPT !.status = "ambiguous"]
                               ELSE journal[op]]
  BY DEF Recovered
<1>c. \A op \in Ops :
        /\ op \in behind <=> /\ journal[op].status = "pending"
                             /\ \E p \in Ops : /\ journal[p].status \in {"sending", "ambiguous"}
                                               /\ SameTrack(p, op)
        /\ op \in uncertain <=> journal[op].status \in {"sending", "ambiguous"}
  BY DEF RowsWith, SameTrack
<1> HIDE DEF behind, uncertain
<1>d. \A op \in Ops :
        /\ journal'[op] \in [seq : Seqs, status : Statuses \cup {"none"}]
        /\ journal'[op].seq = journal[op].seq
        /\ journal'[op].status =
             IF op \in behind THEN "conflict"
             ELSE IF op \in uncertain THEN "ambiguous" ELSE journal[op].status
        /\ op \notin behind \cup uncertain => journal'[op] = journal[op]
  BY <1>b DEF Inv, FeedbackTypeOK, Statuses, Unresolved
<1>e. journal' \in [Ops -> [seq : Seqs, status : Statuses \cup {"none"}]]
  BY <1>b, <1>d
<1>f. Rows' = Rows
  BY <1>c, <1>d DEF Rows, Ops
<1>1. FeedbackTypeOK'
  BY <1>a, <1>e, <1>f DEF Inv, FeedbackTypeOK, Seqs
<1>2. ReaderTyped'
  BY <1>a DEF Inv, ReaderTyped
<1>3. RowsAreNumbered'
  <2>1. \A op \in Ops : journal'[op].status = "none" => journal'[op] = NoRow
    BY <1>c, <1>d DEF Inv, RowsAreNumbered
  <2>2. \A op \in Ops : journal'[op].seq = journal[op].seq
    BY <1>c, <1>d
  <2> QED BY <1>a, <1>f, <2>1, <2>2 DEF Inv, RowsAreNumbered, Rows
<1>4. JobHoldsRow'
  BY <1>a, <1>c, <1>d DEF Inv, JobHoldsRow, Working, RowsWith
<1>5. WorkerIsHonest'
  BY DEF WorkerIsHonest
<1>6. UnsentIsUnsent'
  BY <1>a, <1>c, <1>d DEF Inv, UnsentIsUnsent
<1>7. StatusIsHonest'
  BY <1>a, <1>c, <1>d DEF Inv, StatusIsHonest
<1>8. OlderAreSettled'
  <2>1. \A p, q \in Ops : /\ SameTrack(p, q)' <=> SameTrack(p, q)
                          /\ Older(p, q)' <=> Older(p, q)
    BY <1>a, <1>c, <1>d DEF SameTrack, Older
  <2>2. SUFFICES ASSUME NEW p \in Rows, NEW q \in Rows, SameTrack(p, q), Older(p, q),
                        journal'[q].status \notin {"pending", "conflict"}
                 PROVE  journal'[p].status \in Settled
    BY <2>1, <1>f DEF OlderAreSettled, Rows
  <2>3. journal[p].status \in Settled
    BY <2>2, <1>c, <1>d DEF Inv, OlderAreSettled, Rows
  <2> QED BY <2>3, <1>c, <1>d DEF Settled, Rows
<1>9. UnresolvedStops'
  <2>1. SUFFICES ASSUME NEW p \in Rows, NEW q \in Rows, SameTrack(p, q),
                        journal'[p].status \in Unresolved
                 PROVE  journal'[q].status \notin Queued
    BY <1>a, <1>f DEF UnresolvedStops, SameTrack, Rows
  <2> QED BY <2>1, <1>c, <1>d DEF Inv, UnresolvedStops, JobHoldsRow, RowsWith, SameTrack,
       Rows, Unresolved,
                        Queued
<1>10. ReaderFollows' /\ SeenCovers'
  <2>1. \A op \in Rows \cup forgotten :
          /\ asked'[op].track = asked[op].track
          /\ Later(journal[op].status, journal'[op].status)
          /\ journal'[op].seq = journal[op].seq
          /\ journal'[op].status = "none" => op \in forgotten'
    BY <1>a, <1>c, <1>d DEF Later, Rows, Inv, FeedbackTypeOK, Unresolved
  <2>2. \A op \in Ops : journal'[op].status = "confirmed" =>
          op \in Rows /\ journal[op].status \in {"sending", "confirmed"}
    BY <1>c, <1>d DEF Rows
  <2> QED BY <1>a, <2>1, <2>2, ReaderKeepsUp
<1> QED BY <1>1, <1>2, <1>3, <1>4, <1>5, <1>6, <1>7, <1>8, <1>9, <1>10 DEF Inv

LEMMA ClaimKeepsInv ==
  ASSUME FeedbackAssumption, Inv, NEW op \in Ops, Claim(op)
  PROVE  Inv'
<1>a. journal' = [journal EXCEPT ![op] = [journal[op] EXCEPT !.status = "sending"]]
  BY DEF Claim, SetStatus, Inv, FeedbackTypeOK
<1>b. /\ journal[op].status = "pending" /\ op \in Rows
      /\ [journal[op] EXCEPT !.status = "sending"] \in [seq : Seqs, status : Statuses \cup {"none"}]
  BY DEF Claim, Claimable, Rows, Inv, FeedbackTypeOK, Statuses, Queued
<1>c. /\ journal' \in [Ops -> [seq : Seqs, status : Statuses \cup {"none"}]]
      /\ \A p \in Ops : p # op => journal'[p] = journal[p]
      /\ journal'[op].seq = journal[op].seq /\ journal'[op].status = "sending"
  BY <1>a, <1>b DEF Inv, FeedbackTypeOK
<1>d. Rows' = Rows
  BY <1>b, <1>c DEF Rows, Ops
<1>1. FeedbackTypeOK'
  BY <1>c, <1>d DEF Claim, Inv, FeedbackTypeOK, Seqs, serverVars
<1>2. ReaderTyped'
  BY DEF Claim, Inv, ReaderTyped
<1>3. RowsAreNumbered'
  <2>1. asked' = asked /\ forgotten' = forgotten
    BY DEF Claim
  <2>2. \A p \in Ops : journal'[p].status = "none" => journal'[p] = NoRow
    BY <1>c DEF Inv, RowsAreNumbered
  <2>3. \A p \in Ops : journal'[p].seq = journal[p].seq
    BY <1>c
  <2> QED BY <1>d, <2>1, <2>2, <2>3 DEF Inv, RowsAreNumbered, Rows
<1>4. JobHoldsRow'
  BY DEF Claim, Inv, FeedbackTypeOK, JobHoldsRow, RowsWith, SetStatus
<1>5. WorkerIsHonest'
  BY DEF Claim, Claimable, Inv, WorkerIsHonest, UnsentIsUnsent, serverVars
<1>6. UnsentIsUnsent'
  BY DEF Claim, Inv, UnsentIsUnsent, SetStatus, serverVars
<1>7. StatusIsHonest'
  BY DEF Claim, Inv, StatusIsHonest, SetStatus, serverVars
<1>8. OlderAreSettled'
  <2>1. \A p \in Rows : SameTrack(p, op) /\ Older(p, op) => journal[p].status \in Settled
    BY DEF Claim, Claimable, SameTrack, Of, Rows, Inv, FeedbackTypeOK, Statuses
  <2>2. \A p \in Ops : journal'[p].seq = journal[p].seq
    BY <1>c
  <2>3. asked' = asked
    BY DEF Claim
  <2> QED BY <1>b, <1>c, <1>d, <2>1, <2>2, <2>3 DEF Inv, OlderAreSettled, SameTrack, Older,
       Rows, Settled
<1>9. UnresolvedStops'
  <2>1. asked' = asked
    BY DEF Claim
  <2> QED BY <1>b, <1>c, <1>d, <2>1 DEF Inv, UnresolvedStops, SameTrack, Rows, Unresolved, Queued
<1>10. ReaderFollows'
  BY DEF Claim, Claimable, Inv, ReaderTyped, ReaderFollows, Later, SetStatus
<1>11. SeenCovers'
  BY DEF Claim, Claimable, Inv, ReaderTyped, ReaderFollows, SeenCovers, Later, Unchanged,
       RowsWith, Of, Older, SetStatus
<1> QED BY <1>1, <1>2, <1>3, <1>4, <1>5, <1>6, <1>7, <1>8, <1>9, <1>10, <1>11 DEF Inv

LEMMA VerifyFailsKeepsInv ==
  ASSUME FeedbackAssumption, Inv, VerifyFails
  PROVE  Inv'
<1>1. FeedbackTypeOK'
  <2>1. Rows' = Rows
    BY DEF VerifyFails, Rows, askVars, workVars, serverVars, Ops
  <2>2. verdict' \in Settled \cup Unresolved
    BY DEF VerifyFails, Settled, Unresolved
  <2> QED BY <2>1, <2>2 DEF VerifyFails, Inv, FeedbackTypeOK, Settled, Unresolved, Queued,
       Statuses, Ops, NoOp, Seqs, FeedbackAssumption, askVars, workVars, serverVars
<1>2. ReaderTyped'
  BY DEF VerifyFails, Inv, ReaderTyped
<1>3. RowsAreNumbered'
  BY DEF FeedbackAssumption, VerifyFails, Inv, FeedbackTypeOK, RowsAreNumbered, Rows, askVars
<1>4. JobHoldsRow'
  BY DEF VerifyFails, Inv, JobHoldsRow, Working, RowsWith, askVars
<1>5. WorkerIsHonest'
  BY DEF VerifyFails, Inv, WorkerIsHonest, serverVars
<1>6. UnsentIsUnsent'
  BY DEF VerifyFails, Inv, UnsentIsUnsent, askVars, serverVars
<1>7. StatusIsHonest'
  BY DEF VerifyFails, Inv, StatusIsHonest, askVars, serverVars
<1>8. OlderAreSettled'
  BY DEF VerifyFails, Inv, OlderAreSettled, SameTrack, Rows, Older, askVars
<1>9. UnresolvedStops'
  BY DEF VerifyFails, Inv, UnresolvedStops, SameTrack, Rows, askVars
<1>10. ReaderFollows'
  BY DEF VerifyFails, Inv, ReaderFollows, askVars
<1>11. SeenCovers'
  BY DEF VerifyFails, Inv, SeenCovers, Unchanged, RowsWith, Of, Older, askVars
<1> QED BY <1>1, <1>2, <1>3, <1>4, <1>5, <1>6, <1>7, <1>8, <1>9, <1>10, <1>11 DEF Inv

LEMMA SendKeepsInv ==
  ASSUME FeedbackAssumption, Inv, Send
  PROVE  Inv'
<1>1. FeedbackTypeOK'
  <2>1. Rows' = Rows
    BY DEF Send, Rows, askVars, workVars, serverVars, Ops
  <2>2. job \in Ops
    BY DEF Inv, FeedbackTypeOK, Send
  <2>3. sends' \in [Ops -> Nat]
    BY <2>2 DEF Inv, FeedbackTypeOK, Send
  <2> QED BY <2>1, <2>2, <2>3 DEF Send, Inv, FeedbackTypeOK, Settled, Unresolved, Queued,
       Statuses, Ops, NoOp, Seqs, FeedbackAssumption, askVars, workVars, serverVars
<1>2. ReaderTyped'
  BY DEF Send, Inv, ReaderTyped
<1>3. RowsAreNumbered'
  BY DEF Send, Inv, RowsAreNumbered, JobHoldsRow, Rows, askVars
<1>4. JobHoldsRow'
  BY DEF Send, Inv, JobHoldsRow, Working, RowsWith, askVars
<1>5. WorkerIsHonest'
  BY DEF Send, WorkerIsHonest
<1>6. UnsentIsUnsent'
  BY DEF Send, Inv, JobHoldsRow, UnsentIsUnsent, Working, askVars
<1>7. StatusIsHonest'
  BY DEF Send, Inv, JobHoldsRow, WorkerIsHonest, StatusIsHonest, Working, askVars
<1>8. OlderAreSettled'
  BY DEF Send, Inv, OlderAreSettled, SameTrack, Rows, Older, askVars
<1>9. UnresolvedStops'
  BY DEF Send, Inv, UnresolvedStops, SameTrack, Rows, askVars
<1>10. ReaderFollows'
  BY DEF Send, Inv, ReaderFollows, askVars
<1>11. SeenCovers'
  BY DEF Send, Inv, SeenCovers, Unchanged, RowsWith, Of, Older, askVars
<1> QED BY <1>1, <1>2, <1>3, <1>4, <1>5, <1>6, <1>7, <1>8, <1>9, <1>10, <1>11 DEF Inv

LEMMA AwaitKeepsInv ==
  ASSUME FeedbackAssumption, Inv, Await
  PROVE  Inv'
<1>1. FeedbackTypeOK'
  <2>1. Rows' = Rows
    BY DEF Await, Rows, askVars, workVars, serverVars, Ops
  <2>2. verdict' \in Settled \cup Unresolved \cup {"none"} /\ wire' \subseteq Ops
    BY DEF Await, Settled, Unresolved, Inv, FeedbackTypeOK
  <2> QED BY <2>1, <2>2 DEF Await, Inv, FeedbackTypeOK, Settled, Unresolved, Queued, Statuses,
       Ops, NoOp, Seqs, FeedbackAssumption, askVars, workVars, serverVars
<1>2. ReaderTyped'
  BY DEF Await, Inv, ReaderTyped
<1>3. RowsAreNumbered'
  BY DEF Await, Inv, RowsAreNumbered, Rows, askVars
<1>4. JobHoldsRow'
  BY DEF Await, Inv, JobHoldsRow, Working, RowsWith, askVars
<1>5. WorkerIsHonest'
  BY DEF Await, Inv, WorkerIsHonest, StatusIsHonest
<1>6. UnsentIsUnsent'
  BY DEF Await, Inv, UnsentIsUnsent, askVars
<1>7. StatusIsHonest'
  BY DEF FeedbackAssumption, Await, Inv, StatusIsHonest, askVars
<1>8. OlderAreSettled'
  BY DEF Await, Inv, OlderAreSettled, SameTrack, Rows, Older, askVars
<1>9. UnresolvedStops'
  BY DEF Await, Inv, UnresolvedStops, SameTrack, Rows, askVars
<1>10. ReaderFollows'
  BY DEF Await, Inv, ReaderFollows, askVars
<1>11. SeenCovers'
  BY DEF Await, Inv, SeenCovers, Unchanged, RowsWith, Of, Older, askVars
<1> QED BY <1>1, <1>2, <1>3, <1>4, <1>5, <1>6, <1>7, <1>8, <1>9, <1>10, <1>11 DEF Inv

LEMMA ReadBackKeepsInv ==
  ASSUME FeedbackAssumption, Inv, ReadBack
  PROVE  Inv'
<1>1. FeedbackTypeOK'
  <2>1. Rows' = Rows
    BY DEF ReadBack, Rows, askVars, workVars, serverVars, Ops
  <2>2. verdict' \in Settled \cup Unresolved
    BY DEF ReadBack, Settled, Unresolved
  <2> QED BY <2>1, <2>2 DEF ReadBack, Inv, FeedbackTypeOK, Settled, Unresolved, Queued,
       Statuses, Ops, NoOp, Seqs, FeedbackAssumption, askVars, workVars, serverVars
<1>2. ReaderTyped'
  BY DEF ReadBack, Inv, ReaderTyped
<1>3. RowsAreNumbered'
  BY DEF ReadBack, Inv, RowsAreNumbered, Rows, askVars
<1>4. JobHoldsRow'
  BY DEF ReadBack, Inv, JobHoldsRow, Working, RowsWith, askVars
<1>5. WorkerIsHonest'
  BY DEF ReadBack, Inv, WorkerIsHonest, serverVars
<1>6. UnsentIsUnsent'
  BY DEF ReadBack, Inv, UnsentIsUnsent, askVars, serverVars
<1>7. StatusIsHonest'
  BY DEF ReadBack, Inv, StatusIsHonest, askVars, serverVars
<1>8. OlderAreSettled'
  BY DEF ReadBack, Inv, OlderAreSettled, SameTrack, Rows, Older, askVars
<1>9. UnresolvedStops'
  BY DEF ReadBack, Inv, UnresolvedStops, SameTrack, Rows, askVars
<1>10. ReaderFollows'
  BY DEF ReadBack, Inv, ReaderFollows, askVars
<1>11. SeenCovers'
  BY DEF ReadBack, Inv, SeenCovers, Unchanged, RowsWith, Of, Older, askVars
<1> QED BY <1>1, <1>2, <1>3, <1>4, <1>5, <1>6, <1>7, <1>8, <1>9, <1>10, <1>11 DEF Inv

LEMMA SettlementKeepsInv ==
  ASSUME FeedbackAssumption, Inv, worker \in {"settle", "settleUnsent"},
         journal' = SettledJournal, worker' = "claim", job' = NoOp, verdict' = "none",
         UNCHANGED <<asked, lastSeq, forgotten, rejected, sends, serverVars, reader, faults>>
  PROVE  Inv'
<1> DEFINE behind == {op \in RowsWith({"pending"}) :
                        verdict = "ambiguous" /\ asked[op].track = asked[job].track}
<1>a. UNCHANGED <<asked, lastSeq, forgotten, rejected, sends, remote, landed, wire, reader, faults>>
  BY DEF serverVars
<1>b. /\ job \in Ops /\ journal[job].status = "sending"
      /\ verdict \in {"failed", "ambiguous", "confirmed"}
      /\ verdict = "failed" => job \notin landed \cup wire
      /\ verdict = "confirmed" => job \in landed
  BY DEF Inv, FeedbackTypeOK, JobHoldsRow, WorkerIsHonest, Working
<1>c. journal' = [op \in Ops |-> IF op = job THEN [journal[op] EXCEPT !.status = verdict]
                               ELSE IF op \in behind THEN [journal[op] EXCEPT !.status = "conflict"]
                               ELSE journal[op]]
  BY DEF SettledJournal, RowsWith, Of
<1>d. \A op \in Ops :
        op \in behind <=> /\ journal[op].status = "pending"
                         /\ verdict = "ambiguous" /\ SameTrack(op, job)
  BY DEF RowsWith, SameTrack
<1> HIDE DEF behind
<1>e. \A op \in Ops :
        /\ journal'[op] \in [seq : Seqs, status : Statuses \cup {"none"}]
        /\ journal'[op].seq = journal[op].seq
        /\ journal'[op].status =
             IF op = job THEN verdict ELSE IF op \in behind THEN "conflict" ELSE journal[op].status
        /\ op # job /\ op \notin behind => journal'[op] = journal[op]
  BY <1>b, <1>c DEF Inv, FeedbackTypeOK, Statuses, Settled, Unresolved
<1>f. journal' \in [Ops -> [seq : Seqs, status : Statuses \cup {"none"}]]
  BY <1>c, <1>e
<1>g. Rows' = Rows
  BY <1>b, <1>d, <1>e DEF Rows, Ops
<1>1. FeedbackTypeOK'
  BY <1>a, <1>f, <1>g DEF Inv, FeedbackTypeOK, Seqs
<1>2. ReaderTyped'
  BY <1>a DEF Inv, ReaderTyped
<1>3. RowsAreNumbered'
  <2>1. \A op \in Ops : journal'[op].status = "none" => journal'[op] = NoRow
    BY <1>b, <1>d, <1>e DEF Inv, RowsAreNumbered
  <2>2. \A op \in Ops : journal'[op].seq = journal[op].seq
    BY <1>b, <1>d, <1>e
  <2> QED BY <1>a, <1>g, <2>1, <2>2 DEF Inv, RowsAreNumbered, Rows
<1>4. JobHoldsRow'
  BY <1>a, <1>b, <1>d, <1>e DEF Inv, JobHoldsRow, Working, RowsWith
<1>5. WorkerIsHonest'
  BY DEF WorkerIsHonest
<1>6. UnsentIsUnsent'
  BY <1>a, <1>b, <1>d, <1>e DEF Inv, UnsentIsUnsent
<1>7. StatusIsHonest'
  BY <1>a, <1>b, <1>d, <1>e DEF Inv, StatusIsHonest
<1>8. OlderAreSettled'
  <2>1. \A p, q \in Ops : /\ SameTrack(p, q)' <=> SameTrack(p, q)
                          /\ Older(p, q)' <=> Older(p, q)
    BY <1>a, <1>b, <1>d, <1>e DEF SameTrack, Older
  <2>2. SUFFICES ASSUME NEW p \in Rows, NEW q \in Rows, SameTrack(p, q), Older(p, q),
                        journal'[q].status \notin {"pending", "conflict"}
                 PROVE  journal'[p].status \in Settled
    BY <2>1, <1>g DEF OlderAreSettled, Rows
  <2>3. journal[p].status \in Settled
    BY <2>2, <1>b, <1>d, <1>e DEF Inv, OlderAreSettled, Rows
  <2> QED BY <2>3, <1>b, <1>d, <1>e DEF Settled, Rows
<1>9. UnresolvedStops'
  <2>1. SUFFICES ASSUME NEW p \in Rows, NEW q \in Rows, SameTrack(p, q),
                        journal'[p].status \in Unresolved
                 PROVE  journal'[q].status \notin Queued
    BY <1>a, <1>g DEF UnresolvedStops, SameTrack, Rows
  <2> QED BY <2>1, <1>b, <1>d, <1>e DEF Inv, UnresolvedStops, JobHoldsRow, RowsWith,
       SameTrack, Rows, Unresolved,
                        Queued
<1>10. ReaderFollows' /\ SeenCovers'
  <2>1. \A op \in Rows \cup forgotten :
          /\ asked'[op].track = asked[op].track
          /\ Later(journal[op].status, journal'[op].status)
          /\ journal'[op].seq = journal[op].seq
          /\ journal'[op].status = "none" => op \in forgotten'
    BY <1>a, <1>b, <1>d, <1>e DEF Later, Rows, Inv, FeedbackTypeOK, Unresolved
  <2>2. \A op \in Ops : journal'[op].status = "confirmed" =>
          op \in Rows /\ journal[op].status \in {"sending", "confirmed"}
    BY <1>b, <1>d, <1>e DEF Rows
  <2> QED BY <1>a, <2>1, <2>2, ReaderKeepsUp
<1> QED BY <1>1, <1>2, <1>3, <1>4, <1>5, <1>6, <1>7, <1>8, <1>9, <1>10 DEF Inv

LEMMA ReadWatermarkKeepsInv ==
  ASSUME FeedbackAssumption, Inv, NEW t \in Tracks, ReadWatermark(t)
  PROVE  Inv'
<1>a. Latest(t) \in (Rows \cap Of(t)) \cup {NoOp} /\ asked' = asked /\ journal' = journal
  BY LatestIsLast DEF Inv, ReadWatermark, askVars
<1>b. reader' = [at |-> "read", track |-> t, op |-> Latest(t), status |-> StatusOf(Latest(t)),
                 seen |-> {}]
  BY DEF ReadWatermark
<1>1. FeedbackTypeOK'
  <2>1. Rows' = Rows
    BY DEF ReadWatermark, Rows, askVars, workVars, serverVars, Ops
  <2> QED BY <2>1 DEF ReadWatermark, Inv, FeedbackTypeOK, Settled, Unresolved, Queued,
       Statuses, Ops, NoOp, Seqs, FeedbackAssumption, askVars, workVars, serverVars
<1>2. ReaderTyped'
  <2>1. StatusOf(Latest(t)) \in Statuses \cup {"none"} /\ Latest(t) \in Ops \cup {NoOp}
    BY <1>a DEF StatusOf, Inv, FeedbackTypeOK, Rows
  <2> QED BY <1>b, <2>1 DEF ReaderTyped
<1>3. RowsAreNumbered'
  BY DEF ReadWatermark, Inv, RowsAreNumbered, Rows, askVars
<1>4. JobHoldsRow'
  BY DEF ReadWatermark, Inv, JobHoldsRow, RowsWith, askVars, workVars
<1>5. WorkerIsHonest'
  BY DEF ReadWatermark, Inv, WorkerIsHonest, workVars, serverVars
<1>6. UnsentIsUnsent'
  BY DEF ReadWatermark, Inv, UnsentIsUnsent, askVars, workVars, serverVars
<1>7. StatusIsHonest'
  BY DEF ReadWatermark, Inv, StatusIsHonest, askVars, workVars, serverVars
<1>8. OlderAreSettled'
  BY DEF ReadWatermark, Inv, OlderAreSettled, SameTrack, Rows, Older, askVars
<1>9. UnresolvedStops'
  BY DEF ReadWatermark, Inv, UnresolvedStops, SameTrack, Rows, askVars
<1>10. ReaderFollows'
  BY <1>a, <1>b DEF ReaderFollows, StatusOf, Rows, Of, Later
<1>11. SeenCovers'
  BY DEF ReadWatermark, SeenCovers
<1> QED BY <1>1, <1>2, <1>3, <1>4, <1>5, <1>6, <1>7, <1>8, <1>9, <1>10, <1>11 DEF Inv

LEMMA ReadRemoteKeepsInv ==
  ASSUME FeedbackAssumption, Inv, ReadRemote
  PROVE  Inv'
<1>a. /\ asked' = asked /\ journal' = journal /\ landed' = landed /\ forgotten' = forgotten
      /\ landed \in SUBSET Ops
  BY DEF ReadRemote, askVars, serverVars, Inv, FeedbackTypeOK
<1>b. \/ reader' = NoRead
      \/ /\ reader' = [reader EXCEPT !.at = "reconcile", !.seen = landed]
         /\ reader.at = "read"
         /\ reader' = [at |-> "reconcile", track |-> reader.track, op |-> reader.op,
                       status |-> reader.status, seen |-> landed]
  BY DEF ReadRemote, Inv, ReaderTyped
<1>1. FeedbackTypeOK'
  BY DEF ReadRemote, Inv, FeedbackTypeOK, Rows, askVars, workVars, serverVars, Seqs
<1>2. ReaderTyped'
  BY <1>a, <1>b DEF Inv, ReaderTyped, NoRead
<1>3. RowsAreNumbered'
  BY DEF ReadRemote, Inv, RowsAreNumbered, Rows, askVars
<1>4. JobHoldsRow'
  BY DEF ReadRemote, Inv, JobHoldsRow, RowsWith, askVars, workVars
<1>5. WorkerIsHonest'
  BY DEF ReadRemote, Inv, WorkerIsHonest, workVars, serverVars
<1>6. UnsentIsUnsent'
  BY DEF ReadRemote, Inv, UnsentIsUnsent, askVars, workVars, serverVars
<1>7. StatusIsHonest'
  BY DEF ReadRemote, Inv, StatusIsHonest, askVars, workVars, serverVars
<1>8. OlderAreSettled'
  BY DEF FeedbackAssumption, ReadRemote, Inv, OlderAreSettled, SameTrack, Rows, Older, askVars
<1>9. UnresolvedStops'
  BY DEF ReadRemote, Inv, UnresolvedStops, SameTrack, Rows, askVars
<1>10. ReaderFollows'
  BY <1>a, <1>b DEF Inv, ReaderFollows, NoRead
<1>11. SeenCovers'
  BY <1>a, <1>b DEF Inv, SeenCovers, StatusIsHonest, RowsWith, Of, NoRead
<1> QED BY <1>1, <1>2, <1>3, <1>4, <1>5, <1>6, <1>7, <1>8, <1>9, <1>10, <1>11 DEF Inv

LEMMA ReconcileKeepsInv ==
  ASSUME FeedbackAssumption, Inv, Reconcile
  PROVE  Inv'
<1> DEFINE t == reader.track
           seen == RowsWith(Unresolved) \cap Of(t)
           current == /\ reader.status \in Unresolved
                      /\ Latest(t) = reader.op
                      /\ RowsWith(Queued) \cap Of(t) = {}
<1>a. /\ reader.at = "reconcile" /\ reader' = [reader EXCEPT !.at = "publish"]
      /\ reader' = [at |-> "publish", track |-> reader.track, op |-> reader.op,
                    status |-> reader.status, seen |-> reader.seen]
      /\ UNCHANGED <<asked, lastSeq, forgotten, rejected, workVars, serverVars, faults>>
  BY DEF Reconcile, Inv, ReaderTyped
<1>b. /\ ~current => journal' = journal
      /\ current => journal' = SetStatus(seen, "reconciled")
  BY DEF Reconcile
<1>c. /\ journal' \in [Ops -> [seq : Seqs, status : Statuses \cup {"none"}]]
      /\ \A op \in Ops :
           /\ journal'[op].seq = journal[op].seq
           /\ \/ journal'[op] = journal[op]
              \/ current /\ op \in seen /\ journal'[op].status = "reconciled"
           /\ current /\ op \in seen => journal'[op].status = "reconciled"
  <2> HIDE DEF current
  <2>1. CASE ~current
    BY <2>1, <1>b DEF Inv, FeedbackTypeOK
  <2>2. CASE current
    <3>1. \A op \in Ops :
            [journal[op] EXCEPT !.status = "reconciled"]
              \in [seq : Seqs, status : Statuses \cup {"none"}]
      BY DEF Inv, FeedbackTypeOK, Statuses, Settled
    <3> HIDE DEF seen
    <3> QED BY <2>2, <3>1, <1>b DEF SetStatus, Inv, FeedbackTypeOK
  <2> QED BY <2>1, <2>2
<1>d. seen \subseteq Rows /\ \A op \in seen : journal[op].status \in Unresolved
  BY DEF RowsWith, Rows, Unresolved
<1>e. Rows' = Rows
  BY <1>c, <1>d DEF Rows, Ops
<1>f. UNCHANGED <<asked, lastSeq, forgotten, rejected, worker, job, verdict, sends, remote, landed,
                  wire, faults>>
  BY <1>a DEF workVars, serverVars
<1> HIDE DEF current, seen
<1>1. FeedbackTypeOK'
  BY <1>c, <1>e, <1>f DEF Inv, FeedbackTypeOK, Seqs
<1>2. ReaderTyped'
  BY <1>a DEF Inv, ReaderTyped
<1>3. RowsAreNumbered'
  BY <1>c, <1>e, <1>f, <1>d DEF Inv, RowsAreNumbered, Rows
<1>4. JobHoldsRow'
  BY <1>c, <1>d, <1>f DEF Inv, JobHoldsRow, Working, RowsWith, Unresolved, FeedbackTypeOK
<1>5. WorkerIsHonest'
  BY <1>f DEF Inv, WorkerIsHonest
<1>6. UnsentIsUnsent'
  BY <1>c, <1>f, <1>d DEF Inv, UnsentIsUnsent
<1>7. StatusIsHonest'
  BY <1>c, <1>f DEF Inv, StatusIsHonest
<1>8. OlderAreSettled'
  <2>1. SUFFICES ASSUME NEW p \in Rows, NEW q \in Rows, SameTrack(p, q), Older(p, q),
                        journal'[q].status \notin {"pending", "conflict"}
                 PROVE  journal'[p].status \in Settled
    BY <1>c, <1>e, <1>f DEF OlderAreSettled, SameTrack, Older, Rows
  <2>2. CASE journal'[q] = journal[q]
    BY <2>1, <2>2, <1>c DEF Inv, OlderAreSettled, Rows, Settled
  <2>3. CASE current /\ q \in seen
    <3>1. /\ p \in seen => journal'[p].status = "reconciled"
          /\ p \notin seen => journal'[p] = journal[p] /\ journal[p].status \notin Unresolved
          /\ journal[p].status \notin Queued
      BY <2>1, <2>3, <1>c DEF SameTrack, Of, seen, current, RowsWith, Rows
    <3> QED BY <3>1, <2>1 DEF Rows, Inv, FeedbackTypeOK, Statuses, Settled
  <2> QED BY <2>2, <2>3, <1>c DEF Rows
<1>9. UnresolvedStops'
  BY <1>c, <1>e, <1>f, <1>d DEF Inv, UnresolvedStops, SameTrack, Rows, Unresolved, Queued
<1>10. ReaderFollows'
  <2>1. CASE reader.op = NoOp
    BY <2>1, <1>a DEF ReaderFollows
  <2>2. CASE reader.op # NoOp
    <3>1. reader.op \in Ops
      BY <2>2 DEF Inv, ReaderTyped
    <3> QED BY <2>2, <3>1, <1>a, <1>c, <1>d, <1>f DEF Inv, ReaderFollows, Later, Unresolved
  <2> QED BY <2>1, <2>2
<1>11. SeenCovers'
  <2>1. CASE reader.op = NoOp
    BY <2>1, <1>a DEF SeenCovers
  <2>2. CASE reader.op # NoOp
    <3>1. reader.op \in Ops
      BY <2>2 DEF Inv, ReaderTyped
    <3>2. Unchanged' => Unchanged
      BY <2>2, <3>1, <1>a, <1>c, <1>d DEF Unchanged, current, Inv, ReaderFollows, Later, Unresolved
    <3>3. journal'[reader.op].status # "pending" => journal[reader.op].status # "pending"
      BY <3>1, <1>c, <1>d DEF Unresolved
    <3>4. \A c \in Ops :
            /\ journal'[c].status = "confirmed" => journal[c].status = "confirmed"
            /\ Older(reader.op, c)' <=> Older(reader.op, c)
      BY <3>1, <1>a, <1>c DEF Older
    <3>5. SUFFICES ASSUME Unchanged', journal'[reader.op].status # "pending",
                          NEW c \in Ops, journal'[c].status = "confirmed",
                          asked[c].track = reader.track
                   PROVE  Older(reader.op, c)' \/ c \in reader'.seen
      <4>1. reader'.op = reader.op /\ reader'.track = reader.track /\ asked' = asked
        BY <1>a
      <4> QED BY <4>1 DEF SeenCovers, RowsWith, Of
    <3>6. c \in RowsWith({"confirmed"}) \cap Of(reader.track)
      BY <3>4, <3>5 DEF RowsWith, Of
    <3> QED BY <2>2, <3>2, <3>3, <3>4, <3>5, <3>6, <1>a DEF Inv, SeenCovers
  <2> QED BY <2>1, <2>2
<1> QED BY <1>1, <1>2, <1>3, <1>4, <1>5, <1>6, <1>7, <1>8, <1>9, <1>10, <1>11 DEF Inv

LEMMA PublishViewKeepsInv ==
  ASSUME FeedbackAssumption, Inv, PublishView
  PROVE  Inv'
<1>1. FeedbackTypeOK'
  <2>1. Rows' = Rows
    BY DEF PublishView, Rows, askVars, workVars, serverVars, Ops
  <2> QED BY <2>1 DEF PublishView, Inv, FeedbackTypeOK, Settled, Unresolved, Queued, Statuses,
       Ops, NoOp, Seqs, FeedbackAssumption, askVars, workVars, serverVars
<1>2. ReaderTyped'
  BY DEF PublishView, ReaderTyped, NoRead
<1>3. RowsAreNumbered'
  BY DEF PublishView, Inv, RowsAreNumbered, Rows, askVars
<1>4. JobHoldsRow'
  BY DEF PublishView, Inv, JobHoldsRow, RowsWith, askVars, workVars
<1>5. WorkerIsHonest'
  BY DEF PublishView, Inv, WorkerIsHonest, workVars, serverVars
<1>6. UnsentIsUnsent'
  BY DEF PublishView, Inv, UnsentIsUnsent, askVars, workVars, serverVars
<1>7. StatusIsHonest'
  BY DEF PublishView, Inv, StatusIsHonest, askVars, workVars, serverVars
<1>8. OlderAreSettled'
  BY DEF PublishView, Inv, OlderAreSettled, SameTrack, Rows, Older, askVars
<1>9. UnresolvedStops'
  BY DEF PublishView, Inv, UnresolvedStops, SameTrack, Rows, askVars
<1>10. ReaderFollows'
  BY DEF PublishView, ReaderFollows, NoRead
<1>11. SeenCovers'
  BY DEF PublishView, SeenCovers, NoRead
<1> QED BY <1>1, <1>2, <1>3, <1>4, <1>5, <1>6, <1>7, <1>8, <1>9, <1>10, <1>11 DEF Inv

LEMMA ServerSetsKeepsInv ==
  ASSUME FeedbackAssumption, Inv, NEW op \in Ops, ServerSets(op)
  PROVE  Inv'
<1>1. FeedbackTypeOK'
  <2>1. Rows' = Rows
    BY DEF ServerSets, Rows, askVars, workVars, serverVars, Ops
  <2>2. asked[op] \in [track : Tracks, value : Values]
    BY DEF Inv, FeedbackTypeOK, ServerSets, RowsAreNumbered, UnsentIsUnsent, Rows
  <2>3. remote' \in [Tracks -> Values]
    BY <2>2 DEF Inv, FeedbackTypeOK, ServerSets
  <2> QED BY <2>1, <2>2, <2>3 DEF ServerSets, Inv, FeedbackTypeOK, Settled, Unresolved,
       Queued, Statuses, Ops, NoOp, Seqs, FeedbackAssumption, askVars, workVars, serverVars
<1>2. ReaderTyped'
  BY DEF ServerSets, Inv, ReaderTyped
<1>3. RowsAreNumbered'
  BY DEF ServerSets, Inv, RowsAreNumbered, Rows, askVars
<1>4. JobHoldsRow'
  BY DEF ServerSets, Inv, JobHoldsRow, RowsWith, askVars, workVars
<1>5. WorkerIsHonest'
  BY DEF ServerSets, Inv, WorkerIsHonest, workVars
<1>6. UnsentIsUnsent'
  BY DEF ServerSets, Inv, UnsentIsUnsent, askVars, workVars
<1>7. StatusIsHonest'
  BY DEF ServerSets, Inv, StatusIsHonest, askVars, workVars
<1>8. OlderAreSettled'
  BY DEF ServerSets, Inv, OlderAreSettled, SameTrack, Rows, Older, askVars
<1>9. UnresolvedStops'
  BY DEF ServerSets, Inv, UnresolvedStops, SameTrack, Rows, askVars
<1>10. ReaderFollows'
  BY DEF ServerSets, Inv, ReaderFollows, askVars
<1>11. SeenCovers'
  BY DEF ServerSets, Inv, SeenCovers, Unchanged, RowsWith, Of, Older, askVars
<1> QED BY <1>1, <1>2, <1>3, <1>4, <1>5, <1>6, <1>7, <1>8, <1>9, <1>10, <1>11 DEF Inv

LEMMA RestartKeepsInv ==
  ASSUME FeedbackAssumption, Inv, Restart
  PROVE  Inv'
<1>1. FeedbackTypeOK'
  <2>1. Rows' = Rows
    BY DEF Restart, Rows, askVars, workVars, serverVars, Ops
  <2>2. faults' \in 0..MaxFaults
    BY DEF Restart, Inv, FeedbackTypeOK, FeedbackAssumption
  <2> QED BY <2>1, <2>2 DEF Restart, Inv, FeedbackTypeOK, Settled, Unresolved, Queued,
       Statuses, Ops, NoOp, Seqs, FeedbackAssumption, askVars, workVars, serverVars
<1>2. ReaderTyped'
  BY DEF Restart, ReaderTyped, NoRead
<1>3. RowsAreNumbered'
  BY DEF Restart, Inv, RowsAreNumbered, Rows, askVars
<1>4. JobHoldsRow'
  BY DEF Restart, Inv, JobHoldsRow, Working, RowsWith, askVars
<1>5. WorkerIsHonest'
  BY DEF Restart, WorkerIsHonest
<1>6. UnsentIsUnsent'
  BY DEF Restart, Inv, UnsentIsUnsent, askVars, serverVars
<1>7. StatusIsHonest'
  BY DEF Restart, Inv, StatusIsHonest, askVars, serverVars
<1>8. OlderAreSettled'
  BY DEF Restart, Inv, OlderAreSettled, SameTrack, Rows, Older, askVars
<1>9. UnresolvedStops'
  BY DEF Restart, Inv, UnresolvedStops, SameTrack, Rows, askVars
<1>10. ReaderFollows'
  BY DEF Restart, ReaderFollows, NoRead
<1>11. SeenCovers'
  BY DEF Restart, SeenCovers, NoRead
<1> QED BY <1>1, <1>2, <1>3, <1>4, <1>5, <1>6, <1>7, <1>8, <1>9, <1>10, <1>11 DEF Inv

LEMMA AcceptKeepsInv ==
  ASSUME FeedbackAssumption, Inv, NEW op \in Ops, NEW t \in Tracks, NEW value \in Values,
         Accept(op, t, value)
  PROVE  Inv'
<1>1. Asks(op, t, value) /\ UNCHANGED <<workVars, serverVars, reader>>
  BY DEF Accept, Asks
<1>2. CASE /\ UNCHANGED <<journal, lastSeq, forgotten>>
           /\ faults' \in {faults, faults + 1} /\ (faults' # faults => faults < MaxFaults)
  BY <1>1, <1>2, UnrecordedKeepsInv
<1>3. ASSUME NEW old \in SUBSET RowsWith(Settled), NEW oldest \in SUBSET RowsWith(Settled),
             RecordFeedback(op, t, old \cup oldest), faults' = faults
      PROVE  Inv'
  <2>1. old \cup oldest \in SUBSET RowsWith(Settled)
    BY <1>3
  <2> QED BY <1>1, <1>3, <2>1, RecordKeepsInv
<1> QED BY <1>2, <1>3 DEF Accept

LEMMA RecoverKeepsInv ==
  ASSUME FeedbackAssumption, Inv, Recover
  PROVE  Inv'
<1>1. UNCHANGED <<asked, lastSeq, forgotten, rejected, sends, serverVars, reader>>
  BY DEF Recover
<1>2. CASE Fails("recover")
  BY <1>1, <1>2, FailedWriteKeepsInv
<1>3. CASE /\ journal' = Recovered /\ worker' = "claim" /\ job' = NoOp /\ verdict' = "none"
           /\ faults' = faults
  BY <1>1, <1>3, RecoveryKeepsInv
<1> QED BY <1>2, <1>3 DEF Recover

LEMMA SettleKeepsInv ==
  ASSUME FeedbackAssumption, Inv, Settle
  PROVE  Inv'
<1>1. /\ UNCHANGED <<asked, lastSeq, forgotten, rejected, sends, serverVars, reader>>
      /\ worker \in {"settle", "settleUnsent"}
  BY DEF Settle
<1>2. CASE Fails(IF worker = "settle" THEN "recover" ELSE "settleUnsent")
  <2>1. CASE worker = "settle"
    BY <1>1, <1>2, <2>1, FailedWriteKeepsInv
  <2>2. CASE worker = "settleUnsent"
    BY <1>1, <1>2, <2>2, FailedWriteKeepsInv
  <2> QED BY <1>1, <2>1, <2>2
<1>3. CASE /\ journal' = SettledJournal /\ worker' = "claim" /\ job' = NoOp /\ verdict' = "none"
           /\ faults' = faults
  BY <1>1, <1>3, SettlementKeepsInv
<1> QED BY <1>2, <1>3 DEF Settle

LEMMA InitHasInv ==
  ASSUME FeedbackAssumption, Init
  PROVE  Inv
<1>1. Rows = {}
  BY DEF Init, Rows, NoRow
<1>2. Cardinality(Rows) <= MaxRows
  BY <1>1, FS_EmptySet DEF FeedbackAssumption
<1>3. FeedbackTypeOK
  BY <1>2 DEF Init, FeedbackTypeOK, NoRow, Seqs, NoOp, FeedbackAssumption
<1>4. ReaderTyped
  BY DEF Init, ReaderTyped, NoRead
<1>5. RowsAreNumbered /\ OlderAreSettled /\ UnresolvedStops
  BY <1>1 DEF Init, RowsAreNumbered, OlderAreSettled, UnresolvedStops, NoRow
<1>6. JobHoldsRow /\ WorkerIsHonest
  BY DEF Init, JobHoldsRow, WorkerIsHonest, Working, RowsWith, NoRow
<1>7. UnsentIsUnsent /\ StatusIsHonest
  BY DEF Init, UnsentIsUnsent, StatusIsHonest, NoRow
<1>8. ReaderFollows /\ SeenCovers
  BY DEF Init, ReaderFollows, SeenCovers, NoRead
<1> QED BY <1>3, <1>4, <1>5, <1>6, <1>7, <1>8 DEF Inv

LEMMA StutterKeepsInv ==
  ASSUME Inv, UNCHANGED vars
  PROVE  Inv'
<1>1. UNCHANGED <<asked, journal, lastSeq, forgotten, rejected, worker, job, verdict, sends, remote,
                  landed, wire, reader, faults>>
  BY DEF vars, askVars, workVars, serverVars
<1>2. Rows' = Rows
  BY <1>1 DEF Rows, Ops
<1>3. FeedbackTypeOK'
  BY <1>1, <1>2 DEF Inv, FeedbackTypeOK, Seqs
<1>4. /\ ReaderTyped' /\ RowsAreNumbered' /\ JobHoldsRow' /\ WorkerIsHonest' /\ UnsentIsUnsent'
      /\ StatusIsHonest' /\ OlderAreSettled' /\ UnresolvedStops'
  BY <1>1, <1>2 DEF Inv, ReaderTyped, RowsAreNumbered, JobHoldsRow, WorkerIsHonest, UnsentIsUnsent,
     StatusIsHonest, OlderAreSettled, UnresolvedStops, SameTrack, Older, RowsWith
<1>5. ReaderFollows' /\ SeenCovers'
  BY <1>1 DEF Inv, ReaderFollows, SeenCovers, Unchanged, RowsWith, Of, Older
<1> QED BY <1>3, <1>4, <1>5 DEF Inv

\* Inv holds in every state: one step for each action.
THEOREM FeedbackInvariant == FeedbackSpec => []Inv
<1>1. Init => Inv
  BY InitHasInv, FeedbackAssumption
<1>2. Inv /\ [Next]_vars => Inv'
  <2> SUFFICES ASSUME Inv, [Next]_vars
               PROVE  Inv'
    OBVIOUS
  <2> USE FeedbackAssumption
  <2>1. ASSUME NEW op \in Ops, NEW t \in Tracks, NEW value \in Values, Accept(op, t, value)
        PROVE  Inv'
    BY <2>1, AcceptKeepsInv
  <2>2. CASE Recover
    BY <2>2, RecoverKeepsInv
  <2>3. CASE VerifyFails
    BY <2>3, VerifyFailsKeepsInv
  <2>4. CASE Send
    BY <2>4, SendKeepsInv
  <2>5. CASE Await
    BY <2>5, AwaitKeepsInv
  <2>6. CASE ReadBack
    BY <2>6, ReadBackKeepsInv
  <2>7. CASE Settle
    BY <2>7, SettleKeepsInv
  <2>8. ASSUME NEW op \in Ops, Claim(op)
        PROVE  Inv'
    BY <2>8, ClaimKeepsInv
  <2>9. ASSUME NEW t \in Tracks, ReadWatermark(t)
        PROVE  Inv'
    BY <2>9, ReadWatermarkKeepsInv
  <2>10. CASE ReadRemote
    BY <2>10, ReadRemoteKeepsInv
  <2>11. CASE Reconcile
    BY <2>11, ReconcileKeepsInv
  <2>12. CASE PublishView
    BY <2>12, PublishViewKeepsInv
  <2>13. ASSUME NEW op \in Ops, ServerSets(op)
         PROVE  Inv'
    BY <2>13, ServerSetsKeepsInv
  <2>14. CASE Restart
    BY <2>14, RestartKeepsInv
  <2>15. CASE UNCHANGED vars
    BY <2>15, StutterKeepsInv
  <2> QED BY <2>1, <2>2, <2>3, <2>4, <2>5, <2>6, <2>7, <2>8, <2>9, <2>10, <2>11, <2>12, <2>13,
             <2>14, <2>15 DEF Next, Worker, Reader
<1> QED BY <1>1, <1>2, PTL DEF FeedbackSpec

\* Every variable keeps its type, and the journal never holds more than its limit.
THEOREM FeedbackTypes == FeedbackSpec => []FeedbackTypeOK
<1>1. Inv => FeedbackTypeOK
  BY DEF Inv
<1> QED BY <1>1, FeedbackInvariant, PTL

\* A status never misleads about what the server did, and nothing is sent twice,
\* whatever fails, repeats or restarts.
THEOREM JournalNeverMisleads == FeedbackSpec => []JournalIsHonest
<1>1. Inv => JournalIsHonest
  BY DEF Inv, JournalIsHonest, SentOnce, StatusIsHonest, UnsentIsUnsent
<1> QED BY <1>1, FeedbackInvariant, PTL

\* A later preference is not overtaken by an earlier one that was late, unless a
\* reader has looked in between.
THEOREM LateWritesDoNotOvertake == FeedbackSpec => []NoOvertaking
<1>1. ASSUME Inv
      PROVE  NoOvertaking
  <2>1. SUFFICES ASSUME NEW p \in Ops, NEW q \in Ops, p \in wire, sends[q] > 0, SameTrack(p, q),
                        Older(p, q), journal[p] # NoRow
                 PROVE  journal[p].status = "reconciled"
    BY DEF NoOvertaking, SameTrack
  <2>2. p \in Rows
    BY <2>1, <1>1 DEF Inv, RowsAreNumbered, Rows
  <2>3. q \in Rows
    <3>1. journal[q] # NoRow
      BY <2>1, <2>2, <1>1 DEF Older, NoRow, Inv, RowsAreNumbered, FeedbackTypeOK, Seqs
    <3> QED BY <3>1, <1>1 DEF Inv, RowsAreNumbered, Rows
  <2>4. journal[q].status \notin {"pending", "conflict"}
    BY <2>1, <1>1 DEF Inv, UnsentIsUnsent
  <2>5. journal[p].status \in Settled
    BY <2>1, <2>2, <2>3, <2>4, <1>1 DEF Inv, OlderAreSettled
  <2>6. journal[p].status \notin {"confirmed", "failed"}
    BY <2>1, <1>1 DEF Inv, StatusIsHonest
  <2> QED BY <2>5, <2>6 DEF Settled
<1> QED BY <1>1, FeedbackInvariant, PTL

\* A view that presents its value as known is not older than any confirmed write of
\* its track, unless its operation still waits.
THEOREM KnownViewsAreCurrent == FeedbackSpec => []KnownViewIsCurrent
<1>1. ASSUME Inv
      PROVE  KnownViewIsCurrent
  <2>1. SUFFICES ASSUME reader.at = "publish", IsCurrent(reader.track),
                        StatusOf(reader.op) # "pending",
                        NEW c \in Of(reader.track) \cap RowsWith({"confirmed"})
                 PROVE  c \in reader.seen
    BY DEF KnownViewIsCurrent
  <2>2. c \in Rows \cap Of(reader.track) /\ Latest(reader.track) = reader.op
    BY <2>1 DEF RowsWith, Rows, IsCurrent
  <2>3. /\ reader.op \in Rows /\ reader.op # NoOp
        /\ ~Older(reader.op, c)
    BY <2>2, <1>1, FeedbackAssumption, LatestIsLast DEF Inv, Rows, Ops, NoOp
  <2>4. Unchanged /\ journal[reader.op].status # "pending"
    BY <2>1, <2>2, <2>3 DEF IsCurrent, StatusOf, Unchanged
  <2> QED BY <2>1, <2>3, <2>4, <1>1 DEF Inv, SeenCovers
<1> QED BY <1>1, FeedbackInvariant, PTL
=============================================================================
