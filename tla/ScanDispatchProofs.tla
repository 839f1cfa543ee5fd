------------------------- MODULE ScanDispatchProofs -------------------------
(***************************************************************************)
(* ScanDispatch for any number of scans, owners, strands, jobs and         *)
(* failures: types, the constraints of the rows, their audit trail, the    *)
(* origin of their outcomes, the safety part of ScanLifecycle, and what    *)
(* JobStore promises of the scanner engine.                                *)
(***************************************************************************)
EXTENDS ScanDispatch, FiniteSetTheorems, SequenceTheorems, TLAPS

(* Which columns are set follows from the status alone.                    *)
RowShape(j) ==
  \/ j = NoRow
  \/ /\ j.status = "QUEUED" /\ j.scanner = NoId /\ j.failure = NoCode
     /\ ~j.started /\ ~j.finished /\ ~j.result
  \/ /\ j.status \in {"RUNNING", "COMPLETED"} /\ j.scanner \in Ids /\ j.failure = NoCode
     /\ j.started /\ j.lease = NoStrand
     /\ j.finished = (j.status = "COMPLETED") /\ j.result = (j.status = "COMPLETED")
  \/ /\ j.status = "FAILED" /\ j.started = (j.scanner # NoId) /\ j.failure \in FailureCodes
     /\ j.finished /\ ~j.result /\ j.lease = NoStrand
  \/ /\ j.status = "BLOCKED" /\ j.scanner = NoId /\ j.failure \in FailureCodes
     /\ ~j.started /\ j.finished /\ ~j.result /\ j.lease = NoStrand

RowOK(s) ==
  /\ RowShape(row[s])
  /\ trail[s] = TrailOf(row[s])
  /\ row[s].scanner # NoId => history[row[s].scanner].key = s
  /\ row[s].status = "COMPLETED" => history[row[s].scanner].end = "completed"
  /\ row[s].failure = "SCANNER_FAILED" =>
       row[s].scanner # NoId /\ history[row[s].scanner].end = "failed"

(* The observer follows the engine's store, restarts excepted.             *)
EngineOK ==
  /\ \A i \in Ids : /\ jobs[i].status \in Go!ActiveStatus => history[i].end = "open"
                    /\ jobs[i].status \in Go!TerminalStatus => history[i].end = jobs[i].status
                    /\ history[i].end = "none" => history[i].key = NoScan
  /\ \A s \in Scans : keys[s] # NoId => history[keys[s]].key = s

(* What a strand remembers, its work w, is still true of the rows and of   *)
(* what the engine did (told).                                             *)
WorkOK(w, rows, told) ==
  /\ w.at \in {"insert", "deny"} => w.owner \in Owners
  /\ w.at \in Dispatching \cup Polling => w.scan \in Scans /\ rows[w.scan].status # "NONE"
  /\ w.at = "attach" => w.rule \in Rules
  /\ w.at = "dispatched" => w.scanner \in Ids /\ told[w.scanner].key = w.scan
  /\ w.at \in {"undispatched", "fail"} => w.code \in FailureCodes
  /\ w.at = "undispatched" => w.code # "SCANNER_FAILED"
  /\ w.at \in {"get", "fail", "complete"} => rows[w.scan].scanner # NoId
  /\ w.at = "get" => w.scanner = rows[w.scan].scanner
  /\ w.at = "complete" => told[rows[w.scan].scanner].end = "completed"
  /\ w.at = "fail" /\ w.code = "SCANNER_FAILED" =>
       told[rows[w.scan].scanner].end = "failed"
  /\ \A m \in DOMAIN w.page : rows[w.page[m]].status # "NONE"

RowsOK    == \A s \in Scans : RowOK(s)
StrandsOK == \A h \in Strands : WorkOK(strand[h], row, history)

IInv == TypeOK /\ RowsOK /\ EngineOK /\ StrandsOK

-----------------------------------------------------------------------------
(* The scanner engine                                                      *)

USE DEF Go!ActiveStatus, Go!TerminalStatus

(* What an exchange with the engine, a job's goroutine or a restart does.  *)
EngineStep ==
  \/ UNCHANGED engine
  \/ \E s \in Scans, id \in Ids : ScannerAccepts(s, id)
  \/ \E s \in Scans : Go!admitRefused(s)
  \/ \E i \in Ids : Go!markRunning(i) \/ Go!markCompleted(i, Now) \/ Go!markFailed(i, Now)
  \/ Go!restart

(* The observer only learns: a key, and how a scan ended, stay.            *)
HistoryGrows ==
  \A i \in Ids :
    /\ history[i].key # NoScan => history'[i].key = history[i].key
    /\ history[i].end \in Go!TerminalStatus => history'[i].end = history[i].end

LEMMA NowType == Now \in Nat
<1>1. IsFiniteSet({i \in Ids : history[i].end \in Go!TerminalStatus})
  BY DispatchAssumption, FS_Subset DEF DispatchAssumption
<1> QED
  BY <1>1, FS_CardinalityType DEF Now

(* The admission of a job: an answer found, or one new job under its key.  *)
LEMMA AcceptEffect ==
  ASSUME NEW s \in Scans, NEW id, ScannerAccepts(s, id)
  PROVE  \/ /\ UNCHANGED engine /\ id = keys[s] /\ id \in Ids /\ keys[s] # NoId
         \/ /\ id \in Ids /\ history[id].end = "none"
            /\ jobs' = [jobs EXCEPT ![id] = Go!newScanJob(s)]
            /\ keys' = [keys EXCEPT ![s] = id]
            /\ history' = [history EXCEPT ![id] = [key |-> s, end |-> "open"]]
<1>1. CASE Go!admitReplay(s, s) /\ id = keys[s]
  BY <1>1, RecordsAssumption
  DEF Go!admitReplay, Go!Retained, Go!Present, Go!store, engine, RecordsAssumption
<1>2. CASE id = FreshId /\ Go!admitNew(id, s, s)
  BY <1>2, DispatchAssumption DEF Go!admitNew, Go!Unused, DispatchAssumption
<1> QED
  BY <1>1, <1>2 DEF ScannerAccepts

(* An update of job i: its status changes, finished jobs may be evicted.   *)
LEMMA UpdateEffect ==
  ASSUME Go!TypeOK, NEW i \in Ids, NEW now \in Nat,
         NEW status \in {"running", "completed", "failed"},
         Go!update(i, status, now)
  PROVE  /\ jobs' \in [Ids -> Go!Job]
         /\ keys' \in [Scans -> Ids \cup {NoId}]
         /\ jobs'[i].status \in {status, "none"}
         /\ \A j \in Ids \ {i} : jobs'[j].status \in {jobs[j].status, "none"}
         /\ \A s \in Scans : keys'[s] \in {keys[s], NoId}
<1> DEFINE m == [jobs EXCEPT ![i].status = status, ![i].updatedAt = now]
<1>1. m \in [Ids -> Go!Job] /\ m[i].status = status /\ \A j \in Ids \ {i} : m[j] = jobs[j]
  BY DEF Go!TypeOK, Go!Job
<1>2. Go!enforceRetentionLocked(m)
  BY DEF Go!update
<1>3. Go!NoJob \in Go!Job /\ Go!NoJob.status = "none"
  BY DEF Go!NoJob, Go!Job
<1> HIDE DEF m
<1>4. /\ jobs' \in [Ids -> Go!Job]
      /\ \A j \in Ids : jobs'[j] \in {m[j], Go!NoJob}
      /\ keys' \in [Scans -> Ids \cup {NoId}]
      /\ \A s \in Scans : keys'[s] \in {keys[s], NoId}
  BY <1>1, <1>2, <1>3 DEF Go!enforceRetentionLocked, Go!TypeOK
<1> QED
  BY <1>1, <1>3, <1>4

LEMMA EngineKeepsItsTypes ==
  ASSUME Go!TypeOK, EngineStep
  PROVE  Go!TypeOK'
<1>1. CASE UNCHANGED engine
  BY <1>1 DEF engine, Go!TypeOK
<1>2. ASSUME NEW s \in Scans, NEW id \in Ids, ScannerAccepts(s, id)
      PROVE  Go!TypeOK'
  <2>1. CASE UNCHANGED engine
    BY <2>1 DEF engine, Go!TypeOK
  <2>2. CASE /\ jobs' = [jobs EXCEPT ![id] = Go!newScanJob(s)]
             /\ keys' = [keys EXCEPT ![s] = id]
             /\ history' = [history EXCEPT ![id] = [key |-> s, end |-> "open"]]
    <3>1. Go!newScanJob(s) \in Go!Job /\ [key |-> s, end |-> "open"] \in Go!Admission
      BY DEF Go!newScanJob, Go!Job, Go!Admission
    <3> QED
      BY <2>2, <3>1 DEF Go!TypeOK
  <2> QED
    BY <1>2, <2>1, <2>2, AcceptEffect
<1>3. ASSUME NEW s \in Scans, Go!admitRefused(s)
      PROVE  Go!TypeOK'
  BY <1>3 DEF Go!admitRefused, Go!WithoutDangling, Go!TypeOK
<1>4. ASSUME NEW i \in Ids, Go!markRunning(i)
      PROVE  Go!TypeOK'
  BY <1>4, UpdateEffect DEF Go!markRunning, Go!TypeOK
<1>5. ASSUME NEW i \in Ids, Go!markCompleted(i, Now) \/ Go!markFailed(i, Now)
      PROVE  Go!TypeOK'
  <2>1. history' \in [Ids -> Go!Admission]
    BY <1>5 DEF Go!markCompleted, Go!markFailed, Go!TypeOK, Go!Admission
  <2> QED
    BY <1>5, <2>1, NowType, UpdateEffect DEF Go!markCompleted, Go!markFailed, Go!TypeOK
<1>6. CASE Go!restart
  BY <1>6 DEF Go!restart, Go!NoJob, Go!Job, Go!TypeOK
<1> QED
  BY <1>1, <1>2, <1>3, <1>4, <1>5, <1>6 DEF EngineStep

(* The observer keeps following the store.                                 *)
LEMMA EngineStaysOK ==
  ASSUME Go!TypeOK, EngineOK, EngineStep
  PROVE  EngineOK' /\ HistoryGrows
<1>1. CASE UNCHANGED engine
  BY <1>1 DEF engine, EngineOK, HistoryGrows
<1>2. ASSUME NEW s \in Scans, NEW id \in Ids, ScannerAccepts(s, id)
      PROVE  EngineOK' /\ HistoryGrows
  <2>1. CASE UNCHANGED engine
    BY <2>1 DEF engine, EngineOK, HistoryGrows
  <2>2. CASE /\ history[id].end = "none"
             /\ jobs' = [jobs EXCEPT ![id] = Go!newScanJob(s)]
             /\ keys' = [keys EXCEPT ![s] = id]
             /\ history' = [history EXCEPT ![id] = [key |-> s, end |-> "open"]]
    <3>1. history[id].key = NoScan
      BY <2>2 DEF EngineOK
    <3>2. HistoryGrows
      BY <2>2, <3>1 DEF HistoryGrows, Go!TypeOK
    <3>3. ASSUME NEW i \in Ids
          PROVE  /\ jobs'[i].status \in Go!ActiveStatus => history'[i].end = "open"
                 /\ jobs'[i].status \in Go!TerminalStatus => history'[i].end = jobs'[i].status
                 /\ history'[i].end = "none" => history'[i].key = NoScan
      BY <2>2 DEF Go!newScanJob, EngineOK, Go!TypeOK
    <3>4. ASSUME NEW q \in Scans, keys'[q] # NoId
          PROVE  history'[keys'[q]].key = q
      <4>1. CASE q = s
        BY <2>2, <4>1 DEF Go!TypeOK
      <4>2. CASE q # s
        <5>1. keys'[q] = keys[q] /\ keys[q] \in Ids /\ history[keys[q]].key = q
          BY <2>2, <3>4, <4>2 DEF EngineOK, Go!TypeOK
        <5>2. keys[q] # id
          BY <3>1, <5>1, DispatchAssumption DEF DispatchAssumption
        <5> QED
          BY <2>2, <5>1, <5>2 DEF Go!TypeOK
      <4> QED
        BY <4>1, <4>2
    <3> QED
      BY <3>2, <3>3, <3>4 DEF EngineOK
  <2> QED
    BY <1>2, <2>1, <2>2, AcceptEffect
<1>3. ASSUME NEW s \in Scans, Go!admitRefused(s)
      PROVE  EngineOK' /\ HistoryGrows
  BY <1>3 DEF Go!admitRefused, Go!WithoutDangling, EngineOK, HistoryGrows, Go!TypeOK
<1>4. ASSUME NEW i \in Ids, NEW now \in Nat,
             NEW status \in {"running", "completed", "failed"},
             Go!update(i, status, now), jobs[i].status \in Go!ActiveStatus,
             history' \in [Ids -> Go!Admission],
             \A j \in Ids \ {i} : history'[j] = history[j],
             history'[i].key = history[i].key,
             history'[i].end = IF status = "running" THEN "open" ELSE status
      PROVE  EngineOK' /\ HistoryGrows
  <2>1. history[i].end = "open"
    BY <1>4 DEF EngineOK
  <2>2. \A j \in Ids : history'[j].key = history[j].key
    BY <1>4
  <2>3. HistoryGrows
    BY <1>4, <2>1, <2>2 DEF HistoryGrows
  <2>4. ASSUME NEW j \in Ids
        PROVE  /\ jobs'[j].status \in Go!ActiveStatus => history'[j].end = "open"
               /\ jobs'[j].status \in Go!TerminalStatus => history'[j].end = jobs'[j].status
               /\ history'[j].end = "none" => history'[j].key = NoScan
    <3>1. CASE j = i
      BY <1>4, <2>1, <3>1, UpdateEffect DEF EngineOK
    <3>2. CASE j # i
      BY <1>4, <3>2, UpdateEffect DEF EngineOK
    <3> QED
      BY <3>1, <3>2
  <2>5. ASSUME NEW q \in Scans, keys'[q] # NoId
        PROVE  history'[keys'[q]].key = q
    BY <1>4, <2>2, <2>5, UpdateEffect DEF EngineOK, Go!TypeOK
  <2> QED
    BY <2>3, <2>4, <2>5 DEF EngineOK
<1>5. ASSUME NEW i \in Ids, Go!markRunning(i)
      PROVE  EngineOK' /\ HistoryGrows
  <2>1. history[i].end = "open" /\ history' = history
    BY <1>5 DEF Go!markRunning, EngineOK
  <2> QED
    BY <1>4, <1>5, <2>1 DEF Go!markRunning, Go!TypeOK
<1>6. ASSUME NEW i \in Ids, NEW end \in Go!TerminalStatus, jobs[i].status = "running",
             Go!update(i, end, Now), history' = [history EXCEPT ![i].end = end]
      PROVE  EngineOK' /\ HistoryGrows
  <2>1. /\ history' \in [Ids -> Go!Admission]
        /\ \A j \in Ids \ {i} : history'[j] = history[j]
        /\ history'[i].key = history[i].key /\ history'[i].end = end
    BY <1>6 DEF Go!TypeOK, Go!Admission
  <2> QED
    BY <1>4, <1>6, <2>1, NowType
<1>7. CASE Go!restart
  BY <1>7, RecordsAssumption
  DEF Go!restart, Go!NoJob, EngineOK, HistoryGrows, RecordsAssumption
<1> QED
  BY <1>1, <1>2, <1>3, <1>5, <1>6, <1>7 DEF EngineStep, Go!markCompleted, Go!markFailed

-----------------------------------------------------------------------------
(* The rows                                                                *)

(* What a row remembers of the engine.                                     *)
Attributed(s, j) ==
  /\ j.scanner # NoId => history[j.scanner].key = s
  /\ j.status = "COMPLETED" => history[j.scanner].end = "completed"
  /\ j.failure = "SCANNER_FAILED" => j.scanner # NoId /\ history[j.scanner].end = "failed"

(* A row goes from i to j: it is inserted, leased, started or ended.       *)
Moves(i, j) ==
  \/ i.status = "NONE" /\ j.status \in {"QUEUED", "BLOCKED"}
  \/ i.status = "QUEUED" /\ j.status \in {"QUEUED", "RUNNING", "BLOCKED"}
  \/ i.status = "QUEUED" /\ j.status = "FAILED" /\ j.scanner = i.scanner
  \/ i.status = "RUNNING" /\ j.status \in {"COMPLETED", "FAILED"} /\ j.scanner = i.scanner

(* A new row has an owner, who has room for one more active scan.          *)
Enters(j) ==
  /\ j.owner \in Owners
  /\ j.status = "QUEUED" => Cardinality(ActiveScansOf(j.owner)) < MaxActiveScansPerOwner

(* A statement or transaction of the lifecycle writes one row as j, and    *)
(* the event the move is told by, if there is one.                         *)
RowStep(s, j) ==
  /\ j \in ScanJob
  /\ RowShape(j) /\ Attributed(s, j)
  /\ Moves(row[s], j)
  /\ row[s].status # "NONE" => j.owner = row[s].owner
  /\ row[s].status = "NONE" => Enters(j)
  /\ row' = [row EXCEPT ![s] = j]
  /\ trail' = [trail EXCEPT ![s] = TrailOf(j)]

RecordsStep == UNCHANGED <<row, trail>> \/ \E s \in Scans, j \in ScanJob : RowStep(s, j)

LEMMA TrailCases ==
  ASSUME NEW j \in ScanJob
  PROVE  /\ j.status = "NONE"      => TrailOf(j) = <<>>
         /\ j.status = "QUEUED"    => TrailOf(j) = <<"SCAN_REQUESTED">>
         /\ j.status = "RUNNING"   => TrailOf(j) = <<"SCAN_REQUESTED", "SCAN_STARTED">>
         /\ j.status = "COMPLETED" =>
              TrailOf(j) = <<"SCAN_REQUESTED", "SCAN_STARTED", "SCAN_COMPLETED">>
         /\ j.status = "BLOCKED"   => TrailOf(j) = <<"SCAN_REQUESTED", "SCAN_BLOCKED">>
         /\ j.status = "FAILED" /\ j.started =>
              TrailOf(j) = <<"SCAN_REQUESTED", "SCAN_STARTED", "SCAN_FAILED">>
         /\ j.status = "FAILED" /\ ~j.started =>
              TrailOf(j) = <<"SCAN_REQUESTED", "SCAN_FAILED">>
  BY DEF TrailOf

LEMMA TrailType ==
  ASSUME NEW j \in ScanJob
  PROVE  TrailOf(j) \in Seq(Events)
<1>1. /\ <<>> \in Seq(Events)
      /\ <<"SCAN_REQUESTED">> \in Seq(Events)
      /\ <<"SCAN_REQUESTED", "SCAN_STARTED">> \in Seq(Events)
      /\ <<"SCAN_REQUESTED", "SCAN_STARTED", "SCAN_COMPLETED">> \in Seq(Events)
      /\ <<"SCAN_REQUESTED", "SCAN_BLOCKED">> \in Seq(Events)
      /\ <<"SCAN_REQUESTED", "SCAN_STARTED", "SCAN_FAILED">> \in Seq(Events)
      /\ <<"SCAN_REQUESTED", "SCAN_FAILED">> \in Seq(Events)
  BY DEF Events
<1>2. j.status \in {"NONE", "QUEUED", "RUNNING", "COMPLETED", "FAILED", "BLOCKED"}
  BY DEF ScanJob
<1> QED
  BY <1>1, <1>2, TrailCases

LEMMA RowStepKeepsRows ==
  ASSUME RecordsTypeOK, RowsOK, RecordsStep, UNCHANGED history
  PROVE  /\ row' \in [Scans -> ScanJob]
         /\ trail' \in [Scans -> Seq(Events)]
         /\ RowsOK'
<1>1. CASE UNCHANGED <<row, trail>>
  BY <1>1 DEF RecordsTypeOK, RowsOK, RowOK
<1>2. ASSUME NEW s \in Scans, NEW j \in ScanJob, RowStep(s, j)
      PROVE  /\ row' \in [Scans -> ScanJob]
             /\ trail' \in [Scans -> Seq(Events)]
             /\ RowsOK'
  <2>1. row' \in [Scans -> ScanJob] /\ trail' \in [Scans -> Seq(Events)]
    BY <1>2, TrailType DEF RowStep, RecordsTypeOK
  <2>2. row'[s] = j /\ trail'[s] = TrailOf(j)
    BY <1>2 DEF RowStep, RecordsTypeOK
  <2>3. RowOK(s)'
    BY <1>2, <2>2 DEF RowStep, Attributed, RowOK
  <2>4. ASSUME NEW q \in Scans, q # s
        PROVE  RowOK(q)'
    <3>1. row'[q] = row[q] /\ trail'[q] = trail[q] /\ RowOK(q)
      BY <1>2, <2>4 DEF RowStep, RecordsTypeOK, RowsOK
    <3> QED
      BY <3>1 DEF RowOK
  <2> QED
    BY <2>1, <2>3, <2>4 DEF RowsOK
<1> QED
  BY <1>1, <1>2 DEF RecordsStep

(* One row is written as j: what each statement below comes down to.       *)
LEMMA OneRow ==
  ASSUME RecordsTypeOK, NEW s \in Scans, NEW j \in ScanJob,
         RowShape(j), Attributed(s, j), Moves(row[s], j),
         row[s].status # "NONE" => j.owner = row[s].owner,
         row[s].status = "NONE" => Enters(j),
         row' = [row EXCEPT ![s] = j],
         trail' = [trail EXCEPT ![s] = TrailOf(j)]
  PROVE  RecordsStep
  BY DEF RecordsStep, RowStep

LEMMA InsertQueuedEffect ==
  ASSUME RecordsTypeOK, RowsOK, NEW s \in Scans, NEW o \in Owners,
         NEW r \in Rules \cup {NoRule}, NEW outcome, insertQueuedScan(s, o, r, outcome)
  PROVE  RecordsStep /\ UNCHANGED rules
<1>1. CASE UNCHANGED records
  BY <1>1 DEF records, RecordsStep
<1>2. CASE /\ NextScan(s)
           /\ Cardinality(ActiveScansOf(o)) < MaxActiveScansPerOwner
           /\ row' = [row EXCEPT ![s] =
                        [NoRow EXCEPT !.status = "QUEUED", !.owner = o, !.rule = r]]
           /\ insertAuditEvent(s, "SCAN_REQUESTED")
           /\ UNCHANGED rules
  <2> DEFINE j == [NoRow EXCEPT !.status = "QUEUED", !.owner = o, !.rule = r]
  <2>1. j \in ScanJob /\ j.status = "QUEUED" /\ j.owner = o
    BY DEF NoRow, ScanJob, NoCode
  <2>2. RowShape(j) /\ Attributed(s, j)
    BY DEF RowShape, Attributed, NoRow, NoCode
  <2>3. row[s].status = "NONE" /\ row[s] \in ScanJob /\ trail[s] = TrailOf(row[s])
    BY <1>2 DEF NextScan, RecordsTypeOK, RowsOK, RowOK
  <2>4. row' = [row EXCEPT ![s] = j]
    BY <1>2
  <2> HIDE DEF j
  <2>5. trail[s] = <<>> /\ TrailOf(j) = <<"SCAN_REQUESTED">>
    BY <2>1, <2>3, TrailCases
  <2>6. Append(<<>>, "SCAN_REQUESTED") = <<"SCAN_REQUESTED">>
    OBVIOUS
  <2> QED
    BY <1>2, <2>1, <2>2, <2>3, <2>4, <2>5, <2>6, OneRow DEF Moves, Enters, insertAuditEvent
<1> QED
  BY <1>1, <1>2 DEF insertQueuedScan

LEMMA InsertBlockedEffect ==
  ASSUME RecordsTypeOK, RowsOK, NEW s \in Scans, NEW o \in Owners,
         NEW r \in Rules \cup {NoRule}, insertBlockedScan(s, o, r)
  PROVE  RecordsStep /\ UNCHANGED rules
<1> DEFINE j == [NoRow EXCEPT !.status = "BLOCKED", !.owner = o, !.rule = r,
                              !.failure = "BLOCKED_TARGET", !.finished = TRUE]
<1>1. j \in ScanJob /\ j.status = "BLOCKED" /\ j.owner = o
  BY DEF NoRow, ScanJob, NoCode, FailureCodes
<1>2. RowShape(j) /\ Attributed(s, j)
  BY DEF RowShape, Attributed, NoRow, FailureCodes
<1>3. row[s].status = "NONE" /\ row[s] \in ScanJob /\ trail[s] = TrailOf(row[s])
  BY DEF insertBlockedScan, NextScan, RecordsTypeOK, RowsOK, RowOK
<1>4. row' = [row EXCEPT ![s] = j] /\ UNCHANGED rules
  BY DEF insertBlockedScan
<1> HIDE DEF j
<1>5. trail[s] = <<>>
  BY <1>3, TrailCases
<1>6. <<>> \o <<"SCAN_REQUESTED", "SCAN_BLOCKED">> = <<"SCAN_REQUESTED", "SCAN_BLOCKED">>
  OBVIOUS
<1>7. trail[s] \o <<"SCAN_REQUESTED", "SCAN_BLOCKED">> = TrailOf(j)
  BY <1>1, <1>5, <1>6, TrailCases
<1> QED
  BY <1>1, <1>2, <1>3, <1>4, <1>7, OneRow DEF Moves, Enters, insertBlockedScan

(* A queued row: its columns, and its trail.                               *)
LEMMA QueuedRow ==
  ASSUME RecordsTypeOK, RowsOK, NEW s \in Scans, row[s].status = "QUEUED"
  PROVE  /\ row[s] \in ScanJob /\ row[s].scanner = NoId /\ row[s].failure = NoCode
         /\ row[s].started = FALSE /\ row[s].finished = FALSE /\ row[s].result = FALSE
         /\ trail[s] = <<"SCAN_REQUESTED">>
<1>1. row[s] \in ScanJob /\ RowShape(row[s]) /\ trail[s] = TrailOf(row[s])
  BY DEF RecordsTypeOK, RowsOK, RowOK
<1>2. /\ row[s].scanner = NoId /\ row[s].failure = NoCode
      /\ ~row[s].started /\ ~row[s].finished /\ ~row[s].result
  BY <1>1 DEF RowShape, NoRow
<1>3. row[s].started \in BOOLEAN /\ row[s].finished \in BOOLEAN /\ row[s].result \in BOOLEAN
  BY <1>1 DEF ScanJob
<1> QED
  BY <1>1, <1>2, <1>3, TrailCases

(* A statement that leaves a queued row queued: its columns but rule and   *)
(* lease are kept.                                                         *)
LEMMA StillQueued ==
  ASSUME RecordsTypeOK, RowsOK, NEW s \in Scans, row[s].status = "QUEUED",
         NEW j \in ScanJob, j.status = "QUEUED", j.scanner = row[s].scanner,
         j.failure = row[s].failure, j.started = row[s].started,
         j.finished = row[s].finished, j.result = row[s].result,
         j.owner = row[s].owner,
         row' = [row EXCEPT ![s] = j], UNCHANGED trail
  PROVE  RecordsStep
<1>1. RowShape(j) /\ Attributed(s, j)
  BY QueuedRow, RecordsAssumption DEF RowShape, Attributed, NoCode
<1>2. trail' = [trail EXCEPT ![s] = TrailOf(j)]
  BY QueuedRow, TrailCases DEF RecordsTypeOK
<1> QED
  BY <1>1, <1>2, OneRow DEF Moves

LEMMA ClaimEffect ==
  ASSUME RecordsTypeOK, RowsOK, NEW s \in Scans, NEW h \in Strands,
         NEW outcome, claimScanDispatch(s, h, outcome)
  PROVE  RecordsStep /\ UNCHANGED rules
<1>1. CASE UNCHANGED records
  BY <1>1 DEF records, RecordsStep
<1>2. CASE /\ Claimable(s)
           /\ row' = [row EXCEPT ![s].lease = h, ![s].expired = FALSE]
           /\ UNCHANGED <<trail, rules>>
  <2> DEFINE j == [row[s] EXCEPT !.lease = h, !.expired = FALSE]
  <2>1. row[s].status = "QUEUED" /\ row[s] \in ScanJob
    BY <1>2 DEF Claimable, RecordsTypeOK
  <2>2. /\ j \in ScanJob /\ j.status = "QUEUED" /\ j.scanner = row[s].scanner
        /\ j.failure = row[s].failure /\ j.started = row[s].started
        /\ j.finished = row[s].finished /\ j.result = row[s].result
        /\ j.owner = row[s].owner
    BY <2>1 DEF ScanJob
  <2>3. row' = [row EXCEPT ![s] = j]
    BY <1>2, <2>1 DEF RecordsTypeOK
  <2> HIDE DEF j
  <2> QED
    BY <1>2, <2>1, <2>2, <2>3, StillQueued
<1> QED
  BY <1>1, <1>2 DEF claimScanDispatch

LEMMA AttachEffect ==
  ASSUME RecordsTypeOK, RowsOK, NEW s \in Scans, NEW r \in Rules, NEW h \in Strands,
         NEW outcome, attachAllowedTargetToDispatch(s, r, h, outcome)
  PROVE  RecordsStep /\ UNCHANGED rules
<1>1. CASE UNCHANGED records
  BY <1>1 DEF records, RecordsStep
<1>2. CASE /\ Leased(s, h)
           /\ row' = [row EXCEPT ![s].rule = r]
           /\ UNCHANGED <<trail, rules>>
  <2> DEFINE j == [row[s] EXCEPT !.rule = r]
  <2>1. row[s].status = "QUEUED" /\ row[s] \in ScanJob
    BY <1>2 DEF Leased, RecordsTypeOK
  <2>2. /\ j \in ScanJob /\ j.status = "QUEUED" /\ j.scanner = row[s].scanner
        /\ j.failure = row[s].failure /\ j.started = row[s].started
        /\ j.finished = row[s].finished /\ j.result = row[s].result
        /\ j.owner = row[s].owner
    BY <2>1 DEF ScanJob
  <2>3. row' = [row EXCEPT ![s] = j]
    BY <1>2, <2>1 DEF RecordsTypeOK
  <2> HIDE DEF j
  <2> QED
    BY <1>2, <2>1, <2>2, <2>3, StillQueued
<1> QED
  BY <1>1, <1>2 DEF attachAllowedTargetToDispatch

LEMMA LeaseExpiresEffect ==
  ASSUME RecordsTypeOK, RowsOK, NEW s \in Scans, LeaseExpires(s)
  PROVE  RecordsStep /\ UNCHANGED rules
<1> DEFINE j == [row[s] EXCEPT !.expired = TRUE]
<1>1. row[s].status = "QUEUED" /\ row[s] \in ScanJob
  BY DEF LeaseExpires, RecordsTypeOK, RowsOK, RowOK, RowShape, NoRow
<1>2. /\ j \in ScanJob /\ j.status = "QUEUED" /\ j.scanner = row[s].scanner
      /\ j.failure = row[s].failure /\ j.started = row[s].started
      /\ j.finished = row[s].finished /\ j.result = row[s].result
      /\ j.owner = row[s].owner
  BY <1>1 DEF ScanJob
<1>3. row' = [row EXCEPT ![s] = j] /\ UNCHANGED <<trail, rules>>
  BY <1>1 DEF LeaseExpires, RecordsTypeOK
<1> HIDE DEF j
<1> QED
  BY <1>1, <1>2, <1>3, StillQueued

LEMMA AppendToOne ==
  ASSUME NEW a, NEW b
  PROVE  Append(<<a>>, b) = <<a, b>>
<1> DEFINE S == {a, b}
<1>1. <<a>> \in Seq(S) /\ <<a, b>> \in Seq(S) /\ b \in S
  OBVIOUS
<1>2. Len(<<a>>) = 1 /\ Len(<<a, b>>) = 2
  OBVIOUS
<1> HIDE DEF S
<1>3. /\ Append(<<a>>, b) \in Seq(S) /\ Len(Append(<<a>>, b)) = 2
      /\ \A i \in 1..1 : Append(<<a>>, b)[i] = <<a>>[i]
      /\ Append(<<a>>, b)[2] = b
  BY <1>1, <1>2, AppendProperties
<1>4. <<a>>[1] = a /\ <<a, b>>[1] = a /\ <<a, b>>[2] = b
  OBVIOUS
<1>5. \A i \in 1..2 : i = 1 \/ i = 2
  OBVIOUS
<1>6. \A i \in 1..2 : Append(<<a>>, b)[i] = <<a, b>>[i]
  BY <1>3, <1>4, <1>5
<1> QED
  BY <1>1, <1>2, <1>3, <1>6, SeqEqual

LEMMA AppendToTwo ==
  ASSUME NEW a, NEW b, NEW c
  PROVE  Append(<<a, b>>, c) = <<a, b, c>>
<1> DEFINE S == {a, b, c}
<1>1. <<a, b>> \in Seq(S) /\ <<a, b, c>> \in Seq(S) /\ c \in S
  OBVIOUS
<1>2. Len(<<a, b>>) = 2 /\ Len(<<a, b, c>>) = 3
  OBVIOUS
<1> HIDE DEF S
<1>3. /\ Append(<<a, b>>, c) \in Seq(S) /\ Len(Append(<<a, b>>, c)) = 3
      /\ \A i \in 1..2 : Append(<<a, b>>, c)[i] = <<a, b>>[i]
      /\ Append(<<a, b>>, c)[3] = c
  BY <1>1, <1>2, AppendProperties
<1>4. /\ <<a, b>>[1] = a /\ <<a, b>>[2] = b
      /\ <<a, b, c>>[1] = a /\ <<a, b, c>>[2] = b /\ <<a, b, c>>[3] = c
  OBVIOUS
<1>5. \A i \in 1..3 : i = 1 \/ i = 2 \/ i = 3
  OBVIOUS
<1>6. \A i \in 1..3 : Append(<<a, b>>, c)[i] = <<a, b, c>>[i]
  BY <1>3, <1>4, <1>5
<1> QED
  BY <1>1, <1>2, <1>3, <1>6, SeqEqual

LEMMA StartEffect ==
  ASSUME RecordsTypeOK, RowsOK, NEW s \in Scans, NEW h \in Strands, NEW id \in Ids,
         history[id].key = s, NEW outcome, markScanDispatched(s, id, h, outcome)
  PROVE  RecordsStep /\ UNCHANGED rules
<1>1. CASE UNCHANGED records
  BY <1>1 DEF records, RecordsStep
<1>2. CASE /\ Leased(s, h)
           /\ row' = [row EXCEPT ![s].scanner = id, ![s].status = "RUNNING",
                                 ![s].started = TRUE,
                                 ![s].lease = NoStrand, ![s].expired = FALSE]
           /\ insertAuditEvent(s, "SCAN_STARTED")
           /\ UNCHANGED rules
  <2> DEFINE j == [row[s] EXCEPT !.scanner = id, !.status = "RUNNING", !.started = TRUE,
                                 !.lease = NoStrand, !.expired = FALSE]
  <2>1. row[s].status = "QUEUED" /\ row[s] \in ScanJob
    BY <1>2 DEF Leased, RecordsTypeOK
  <2>2. /\ j \in ScanJob /\ j.status = "RUNNING" /\ j.scanner = id
        /\ j.failure = row[s].failure /\ j.started /\ j.lease = NoStrand
        /\ j.finished = row[s].finished /\ j.result = row[s].result
        /\ j.owner = row[s].owner
    BY <2>1 DEF ScanJob
  <2>3. row' = [row EXCEPT ![s] = j]
    BY <1>2, <2>1 DEF RecordsTypeOK
  <2> HIDE DEF j
  <2>4. RowShape(j) /\ Attributed(s, j)
    <3>1. RowShape(j)
      BY <2>1, <2>2, QueuedRow DEF RowShape
    <3> QED
      BY <2>1, <2>2, <3>1, QueuedRow DEF Attributed, NoCode
  <2>5. Append(<<"SCAN_REQUESTED">>, "SCAN_STARTED") = <<"SCAN_REQUESTED", "SCAN_STARTED">>
    BY AppendToOne
  <2>6. trail' = [trail EXCEPT ![s] = TrailOf(j)]
    BY <1>2, <2>1, <2>2, <2>5, QueuedRow, TrailCases DEF insertAuditEvent
  <2> QED
    BY <1>2, <2>1, <2>2, <2>3, <2>4, <2>6, OneRow DEF Moves
<1> QED
  BY <1>1, <1>2 DEF markScanDispatched

LEMMA RefuseEffect ==
  ASSUME RecordsTypeOK, RowsOK, NEW s \in Scans, NEW h \in Strands,
         NEW code \in FailureCodes, code # "SCANNER_FAILED",
         NEW blocked \in BOOLEAN,
         NEW outcome, markScanDispatchFailed(s, code, blocked, h, outcome)
  PROVE  RecordsStep /\ UNCHANGED rules
<1>1. CASE UNCHANGED records
  BY <1>1 DEF records, RecordsStep
<1>2. CASE /\ Leased(s, h)
           /\ row' = [row EXCEPT ![s].status = IF blocked THEN "BLOCKED" ELSE "FAILED",
                                 ![s].failure = code, ![s].finished = TRUE,
                                 ![s].lease = NoStrand, ![s].expired = FALSE]
           /\ insertAuditEvent(s, IF blocked THEN "SCAN_BLOCKED" ELSE "SCAN_FAILED")
           /\ UNCHANGED rules
  <2> DEFINE j == [row[s] EXCEPT !.status = IF blocked THEN "BLOCKED" ELSE "FAILED",
                                 !.failure = code, !.finished = TRUE,
                                 !.lease = NoStrand, !.expired = FALSE]
  <2>1. row[s].status = "QUEUED" /\ row[s] \in ScanJob
    BY <1>2 DEF Leased, RecordsTypeOK
  <2>2. /\ j \in ScanJob /\ j.status = (IF blocked THEN "BLOCKED" ELSE "FAILED")
        /\ j.scanner = row[s].scanner /\ j.failure = code /\ j.started = row[s].started
        /\ j.lease = NoStrand /\ j.finished /\ j.result = row[s].result
        /\ j.owner = row[s].owner
    BY <2>1 DEF ScanJob
  <2>3. row' = [row EXCEPT ![s] = j]
    BY <1>2, <2>1 DEF RecordsTypeOK
  <2> HIDE DEF j
  <2>4. RowShape(j) /\ Attributed(s, j)
    <3>1. RowShape(j)
      BY <2>1, <2>2, QueuedRow DEF RowShape
    <3> QED
      BY <2>1, <2>2, <3>1, QueuedRow DEF Attributed
  <2>5. /\ Append(<<"SCAN_REQUESTED">>, "SCAN_BLOCKED") = <<"SCAN_REQUESTED", "SCAN_BLOCKED">>
        /\ Append(<<"SCAN_REQUESTED">>, "SCAN_FAILED") = <<"SCAN_REQUESTED", "SCAN_FAILED">>
    BY AppendToOne
  <2>6. trail' = [trail EXCEPT ![s] = TrailOf(j)]
    BY <1>2, <2>1, <2>2, <2>5, QueuedRow, TrailCases DEF insertAuditEvent
  <2> QED
    BY <1>2, <2>1, <2>2, <2>3, <2>4, <2>6, OneRow DEF Moves
<1> QED
  BY <1>1, <1>2 DEF markScanDispatchFailed

(* A row that is active and correlated is running.                         *)
LEMMA RunningRow ==
  ASSUME RecordsTypeOK, RowsOK, NEW s \in ActiveScans, row[s].scanner # NoId
  PROVE  /\ s \in Scans /\ row[s].status = "RUNNING"
         /\ row[s] \in ScanJob /\ row[s].scanner \in Ids /\ row[s].failure = NoCode
         /\ row[s].started = TRUE /\ row[s].finished = FALSE /\ row[s].result = FALSE
         /\ row[s].lease = NoStrand
         /\ history[row[s].scanner].key = s
         /\ trail[s] = <<"SCAN_REQUESTED", "SCAN_STARTED">>
<1>1. /\ s \in Scans /\ row[s].status \in ActiveStatus /\ row[s] \in ScanJob
      /\ RowShape(row[s]) /\ trail[s] = TrailOf(row[s])
      /\ history[row[s].scanner].key = s
  BY DEF ActiveScans, RecordsTypeOK, RowsOK, RowOK
<1>2. row[s].status = "RUNNING"
  BY <1>1 DEF RowShape, ActiveStatus, NoRow
<1>3. /\ row[s].scanner \in Ids /\ row[s].failure = NoCode
      /\ row[s].started /\ row[s].lease = NoStrand
      /\ row[s].finished = (row[s].status = "COMPLETED")
      /\ row[s].result = (row[s].status = "COMPLETED")
  BY <1>1, <1>2 DEF RowShape, NoRow
<1>4. row[s].started \in BOOLEAN /\ row[s].finished = FALSE /\ row[s].result = FALSE
  BY <1>1, <1>2, <1>3 DEF ScanJob
<1> QED
  BY <1>1, <1>2, <1>3, <1>4, TrailCases

LEMMA SynchronizationFailedEffect ==
  ASSUME RecordsTypeOK, RowsOK, NEW s \in Scans, row[s].scanner # NoId,
         NEW code \in FailureCodes,
         code = "SCANNER_FAILED" => history[row[s].scanner].end = "failed",
         markScanSynchronizationFailed(s, code)
  PROVE  RecordsStep /\ UNCHANGED rules
<1>1. CASE UNCHANGED records
  BY <1>1 DEF records, RecordsStep
<1>2. CASE /\ s \in ActiveScans
           /\ row' = [row EXCEPT ![s].status = "FAILED", ![s].failure = code,
                                 ![s].finished = TRUE]
           /\ insertAuditEvent(s, "SCAN_FAILED")
           /\ UNCHANGED rules
  <2> DEFINE j == [row[s] EXCEPT !.status = "FAILED", !.failure = code, !.finished = TRUE]
  <2>1. row[s].status = "RUNNING" /\ row[s] \in ScanJob
    BY <1>2, RunningRow
  <2>2. /\ j \in ScanJob /\ j.status = "FAILED" /\ j.scanner = row[s].scanner
        /\ j.failure = code /\ j.started = row[s].started /\ j.lease = row[s].lease
        /\ j.finished /\ j.result = row[s].result /\ j.owner = row[s].owner
    BY <2>1 DEF ScanJob
  <2>3. row' = [row EXCEPT ![s] = j]
    BY <1>2, <2>1 DEF RecordsTypeOK
  <2> HIDE DEF j
  <2>4. RowShape(j) /\ Attributed(s, j)
    <3>1. /\ row[s].scanner \in Ids /\ row[s].started /\ row[s].result = FALSE
          /\ row[s].lease = NoStrand /\ history[row[s].scanner].key = s
      BY <1>2, RunningRow
    <3>2. RowShape(j)
      BY <2>2, <3>1 DEF RowShape
    <3>3. Attributed(s, j)
      BY <2>2, <3>1 DEF Attributed
    <3> QED
      BY <3>2, <3>3
  <2>5. Append(<<"SCAN_REQUESTED", "SCAN_STARTED">>, "SCAN_FAILED")
          = <<"SCAN_REQUESTED", "SCAN_STARTED", "SCAN_FAILED">>
    BY AppendToTwo
  <2>6. trail' = [trail EXCEPT ![s] = TrailOf(j)]
    BY <1>2, <2>1, <2>2, <2>5, RunningRow, TrailCases DEF insertAuditEvent
  <2> QED
    BY <1>2, <2>1, <2>2, <2>3, <2>4, <2>6, OneRow DEF Moves
<1> QED
  BY <1>1, <1>2 DEF markScanSynchronizationFailed

LEMMA CompleteEffect ==
  ASSUME RecordsTypeOK, RowsOK, NEW s \in Scans, row[s].scanner # NoId,
         history[row[s].scanner].end = "completed", CompleteScanJob(s)
  PROVE  RecordsStep /\ UNCHANGED rules
<1>1. CASE UNCHANGED records
  BY <1>1 DEF records, RecordsStep
<1>2. CASE /\ s \in ActiveScans
           /\ row' = [row EXCEPT ![s].status = "COMPLETED", ![s].result = TRUE,
                                 ![s].finished = TRUE]
           /\ insertAuditEvent(s, "SCAN_COMPLETED")
           /\ UNCHANGED rules
  <2> DEFINE j == [row[s] EXCEPT !.status = "COMPLETED", !.result = TRUE, !.finished = TRUE]
  <2>1. row[s].status = "RUNNING" /\ row[s] \in ScanJob
    BY <1>2, RunningRow
  <2>2. /\ j \in ScanJob /\ j.status = "COMPLETED" /\ j.scanner = row[s].scanner
        /\ j.failure = row[s].failure /\ j.started = row[s].started
        /\ j.lease = row[s].lease /\ j.finished = TRUE /\ j.result = TRUE
        /\ j.owner = row[s].owner
    BY <2>1 DEF ScanJob
  <2>3. row' = [row EXCEPT ![s] = j]
    BY <1>2, <2>1 DEF RecordsTypeOK
  <2> HIDE DEF j
  <2>4. RowShape(j) /\ Attributed(s, j)
    BY <1>2, <2>2, RunningRow DEF RowShape, Attributed, NoCode
  <2>5. Append(<<"SCAN_REQUESTED", "SCAN_STARTED">>, "SCAN_COMPLETED")
          = <<"SCAN_REQUESTED", "SCAN_STARTED", "SCAN_COMPLETED">>
    BY AppendToTwo
  <2>6. trail' = [trail EXCEPT ![s] = TrailOf(j)]
    BY <1>2, <2>1, <2>2, <2>5, RunningRow, TrailCases DEF insertAuditEvent
  <2> QED
    BY <1>2, <2>1, <2>2, <2>3, <2>4, <2>6, OneRow DEF Moves
<1> QED
  BY <1>1, <1>2 DEF CompleteScanJob

-----------------------------------------------------------------------------
(* The strands                                                             *)

(* What other strands, the engine and the failures do to the state that a  *)
(* strand's work depends on.                                               *)
Advances ==
  /\ \A s \in Scans : row[s].status # "NONE" => row'[s].status # "NONE"
  /\ \A s \in Scans : row[s].scanner # NoId => row'[s].scanner = row[s].scanner
  /\ HistoryGrows
  /\ RecordsStep

(* What a row says of the engine stays true while the engine works.        *)
LEMMA EngineStepKeepsRows ==
  ASSUME RecordsTypeOK, RowsOK, HistoryGrows, UNCHANGED <<row, trail>>
  PROVE  RowsOK'
<1>1. SUFFICES ASSUME NEW s \in Scans PROVE RowOK(s)'
  BY DEF RowsOK
<1>2. RowOK(s) /\ row[s] \in ScanJob
  BY DEF RowsOK, RecordsTypeOK
<1>3. RowShape(row[s])' /\ (trail[s] = TrailOf(row[s]))'
  BY <1>2 DEF RowOK
<1>4. CASE row[s].scanner = NoId
  BY <1>2, <1>3, <1>4, RecordsAssumption DEF RowOK, RowShape, RecordsAssumption, NoRow
<1>5. CASE row[s].scanner # NoId
  <2>1. row[s].scanner \in Ids /\ history[row[s].scanner].key = s
    BY <1>2, <1>5 DEF RowOK, ScanJob
  <2>2. history'[row[s].scanner].key = s
    BY <2>1, DispatchAssumption DEF HistoryGrows, DispatchAssumption
  <2>3. history[row[s].scanner].end \in {"completed", "failed"} =>
          history'[row[s].scanner].end = history[row[s].scanner].end
    BY <2>1 DEF HistoryGrows
  <2> QED
    BY <1>2, <1>3, <1>5, <2>2, <2>3 DEF RowOK
<1> QED
  BY <1>4, <1>5

LEMMA RecordsStepAdvances ==
  ASSUME RecordsTypeOK, RowsOK, RecordsStep, UNCHANGED history
  PROVE  Advances
<1>1. HistoryGrows
  BY DEF HistoryGrows
<1>2. CASE UNCHANGED <<row, trail>>
  BY <1>1, <1>2 DEF Advances, RecordsStep
<1>3. ASSUME NEW s \in Scans, NEW j \in ScanJob, RowStep(s, j)
      PROVE  Advances
  <2>1. RowShape(row[s]) /\ Moves(row[s], j)
    BY <1>3 DEF RowStep, RowsOK, RowOK
  <2>2. j.status # "NONE" /\ (row[s].scanner # NoId => j.scanner = row[s].scanner)
    BY <2>1 DEF Moves, RowShape, NoRow
  <2> QED
    BY <1>1, <1>3, <2>2 DEF Advances, RecordsStep, RowStep, RecordsTypeOK
<1> QED
  BY <1>2, <1>3 DEF RecordsStep

(* The work of a strand that does not move stays what it is.               *)
LEMMA WorkStaysOK ==
  ASSUME RecordsTypeOK, RowsOK, Advances, NEW w \in Strand, WorkOK(w, row, history)
  PROVE  WorkOK(w, row', history')
<1>1. \A s \in Scans : row[s].status # "NONE" => row'[s].status # "NONE"
  BY DEF Advances
<1>2. \A s \in Scans : row[s].scanner # NoId => row'[s].scanner = row[s].scanner
  BY DEF Advances
<1>3. \A s \in Scans : row[s].scanner \in Ids \cup {NoId}
  BY DEF RecordsTypeOK, ScanJob
<1>4. \A i \in Ids : history[i].end \in {"completed", "failed"} => history'[i].end = history[i].end
  BY DEF Advances, HistoryGrows
<1>5. \A m \in DOMAIN w.page : w.page[m] \in Scans
  BY DEF Strand
<1>6. w.at = "dispatched" => history'[w.scanner].key = w.scan
  BY DispatchAssumption DEF WorkOK, Advances, HistoryGrows, Dispatching, DispatchAssumption
<1>7. w.at \in {"get", "fail", "complete"} =>
        w.scan \in Scans /\ row[w.scan].scanner \in Ids /\ row'[w.scan].scanner = row[w.scan].scanner
  BY <1>2, <1>3 DEF WorkOK, Polling
<1>8. /\ w.at = "complete" => history'[row'[w.scan].scanner].end = "completed"
      /\ w.at = "fail" /\ w.code = "SCANNER_FAILED" =>
           history'[row'[w.scan].scanner].end = "failed"
  BY <1>4, <1>7 DEF WorkOK
<1>9. \A m \in DOMAIN w.page : row'[w.page[m]].status # "NONE"
  BY <1>1, <1>5 DEF WorkOK
<1> QED
  BY <1>1, <1>6, <1>7, <1>8, <1>9 DEF WorkOK, Dispatching, Polling

LEMMA NoStrandMoves ==
  ASSUME TypeOK, RowsOK, StrandsOK, Advances, UNCHANGED strand
  PROVE  strand' \in [Strands -> Strand] /\ StrandsOK'
<1>1. ASSUME NEW h \in Strands PROVE WorkOK(strand[h], row', history')
  BY WorkStaysOK DEF TypeOK, StrandsOK
<1> QED
  BY <1>1 DEF TypeOK, StrandsOK

LEMMA OneStrandMoves ==
  ASSUME TypeOK, RowsOK, StrandsOK, Advances, NEW h \in Strands, NEW w \in Strand,
         WorkOK(w, row', history'), Continue(h, w)
  PROVE  strand' \in [Strands -> Strand] /\ StrandsOK'
<1>1. strand' \in [Strands -> Strand]
  BY DEF Continue, TypeOK
<1>2. ASSUME NEW g \in Strands PROVE WorkOK(strand'[g], row', history')
  <2>1. CASE g = h
    BY <2>1 DEF Continue, TypeOK
  <2>2. CASE g # h
    <3>1. strand'[g] = strand[g] /\ strand[g] \in Strand /\ WorkOK(strand[g], row, history)
      BY <2>2 DEF Continue, TypeOK, StrandsOK
    <3> QED
      BY <3>1, WorkStaysOK DEF TypeOK
  <2> QED
    BY <2>1, <2>2
<1> QED
  BY <1>1, <1>2 DEF StrandsOK

(* The strand record of a strand that looks at pages only.                 *)
LEMMA IdleOK ==
  ASSUME NEW page \in Seq(Scans), NEW rows, NEW told,
         \A m \in DOMAIN page : rows[page[m]].status # "NONE"
  PROVE  Idle(page) \in Strand /\ WorkOK(Idle(page), rows, told)
<1>1. /\ Idle(page) \in Strand
      /\ Idle(page).at = "idle" /\ Idle(page).page = page
  BY DEF Idle, Strand, Locations, NoCode
<1> QED
  BY <1>1 DEF WorkOK, Dispatching, Polling

LEMMA EmptyPage ==
  /\ <<>> \in Seq(Scans) /\ DOMAIN <<>> = {}
  /\ Idle(<<>>) \in Strand /\ Idle(<<>>).page = <<>>
<1>1. <<>> \in Seq(Scans) /\ DOMAIN <<>> = {}
  OBVIOUS
<1> QED
  BY <1>1 DEF Idle, Strand, Locations, NoCode

(* What a strand at work on a scan takes along.                            *)
LEMMA AtWork ==
  ASSUME TypeOK, StrandsOK, Advances, NEW h \in Strands
  PROVE  /\ strand[h] \in Strand /\ WorkOK(strand[h], row, history)
         /\ strand[h].page \in Seq(Scans)
         /\ \A m \in DOMAIN strand[h].page : row'[strand[h].page[m]].status # "NONE"
         /\ strand[h].at \in Dispatching \cup Polling =>
              Scan(h) \in Scans /\ row[Scan(h)].status # "NONE" /\ row'[Scan(h)].status # "NONE"
<1>1. strand[h] \in Strand /\ WorkOK(strand[h], row, history)
  BY DEF TypeOK, StrandsOK
<1>2. strand[h].page \in Seq(Scans)
  BY <1>1 DEF Strand
<1>3. \A m \in DOMAIN strand[h].page : strand[h].page[m] \in Scans
  BY <1>2
<1> QED
  BY <1>1, <1>2, <1>3 DEF WorkOK, Advances, Scan

LEMMA FinishOK ==
  ASSUME TypeOK, RowsOK, StrandsOK, Advances, NEW h \in Strands, Finish(h)
  PROVE  strand' \in [Strands -> Strand] /\ StrandsOK'
<1>1. Idle(strand[h].page) \in Strand /\ WorkOK(Idle(strand[h].page), row', history')
  BY AtWork, IdleOK
<1> QED
  BY <1>1, OneStrandMoves DEF Finish

(* A strand that goes on with the same scan.                               *)
LEMMA MovedOK ==
  ASSUME TypeOK, RowsOK, StrandsOK, Advances, NEW h \in Strands,
         strand[h].at \in Dispatching \cup Polling, NEW loc \in Locations
  PROVE  /\ Moved(h, loc) \in Strand
         /\ Moved(h, loc).at = loc /\ Moved(h, loc).scan = Scan(h)
         /\ Moved(h, loc).page = strand[h].page
         /\ loc \in {"authorize", "post", "reload"} => WorkOK(Moved(h, loc), row', history')
<1>1. Idle(strand[h].page) \in Strand /\ Idle(strand[h].page).page = strand[h].page
  BY AtWork, IdleOK DEF Idle
<1>2. Scan(h) \in Scans /\ strand[h].then \in {"return", "reload"}
  BY AtWork DEF Strand
<1> DEFINE w == Moved(h, loc)
<1>3. w \in Strand
  BY <1>1, <1>2 DEF Moved, Strand
<1>4. w.at = loc /\ w.scan = Scan(h) /\ w.page = strand[h].page
  BY <1>1, <1>2 DEF Moved, Strand
<1> HIDE DEF w
<1>5. loc \in {"authorize", "post", "reload"} => WorkOK(w, row', history')
  BY <1>4, AtWork DEF WorkOK
<1> QED
  BY <1>3, <1>4, <1>5 DEF w

LEMMA ReturnedOK ==
  ASSUME TypeOK, RowsOK, StrandsOK, Advances, NEW h \in Strands,
         strand[h].at \in Dispatching \cup Polling
  PROVE  Returned(h) \in Strand /\ WorkOK(Returned(h), row', history')
<1>1. Idle(strand[h].page) \in Strand /\ WorkOK(Idle(strand[h].page), row', history')
  BY AtWork, IdleOK
<1>2. Moved(h, "reload") \in Strand /\ WorkOK(Moved(h, "reload"), row', history')
  BY MovedOK DEF Locations, Polling
<1> QED
  BY <1>1, <1>2 DEF Returned

LEMMA ReturnOK ==
  ASSUME TypeOK, RowsOK, StrandsOK, Advances, NEW h \in Strands,
         strand[h].at \in Dispatching \cup Polling, Return(h)
  PROVE  strand' \in [Strands -> Strand] /\ StrandsOK'
  BY ReturnedOK, OneStrandMoves DEF Return

(* A dispatch that is to record a failure.                                 *)
LEMMA UndispatchedWork ==
  ASSUME TypeOK, RowsOK, StrandsOK, Advances, NEW h \in Strands,
         strand[h].at \in Dispatching, NEW code \in FailureCodes, code # "SCANNER_FAILED"
  PROVE  /\ [Moved(h, "undispatched") EXCEPT !.code = code] \in Strand
         /\ WorkOK([Moved(h, "undispatched") EXCEPT !.code = code], row', history')
<1> DEFINE w == [Moved(h, "undispatched") EXCEPT !.code = code]
<1>1. Moved(h, "undispatched") \in Strand
  BY MovedOK DEF Locations, Dispatching
<1>2. w \in Strand
  BY <1>1 DEF Strand
<1>3. w.at = "undispatched" /\ w.scan = Scan(h) /\ w.code = code /\ w.page = strand[h].page
  BY MovedOK DEF Locations, Dispatching
<1> HIDE DEF w
<1>4. WorkOK(w, row', history')
  BY <1>3, AtWork DEF WorkOK
<1> QED
  BY <1>2, <1>4 DEF w

LEMMA UndispatchedOK ==
  ASSUME TypeOK, RowsOK, StrandsOK, Advances, NEW h \in Strands,
         strand[h].at \in Dispatching, NEW code \in FailureCodes, code # "SCANNER_FAILED",
         Continue(h, [Moved(h, "undispatched") EXCEPT !.code = code])
  PROVE  strand' \in [Strands -> Strand] /\ StrandsOK'
<1> DEFINE w == [Moved(h, "undispatched") EXCEPT !.code = code]
<1>1. w \in Strand /\ WorkOK(w, row', history') /\ Continue(h, w)
  BY UndispatchedWork
<1> HIDE DEF w
<1> QED
  BY <1>1, OneStrandMoves

(* A strand that loaded the row of scan s.                                 *)
LEMMA LoadedOK ==
  ASSUME IInv, NEW h \in Strands, NEW s \in Scans, row[s].status # "NONE",
         NEW page \in Seq(Scans), \A m \in DOMAIN page : row[page[m]].status # "NONE"
  PROVE  Loaded(h, s, page) \in Strand /\ WorkOK(Loaded(h, s, page), row, history)
<1>1. /\ Idle(page) \in Strand /\ WorkOK(Idle(page), row, history)
      /\ Idle(page).page = page /\ Idle(page).at = "idle"
  BY IdleOK DEF Idle
<1>2. row[s] \in ScanJob
  BY DEF IInv, TypeOK, RecordsTypeOK
<1> DEFINE w1 == [Idle(page) EXCEPT !.at = "claim", !.scan = s, !.then = "reload"]
           w2 == [Idle(page) EXCEPT !.at = "get", !.scan = s, !.scanner = row[s].scanner]
<1>3. w1 \in Strand /\ w1.at = "claim" /\ w1.scan = s /\ w1.page = page
  BY <1>1 DEF Strand, Locations, Dispatching
<1>4. w2 \in Strand /\ w2.at = "get" /\ w2.scan = s /\ w2.page = page
      /\ w2.scanner = row[s].scanner
  BY <1>1, <1>2 DEF Strand, ScanJob, Locations, Polling
<1>5. Loaded(h, s, page) = IF row[s].status = "QUEUED" /\ row[s].scanner = NoId THEN w1
                           ELSE IF row[s].status \in ActiveStatus /\ row[s].scanner # NoId THEN w2
                           ELSE Idle(page)
  BY DEF Loaded
<1> HIDE DEF w1, w2
<1>6. WorkOK(w1, row, history)
  BY <1>3 DEF WorkOK
<1>7. row[s].scanner # NoId => WorkOK(w2, row, history)
  BY <1>4 DEF WorkOK
<1> QED
  BY <1>1, <1>3, <1>4, <1>5, <1>6, <1>7

-----------------------------------------------------------------------------
(* One step                                                                *)

DataOK == RecordsTypeOK /\ Go!TypeOK /\ RowsOK /\ EngineOK

RulesStep == rules' \in [Rules -> {"absent", "enabled", "disabled"}]

(* A step writes the rows or exchanges with the engine, never both.        *)
LEMMA DataStep ==
  ASSUME IInv, RulesStep,
         \/ RecordsStep /\ UNCHANGED engine
         \/ EngineStep /\ UNCHANGED <<row, trail>>
  PROVE  DataOK' /\ Advances
<1>1. RecordsTypeOK /\ RowsOK /\ Go!TypeOK /\ EngineOK
  BY DEF IInv, TypeOK
<1>2. CASE RecordsStep /\ UNCHANGED engine
  <2>1. /\ row' \in [Scans -> ScanJob] /\ trail' \in [Scans -> Seq(Events)] /\ RowsOK'
        /\ Advances
    BY <1>1, <1>2, RowStepKeepsRows, RecordsStepAdvances DEF engine
  <2>2. Go!TypeOK' /\ EngineOK'
    BY <1>1, <1>2, EngineKeepsItsTypes, EngineStaysOK DEF EngineStep
  <2> QED
    BY <2>1, <2>2 DEF DataOK, RulesStep, RecordsTypeOK
<1>3. CASE EngineStep /\ UNCHANGED <<row, trail>>
  <2>1. Go!TypeOK' /\ EngineOK' /\ HistoryGrows
    BY <1>1, <1>3, EngineKeepsItsTypes, EngineStaysOK
  <2>2. RowsOK'
    BY <1>1, <1>3, <2>1, EngineStepKeepsRows
  <2>3. Advances
    BY <1>3, <2>1 DEF Advances, RecordsStep
  <2>4. RecordsTypeOK'
    BY <1>1, <1>3 DEF RulesStep, RecordsTypeOK
  <2> QED
    BY <2>1, <2>2, <2>3, <2>4 DEF DataOK
<1> QED
  BY <1>2, <1>3

(* A step on the rows' or on the engine's side only.                       *)
LEMMA RowsOnly ==
  ASSUME IInv, RecordsStep, UNCHANGED rules, UNCHANGED engine
  PROVE  DataOK' /\ Advances
  BY DataStep DEF RulesStep, IInv, TypeOK, RecordsTypeOK

LEMMA EngineOnly ==
  ASSUME IInv, EngineStep, UNCHANGED <<row, trail, rules>>
  PROVE  DataOK' /\ Advances
  BY DataStep DEF RulesStep, IInv, TypeOK, RecordsTypeOK

LEMMA NeitherSide ==
  ASSUME IInv, UNCHANGED <<row, trail, rules, engine>>
  PROVE  DataOK' /\ Advances
  BY EngineOnly DEF EngineStep

LEMMA IInvNext ==
  ASSUME DataOK', Advances, strand' \in [Strands -> Strand], StrandsOK',
         orphans' \in [Scans -> Nat], faults' \in [FaultKind -> 0..MaxFaults]
  PROVE  IInv' /\ RecordsStep
  BY DEF IInv, TypeOK, DataOK, Advances

LEMMA FaultType ==
  ASSUME IInv, NEW kind \in FaultKind, Fault(kind)
  PROVE  faults' \in [FaultKind -> 0..MaxFaults]
<1>1. MaxFaults \in Nat /\ faults \in [FaultKind -> 0..MaxFaults]
  BY DispatchAssumption DEF IInv, TypeOK, DispatchAssumption
<1>2. Faults < MaxFaults /\ faults' = [faults EXCEPT ![kind] = @ + 1]
  BY DEF Fault
<1>3. faults[kind] + 1 \in 0..MaxFaults
  BY <1>1, <1>2 DEF Faults, FaultKind
<1> QED
  BY <1>1, <1>2, <1>3

(* A strand stands at a step: its scan, and what IInv says of its work.    *)
LEMMA AtStep ==
  ASSUME IInv, NEW h \in Strands
  PROVE  /\ WorkOK(strand[h], row, history) /\ strand[h] \in Strand
         /\ strand[h].at \in Dispatching \cup Polling => Scan(h) \in Scans
  BY DEF IInv, TypeOK, StrandsOK, WorkOK, Scan

LEMMA ReceiveCreateKeeps ==
  ASSUME IInv, NEW h \in Strands, NEW o \in Owners, ReceiveCreate(h, o)
  PROVE  IInv' /\ RecordsStep
<1>1. DataOK' /\ Advances
  BY NeitherSide DEF ReceiveCreate
<1>2. ASSUME NEW at \in {"insert", "deny"}, NEW r \in Rules \cup {NoRule},
             Continue(h, [Idle(<<>>) EXCEPT !.at = at, !.owner = o, !.rule = r])
      PROVE  strand' \in [Strands -> Strand] /\ StrandsOK'
  <2> DEFINE w == [Idle(<<>>) EXCEPT !.at = at, !.owner = o, !.rule = r]
  <2>1. Idle(<<>>) \in Strand /\ Idle(<<>>).page = <<>>
    BY EmptyPage
  <2>2. w \in Strand /\ w.at = at /\ w.owner = o /\ w.page = <<>>
    BY <2>1 DEF Strand, Locations
  <2>3. Continue(h, w)
    BY <1>2
  <2> HIDE DEF w
  <2>4. WorkOK(w, row', history')
    BY <2>2 DEF WorkOK, Dispatching, Polling
  <2> QED
    BY <1>1, <2>2, <2>3, <2>4, OneStrandMoves DEF IInv
<1>3. strand' \in [Strands -> Strand] /\ StrandsOK'
  BY <1>2 DEF ReceiveCreate
<1> QED
  BY <1>1, <1>3, IInvNext DEF ReceiveCreate, IInv, TypeOK

LEMMA InsertQueuedKeeps ==
  ASSUME IInv, NEW h \in Strands, InsertQueued(h)
  PROVE  IInv' /\ RecordsStep
<1>1. strand[h].owner \in Owners /\ strand[h].rule \in Rules \cup {NoRule}
  BY AtStep DEF WorkOK, Strand, InsertQueued, At
<1>2. PICK s \in Scans :
        \/ /\ insertQueuedScan(s, strand[h].owner, strand[h].rule, "CREATED")
           /\ Continue(h, [Idle(<<>>) EXCEPT !.at = "claim", !.scan = s])
        \/ /\ insertQueuedScan(s, strand[h].owner, strand[h].rule, "LIMIT_REACHED")
           /\ Finish(h)
  BY DEF InsertQueued
<1>3. RecordsStep /\ UNCHANGED rules
  BY <1>1, <1>2, InsertQueuedEffect DEF IInv, TypeOK
<1>4. DataOK' /\ Advances
  BY <1>3, RowsOnly DEF InsertQueued
<1>5. CASE Finish(h)
  BY <1>4, <1>5, FinishOK, IInvNext DEF InsertQueued, IInv, TypeOK
<1>6. CASE /\ insertQueuedScan(s, strand[h].owner, strand[h].rule, "CREATED")
           /\ Continue(h, [Idle(<<>>) EXCEPT !.at = "claim", !.scan = s])
  <2> DEFINE w == [Idle(<<>>) EXCEPT !.at = "claim", !.scan = s]
  <2>1. Idle(<<>>) \in Strand /\ Idle(<<>>).page = <<>>
    BY EmptyPage
  <2>2. w \in Strand /\ w.at = "claim" /\ w.scan = s /\ w.page = <<>>
    BY <2>1 DEF Strand, Locations, Dispatching
  <2>3. Continue(h, w)
    BY <1>6
  <2>4. row'[s].status = "QUEUED"
    BY <1>6 DEF insertQueuedScan, IInv, TypeOK, RecordsTypeOK, NoRow
  <2> HIDE DEF w
  <2>5. WorkOK(w, row', history')
    BY <2>2, <2>4 DEF WorkOK, Dispatching, Polling
  <2>6. strand' \in [Strands -> Strand] /\ StrandsOK'
    BY <1>4, <2>2, <2>3, <2>5, OneStrandMoves DEF IInv
  <2> QED
    BY <1>4, <2>6, IInvNext DEF InsertQueued, IInv, TypeOK
<1> QED
  BY <1>2, <1>5, <1>6

LEMMA InsertBlockedKeeps ==
  ASSUME IInv, NEW h \in Strands, InsertBlocked(h)
  PROVE  IInv' /\ RecordsStep
<1>1. strand[h].owner \in Owners /\ strand[h].rule \in Rules \cup {NoRule}
  BY AtStep DEF WorkOK, Strand, InsertBlocked, At
<1>2. RecordsStep /\ UNCHANGED rules
  BY <1>1, InsertBlockedEffect DEF InsertBlocked, IInv, TypeOK
<1>3. DataOK' /\ Advances
  BY <1>2, RowsOnly DEF InsertBlocked
<1> QED
  BY <1>3, FinishOK, IInvNext DEF InsertBlocked, IInv, TypeOK

LEMMA ClaimKeeps ==
  ASSUME IInv, NEW h \in Strands, Claim(h)
  PROVE  IInv' /\ RecordsStep
<1>1. Scan(h) \in Scans /\ strand[h].at \in Dispatching
  BY AtStep DEF Claim, At, Dispatching
<1>2. RecordsStep /\ UNCHANGED rules
  BY <1>1, ClaimEffect DEF Claim, IInv, TypeOK
<1>3. DataOK' /\ Advances
  BY <1>2, RowsOnly DEF Claim
<1>4. CASE Continue(h, Moved(h, "authorize"))
  <2>1. Moved(h, "authorize") \in Strand /\ WorkOK(Moved(h, "authorize"), row', history')
    BY <1>1, <1>3, MovedOK DEF Locations, Dispatching, IInv
  <2> QED
    BY <1>3, <1>4, <2>1, OneStrandMoves, IInvNext DEF Claim, IInv, TypeOK
<1>5. CASE Return(h)
  BY <1>1, <1>3, <1>5, ReturnOK, IInvNext DEF Claim, IInv, TypeOK
<1> QED
  BY <1>4, <1>5 DEF Claim

LEMMA AuthorizeKeeps ==
  ASSUME IInv, NEW h \in Strands, Authorize(h)
  PROVE  IInv' /\ RecordsStep
<1>1. Scan(h) \in Scans /\ strand[h].at \in Dispatching
  BY AtStep DEF Authorize, At, Dispatching
<1>2. DataOK' /\ Advances
  BY NeitherSide DEF Authorize
<1>3. ASSUME NEW r \in Rules, Continue(h, [Moved(h, "attach") EXCEPT !.rule = r])
      PROVE  strand' \in [Strands -> Strand] /\ StrandsOK'
  <2> DEFINE w == [Moved(h, "attach") EXCEPT !.rule = r]
  <2>1. /\ Moved(h, "attach") \in Strand /\ Moved(h, "attach").at = "attach"
        /\ Moved(h, "attach").scan = Scan(h) /\ Moved(h, "attach").page = strand[h].page
    BY <1>1, <1>2, MovedOK DEF Locations, Dispatching, IInv
  <2>2. /\ w \in Strand /\ w.at = "attach" /\ w.scan = Scan(h) /\ w.rule = r
        /\ w.page = strand[h].page
    BY <2>1 DEF Strand
  <2>3. Continue(h, w)
    BY <1>3
  <2> HIDE DEF w
  <2>4. WorkOK(w, row', history')
    BY <1>1, <1>2, <2>2, AtWork DEF WorkOK, IInv
  <2> QED
    BY <1>2, <2>2, <2>3, <2>4, OneStrandMoves DEF IInv
<1>4. ASSUME Continue(h, [Moved(h, "undispatched") EXCEPT !.code = "BLOCKED_TARGET"])
      PROVE  strand' \in [Strands -> Strand] /\ StrandsOK'
  BY <1>1, <1>2, <1>4, UndispatchedOK DEF FailureCodes, IInv
<1>5. strand' \in [Strands -> Strand] /\ StrandsOK'
  BY <1>3, <1>4 DEF Authorize
<1> QED
  BY <1>2, <1>5, IInvNext DEF Authorize, IInv, TypeOK

LEMMA AttachKeeps ==
  ASSUME IInv, NEW h \in Strands, Attach(h)
  PROVE  IInv' /\ RecordsStep
<1>1. Scan(h) \in Scans /\ strand[h].at \in Dispatching /\ strand[h].rule \in Rules
  BY AtStep DEF Attach, At, Dispatching, WorkOK
<1>2. RecordsStep /\ UNCHANGED rules
  BY <1>1, AttachEffect DEF Attach, IInv, TypeOK
<1>3. DataOK' /\ Advances
  BY <1>2, RowsOnly DEF Attach
<1>4. CASE Continue(h, Moved(h, "post"))
  <2>1. Moved(h, "post") \in Strand /\ WorkOK(Moved(h, "post"), row', history')
    BY <1>1, <1>3, MovedOK DEF Locations, Dispatching, IInv
  <2> QED
    BY <1>3, <1>4, <2>1, OneStrandMoves, IInvNext DEF Attach, IInv, TypeOK
<1>5. CASE Continue(h, [Moved(h, "undispatched") EXCEPT !.code = "BLOCKED_TARGET"])
  <2>1. strand' \in [Strands -> Strand] /\ StrandsOK'
    BY <1>1, <1>3, <1>5, UndispatchedOK DEF FailureCodes, IInv
  <2> QED
    BY <1>3, <2>1, IInvNext DEF Attach, IInv, TypeOK
<1> QED
  BY <1>4, <1>5 DEF Attach

LEMMA PostKeeps ==
  ASSUME IInv, NEW h \in Strands, Post(h)
  PROVE  IInv' /\ RecordsStep
<1>1. Scan(h) \in Scans /\ strand[h].at \in Dispatching
  BY AtStep DEF Post, At, Dispatching
<1>2. EngineStep
  BY <1>1 DEF Post, EngineStep
<1>3. DataOK' /\ Advances
  BY <1>2, EngineOnly DEF Post
<1>4. ASSUME NEW id \in Ids, ScannerAccepts(Scan(h), id),
             Continue(h, [Moved(h, "dispatched") EXCEPT !.scanner = id])
      PROVE  strand' \in [Strands -> Strand] /\ StrandsOK'
  <2> DEFINE w == [Moved(h, "dispatched") EXCEPT !.scanner = id]
  <2>1. /\ Moved(h, "dispatched") \in Strand /\ Moved(h, "dispatched").at = "dispatched"
        /\ Moved(h, "dispatched").scan = Scan(h)
        /\ Moved(h, "dispatched").page = strand[h].page
    BY <1>1, <1>3, MovedOK DEF Locations, Dispatching, IInv
  <2>2. /\ w \in Strand /\ w.at = "dispatched" /\ w.scan = Scan(h) /\ w.scanner = id
        /\ w.page = strand[h].page
    BY <2>1 DEF Strand
  <2>3. Continue(h, w)
    BY <1>4
  <2>4. history'[id].key = Scan(h)
    BY <1>1, <1>4, AcceptEffect DEF engine, IInv, TypeOK, EngineOK, Go!TypeOK
  <2> HIDE DEF w
  <2>5. WorkOK(w, row', history')
    BY <1>1, <1>3, <2>2, <2>4, AtWork DEF WorkOK, IInv
  <2> QED
    BY <1>3, <2>2, <2>3, <2>5, OneStrandMoves DEF IInv
<1>5. ASSUME NEW code \in {"BLOCKED_TARGET", "INVALID_TARGET", "INVALID_PORT_RANGE",
                            "INTERNAL_ERROR"},
             Continue(h, [Moved(h, "undispatched") EXCEPT !.code = code])
      PROVE  strand' \in [Strands -> Strand] /\ StrandsOK'
  BY <1>1, <1>3, <1>5, UndispatchedOK DEF FailureCodes, IInv
<1>6. ASSUME Return(h)
      PROVE  strand' \in [Strands -> Strand] /\ StrandsOK'
  BY <1>1, <1>3, <1>6, ReturnOK DEF IInv
<1>7. strand' \in [Strands -> Strand] /\ StrandsOK'
  BY <1>4, <1>5, <1>6 DEF Post
<1> QED
  BY <1>3, <1>7, IInvNext DEF Post, IInv, TypeOK

LEMMA MarkDispatchedKeeps ==
  ASSUME IInv, NEW h \in Strands, MarkDispatched(h)
  PROVE  IInv' /\ RecordsStep
<1>1. /\ Scan(h) \in Scans /\ strand[h].at \in Dispatching
      /\ strand[h].scanner \in Ids /\ history[strand[h].scanner].key = Scan(h)
  BY AtStep DEF MarkDispatched, At, Dispatching, WorkOK, Scan
<1>2. RecordsStep /\ UNCHANGED rules
  BY <1>1, StartEffect DEF MarkDispatched, IInv, TypeOK
<1>3. DataOK' /\ Advances
  BY <1>2, RowsOnly DEF MarkDispatched
<1> QED
  BY <1>1, <1>3, ReturnOK, IInvNext DEF MarkDispatched, IInv, TypeOK

LEMMA MarkUndispatchedKeeps ==
  ASSUME IInv, NEW h \in Strands, MarkUndispatched(h)
  PROVE  IInv' /\ RecordsStep
<1>1. /\ Scan(h) \in Scans /\ strand[h].at \in Dispatching
      /\ strand[h].code \in FailureCodes /\ strand[h].code # "SCANNER_FAILED"
  BY AtStep DEF MarkUndispatched, At, Dispatching, WorkOK, Scan
<1>2. RecordsStep /\ UNCHANGED rules
  BY <1>1, RefuseEffect DEF MarkUndispatched, IInv, TypeOK
<1>3. DataOK' /\ Advances
  BY <1>2, RowsOnly DEF MarkUndispatched
<1> QED
  BY <1>1, <1>3, ReturnOK, IInvNext DEF MarkUndispatched, IInv, TypeOK

LEMMA PollKeeps ==
  ASSUME IInv, NEW h \in Strands, NEW s \in Scans, Poll(h, s)
  PROVE  IInv' /\ RecordsStep
<1>1. DataOK' /\ Advances
  BY NeitherSide DEF Poll
<1>2. Loaded(h, s, <<>>) \in Strand /\ WorkOK(Loaded(h, s, <<>>), row, history)
  BY EmptyPage, LoadedOK DEF Poll
<1>3. row' = row /\ history' = history
  BY DEF Poll, engine
<1>4. strand' \in [Strands -> Strand] /\ StrandsOK'
  BY <1>1, <1>2, <1>3, OneStrandMoves DEF Poll, IInv
<1> QED
  BY <1>1, <1>4, IInvNext DEF Poll, IInv, TypeOK

LEMMA ReloadKeeps ==
  ASSUME IInv, NEW h \in Strands, Reload(h)
  PROVE  IInv' /\ RecordsStep
<1>1. Scan(h) \in Scans /\ strand[h].at \in Polling
  BY AtStep DEF Reload, At, Polling
<1>2. DataOK' /\ Advances
  BY NeitherSide DEF Reload
<1>3. CASE Finish(h)
  BY <1>2, <1>3, FinishOK, IInvNext DEF Reload, IInv, TypeOK
<1>4. CASE /\ row[Scan(h)].scanner # NoId
           /\ Continue(h, [Moved(h, "get") EXCEPT !.then = "return",
                                                  !.scanner = row[Scan(h)].scanner])
  <2> DEFINE w == [Moved(h, "get") EXCEPT !.then = "return",
                                          !.scanner = row[Scan(h)].scanner]
  <2>1. /\ Moved(h, "get") \in Strand /\ Moved(h, "get").at = "get"
        /\ Moved(h, "get").scan = Scan(h) /\ Moved(h, "get").page = strand[h].page
    BY <1>1, <1>2, MovedOK DEF Locations, Polling, IInv
  <2>2. row[Scan(h)].scanner \in Ids \cup {NoId}
    BY <1>1 DEF IInv, TypeOK, RecordsTypeOK, ScanJob
  <2>3. /\ w \in Strand /\ w.at = "get" /\ w.scan = Scan(h) /\ w.page = strand[h].page
        /\ w.scanner = row[Scan(h)].scanner
    BY <2>1, <2>2 DEF Strand
  <2>4. Continue(h, w) /\ row' = row
    BY <1>4 DEF Reload
  <2> HIDE DEF w
  <2>5. WorkOK(w, row', history')
    BY <1>1, <1>2, <1>4, <2>3, <2>4, AtWork DEF WorkOK, IInv
  <2>6. strand' \in [Strands -> Strand] /\ StrandsOK'
    BY <1>2, <2>3, <2>4, <2>5, OneStrandMoves DEF IInv
  <2> QED
    BY <1>2, <2>6, IInvNext DEF Reload, IInv, TypeOK
<1> QED
  BY <1>3, <1>4 DEF Reload

(* A strand that is to record that a scan failed.                          *)
LEMMA FailingWork ==
  ASSUME IInv, Advances, NEW h \in Strands, At(h, "get"), row' = row,
         NEW code \in FailureCodes,
         code = "SCANNER_FAILED" => history'[row[Scan(h)].scanner].end = "failed"
  PROVE  /\ [Moved(h, "fail") EXCEPT !.code = code] \in Strand
         /\ WorkOK([Moved(h, "fail") EXCEPT !.code = code], row', history')
<1>1. Scan(h) \in Scans /\ strand[h].at \in Polling /\ row[Scan(h)].scanner # NoId
  BY AtStep DEF At, Polling, WorkOK, Scan
<1> DEFINE w == [Moved(h, "fail") EXCEPT !.code = code]
<1>2. /\ Moved(h, "fail") \in Strand /\ Moved(h, "fail").at = "fail"
      /\ Moved(h, "fail").scan = Scan(h) /\ Moved(h, "fail").page = strand[h].page
  BY <1>1, MovedOK DEF Locations, Polling, IInv
<1>3. /\ w \in Strand /\ w.at = "fail" /\ w.scan = Scan(h) /\ w.page = strand[h].page
      /\ w.code = code
  BY <1>2 DEF Strand
<1> HIDE DEF w
<1>4. WorkOK(w, row', history')
  BY <1>1, <1>3, AtWork DEF WorkOK, IInv
<1> QED
  BY <1>3, <1>4 DEF w

LEMMA FailingOK ==
  ASSUME IInv, Advances, NEW h \in Strands, At(h, "get"), row' = row,
         NEW code \in FailureCodes,
         code = "SCANNER_FAILED" => history'[row[Scan(h)].scanner].end = "failed",
         Continue(h, [Moved(h, "fail") EXCEPT !.code = code])
  PROVE  strand' \in [Strands -> Strand] /\ StrandsOK'
<1> DEFINE w == [Moved(h, "fail") EXCEPT !.code = code]
<1>1. w \in Strand /\ WorkOK(w, row', history') /\ Continue(h, w)
  BY FailingWork
<1> HIDE DEF w
<1> QED
  BY <1>1, OneStrandMoves DEF IInv

(* An unreadable answer to a POST or a GET.                                *)
LEMMA UnreadableOK ==
  ASSUME IInv, Advances, NEW h \in Strands, At(h, "dispatched") \/ At(h, "get"), row' = row
  PROVE  Unreadable(h) \in Strand /\ WorkOK(Unreadable(h), row', history')
<1>1. CASE At(h, "dispatched")
  <2>1. Unreadable(h) = [Moved(h, "undispatched") EXCEPT !.code = "INTERNAL_ERROR"]
    BY <1>1 DEF Unreadable, At
  <2>2. strand[h].at \in Dispatching /\ "INTERNAL_ERROR" \in FailureCodes
    BY <1>1 DEF At, Dispatching, FailureCodes
  <2> QED
    BY <2>1, <2>2, UndispatchedWork DEF IInv
<1>2. CASE At(h, "get")
  <2>1. Unreadable(h) = [Moved(h, "fail") EXCEPT !.code = "INTERNAL_ERROR"]
    BY <1>2 DEF Unreadable
  <2> QED
    BY <1>2, <2>1, FailingWork DEF FailureCodes
<1> QED
  BY <1>1, <1>2

LEMMA GetKeeps ==
  ASSUME IInv, NEW h \in Strands, Get(h)
  PROVE  IInv' /\ RecordsStep
<1>1. /\ Scan(h) \in Scans /\ strand[h].at \in Polling
      /\ strand[h].scanner \in Ids /\ strand[h].scanner = row[Scan(h)].scanner
  BY AtStep DEF Get, At, Polling, WorkOK, Scan, Strand
<1>2. DataOK' /\ Advances
  BY NeitherSide DEF Get
<1>3. row' = row /\ history' = history
  BY DEF Get, engine
<1> DEFINE status == jobs[strand[h].scanner].status
<1>4. status \in {"completed", "failed"} => history[strand[h].scanner].end = status
  BY <1>1 DEF IInv, EngineOK
<1>5. CASE status = "none"
  <2>1. Continue(h, [Moved(h, "fail") EXCEPT !.code = "SCAN_NOT_FOUND"])
    BY <1>5 DEF Get, Answered
  <2>2. strand' \in [Strands -> Strand] /\ StrandsOK'
    BY <1>2, <1>3, <2>1, FailingOK DEF Get, FailureCodes
  <2> QED
    BY <1>2, <2>2, IInvNext DEF Get, IInv, TypeOK
<1>6. CASE status = "failed"
  <2>1. Continue(h, [Moved(h, "fail") EXCEPT !.code = "SCANNER_FAILED"])
    BY <1>6 DEF Get, Answered
  <2>2. strand' \in [Strands -> Strand] /\ StrandsOK'
    BY <1>1, <1>2, <1>3, <1>4, <1>6, <2>1, FailingOK DEF Get, FailureCodes
  <2> QED
    BY <1>2, <2>2, IInvNext DEF Get, IInv, TypeOK
<1>7. CASE status = "completed"
  <2>1. Continue(h, Moved(h, "complete"))
    BY <1>7 DEF Get, Answered
  <2>2. /\ Moved(h, "complete") \in Strand /\ Moved(h, "complete").at = "complete"
        /\ Moved(h, "complete").scan = Scan(h)
        /\ Moved(h, "complete").page = strand[h].page
    BY <1>1, <1>2, MovedOK DEF Locations, Polling, IInv
  <2>3. WorkOK(Moved(h, "complete"), row', history')
    BY <1>1, <1>2, <1>3, <1>4, <1>7, <2>2, AtWork, RecordsAssumption
    DEF WorkOK, IInv, RecordsAssumption
  <2>4. strand' \in [Strands -> Strand] /\ StrandsOK'
    BY <1>2, <2>1, <2>2, <2>3, OneStrandMoves DEF IInv
  <2> QED
    BY <1>2, <2>4, IInvNext DEF Get, IInv, TypeOK
<1>8. CASE status \notin {"none", "failed", "completed"}
  <2>1. Finish(h)
    BY <1>8 DEF Get, Answered, Finish
  <2> QED
    BY <1>2, <2>1, FinishOK, IInvNext DEF Get, IInv, TypeOK
<1> QED
  BY <1>5, <1>6, <1>7, <1>8

LEMMA FailKeeps ==
  ASSUME IInv, NEW h \in Strands, Fail(h)
  PROVE  IInv' /\ RecordsStep
<1>1. /\ Scan(h) \in Scans /\ row[Scan(h)].scanner # NoId /\ strand[h].code \in FailureCodes
      /\ strand[h].code = "SCANNER_FAILED" => history[row[Scan(h)].scanner].end = "failed"
  BY AtStep DEF Fail, At, Polling, WorkOK, Scan
<1>2. RecordsStep /\ UNCHANGED rules
  BY <1>1, SynchronizationFailedEffect DEF Fail, IInv, TypeOK
<1>3. DataOK' /\ Advances
  BY <1>2, RowsOnly DEF Fail
<1> QED
  BY <1>3, FinishOK, IInvNext DEF Fail, IInv, TypeOK

LEMMA CompleteKeeps ==
  ASSUME IInv, NEW h \in Strands, Complete(h)
  PROVE  IInv' /\ RecordsStep
<1>1. /\ Scan(h) \in Scans /\ row[Scan(h)].scanner # NoId
      /\ history[row[Scan(h)].scanner].end = "completed"
  BY AtStep DEF Complete, At, Polling, WorkOK, Scan
<1>2. RecordsStep /\ UNCHANGED rules
  BY <1>1, CompleteEffect DEF Complete, IInv, TypeOK
<1>3. DataOK' /\ Advances
  BY <1>2, RowsOnly DEF Complete
<1> QED
  BY <1>3, FinishOK, IInvNext DEF Complete, IInv, TypeOK

LEMMA ReconcilerLoadsKeeps ==
  ASSUME IInv, ReconcilerLoads
  PROVE  IInv' /\ RecordsStep
<1>1. DataOK' /\ Advances
  BY NeitherSide DEF ReconcilerLoads
<1>2. PICK n \in 0..PageSize :
        \E page \in [1..n -> ActiveScans] : Continue(Reconciler, Idle(page))
  BY DEF ReconcilerLoads
<1>3. PICK page \in [1..n -> ActiveScans] : Continue(Reconciler, Idle(page))
  BY <1>2
<1>4. n \in Nat /\ page \in [1..n -> Scans]
  BY DispatchAssumption DEF DispatchAssumption, ActiveScans
<1>5. page \in Seq(Scans)
  BY <1>4, SeqDef
<1>6. \A m \in DOMAIN page : row'[page[m]].status # "NONE"
  BY <1>3 DEF ReconcilerLoads, ActiveScans, ActiveStatus
<1>7. Idle(page) \in Strand /\ WorkOK(Idle(page), row', history')
  BY <1>5, <1>6, IdleOK
<1>8. strand' \in [Strands -> Strand] /\ StrandsOK'
  BY <1>1, <1>3, <1>7, OneStrandMoves, DispatchAssumption DEF IInv, DispatchAssumption
<1> QED
  BY <1>1, <1>8, IInvNext DEF ReconcilerLoads, IInv, TypeOK

LEMMA ReconcilerPollsKeeps ==
  ASSUME IInv, ReconcilerPolls
  PROVE  IInv' /\ RecordsStep
<1> DEFINE page == strand[Reconciler].page
<1>1. DataOK' /\ Advances
  BY NeitherSide DEF ReconcilerPolls
<1>2. Reconciler \in Strands
  BY DispatchAssumption DEF DispatchAssumption
<1>3. /\ page \in Seq(Scans) /\ page # <<>>
      /\ \A m \in DOMAIN page : row[page[m]].status # "NONE"
  BY <1>2, AtStep DEF ReconcilerPolls, WorkOK, Strand
<1> HIDE DEF page
<1>4. Head(page) \in Scans /\ row[Head(page)].status # "NONE"
  <2>1. Head(page) = page[1] /\ 1 \in DOMAIN page
    BY <1>3
  <2> QED
    BY <1>3, <2>1, HeadTailProperties
<1>5. Tail(page) \in Seq(Scans) /\ \A m \in DOMAIN Tail(page) : row[Tail(page)[m]].status # "NONE"
  <2>1. /\ Tail(page) \in Seq(Scans) /\ Len(Tail(page)) = Len(page) - 1
        /\ \A m \in 1..Len(Tail(page)) : Tail(page)[m] = page[m + 1]
    BY <1>3, HeadTailProperties
  <2>2. /\ DOMAIN page = 1..Len(page) /\ DOMAIN Tail(page) = 1..Len(Tail(page))
        /\ Len(page) \in Nat
    BY <1>3, <2>1, LenProperties
  <2>3. \A m \in 1..Len(Tail(page)) : m + 1 \in 1..Len(page)
    BY <2>1, <2>2
  <2> QED
    BY <1>3, <2>1, <2>2, <2>3
<1>6. /\ Loaded(Reconciler, Head(page), Tail(page)) \in Strand
      /\ WorkOK(Loaded(Reconciler, Head(page), Tail(page)), row, history)
  BY <1>2, <1>4, <1>5, LoadedOK
<1>7. /\ row' = row /\ history' = history
      /\ Continue(Reconciler, Loaded(Reconciler, Head(page), Tail(page)))
  BY DEF ReconcilerPolls, engine, page
<1>8. strand' \in [Strands -> Strand] /\ StrandsOK'
  BY <1>1, <1>2, <1>6, <1>7, OneStrandMoves DEF IInv
<1> QED
  BY <1>1, <1>8, IInvNext DEF ReconcilerPolls, IInv, TypeOK

(* No strand moves: jobs, orphaned requests, leases and administrators.    *)
LEMMA EnvironmentKeeps ==
  ASSUME IInv
  PROVE  /\ \A i \in Ids : RunScan(i) => IInv' /\ RecordsStep
         /\ \A s \in Scans : HandleOrphan(s) => IInv' /\ RecordsStep
         /\ \A s \in Scans : AbandonedLeaseExpires(s) \/ LeaseOverrun(s) => IInv' /\ RecordsStep
         /\ \A r \in Rules : Administrate(r) => IInv' /\ RecordsStep
<1>1. ASSUME NEW i \in Ids, RunScan(i) PROVE IInv' /\ RecordsStep
  <2>1. EngineStep
    BY <1>1 DEF RunScan, EngineStep
  <2>2. DataOK' /\ Advances
    BY <1>1, <2>1, EngineOnly DEF RunScan
  <2> QED
    BY <1>1, <2>2, NoStrandMoves, IInvNext DEF RunScan, IInv, TypeOK
<1>2. ASSUME NEW s \in Scans, HandleOrphan(s) PROVE IInv' /\ RecordsStep
  <2>1. EngineStep
    BY <1>2 DEF HandleOrphan, EngineStep
  <2>2. DataOK' /\ Advances
    BY <1>2, <2>1, EngineOnly DEF HandleOrphan
  <2>3. orphans' \in [Scans -> Nat]
    BY <1>2 DEF HandleOrphan, IInv, TypeOK
  <2> QED
    BY <1>2, <2>2, <2>3, NoStrandMoves, IInvNext DEF HandleOrphan, IInv, TypeOK
<1>3. ASSUME NEW s \in Scans, AbandonedLeaseExpires(s) \/ LeaseOverrun(s) PROVE IInv' /\ RecordsStep
  <2>1. RecordsStep /\ UNCHANGED rules
    BY <1>3, LeaseExpiresEffect DEF AbandonedLeaseExpires, LeaseOverrun, IInv, TypeOK
  <2>2. DataOK' /\ Advances
    BY <1>3, <2>1, RowsOnly DEF AbandonedLeaseExpires, LeaseOverrun
  <2>3. faults' \in [FaultKind -> 0..MaxFaults]
    BY <1>3, FaultType DEF AbandonedLeaseExpires, LeaseOverrun, FaultKind, IInv, TypeOK
  <2> QED
    BY <1>3, <2>2, <2>3, NoStrandMoves, IInvNext
    DEF AbandonedLeaseExpires, LeaseOverrun, IInv, TypeOK
<1>4. ASSUME NEW r \in Rules, Administrate(r) PROVE IInv' /\ RecordsStep
  <2>1. RulesStep
    BY <1>4 DEF RulesStep, Administrate, insertAllowedTarget, disableAllowedTarget,
                IInv, TypeOK, RecordsTypeOK
  <2>2. UNCHANGED <<row, trail, engine>>
    BY <1>4 DEF Administrate, insertAllowedTarget, disableAllowedTarget
  <2>3. DataOK' /\ Advances
    BY <2>1, <2>2, DataStep DEF RecordsStep
  <2> QED
    BY <1>4, <2>3, NoStrandMoves, IInvNext DEF Administrate, IInv, TypeOK
<1> QED
  BY <1>1, <1>2, <1>3, <1>4

LEMMA FailureKeeps ==
  ASSUME IInv, Failure
  PROVE  IInv' /\ RecordsStep
<1>1. ASSUME NEW h \in Strands, PostUnanswered(h) PROVE IInv' /\ RecordsStep
  <2>1. Scan(h) \in Scans /\ strand[h].at \in Dispatching
    BY <1>1, AtStep DEF PostUnanswered, At, Dispatching
  <2>2. DataOK' /\ Advances
    BY <1>1, NeitherSide DEF PostUnanswered
  <2>3. strand' \in [Strands -> Strand] /\ StrandsOK'
    BY <1>1, <2>1, <2>2, ReturnOK DEF PostUnanswered, IInv
  <2>4. orphans' \in [Scans -> Nat]
    BY <1>1, <2>1 DEF PostUnanswered, IInv, TypeOK
  <2> QED
    BY <1>1, <2>2, <2>3, <2>4, FaultType, IInvNext DEF PostUnanswered, FaultKind
<1>2. ASSUME NEW h \in Strands, AnswerLost(h) PROVE IInv' /\ RecordsStep
  <2>1. Scan(h) \in Scans /\ strand[h].at \in Dispatching
    BY <1>2, AtStep DEF AnswerLost, At, Dispatching
  <2>2. DataOK' /\ Advances
    BY <1>2, NeitherSide DEF AnswerLost
  <2>3. strand' \in [Strands -> Strand] /\ StrandsOK'
    BY <1>2, <2>1, <2>2, ReturnOK, UnreadableOK, OneStrandMoves DEF AnswerLost, IInv
  <2> QED
    BY <1>2, <2>2, <2>3, FaultType, IInvNext DEF AnswerLost, FaultKind, IInv, TypeOK
<1>3. ASSUME NEW h \in Strands, StatusUnreadable(h) PROVE IInv' /\ RecordsStep
  <2>1. DataOK' /\ Advances
    BY <1>3, NeitherSide DEF StatusUnreadable
  <2>2. strand' \in [Strands -> Strand] /\ StrandsOK'
    BY <1>3, <2>1, UnreadableOK, OneStrandMoves DEF StatusUnreadable, IInv
  <2> QED
    BY <1>3, <2>1, <2>2, FaultType, IInvNext DEF StatusUnreadable, FaultKind, IInv, TypeOK
<1>4. ASSUME NEW h \in Strands, GiveUp(h) PROVE IInv' /\ RecordsStep
  <2>1. DataOK' /\ Advances
    BY <1>4, NeitherSide DEF GiveUp
  <2>2. strand' \in [Strands -> Strand] /\ StrandsOK'
    BY <1>4, <2>1, FinishOK DEF GiveUp, IInv
  <2> QED
    BY <1>4, <2>1, <2>2, FaultType, IInvNext DEF GiveUp, FaultKind, IInv, TypeOK
<1>5. CASE ApiCrash
  <2>1. DataOK' /\ Advances
    BY <1>5, NeitherSide DEF ApiCrash
  <2>2. WorkOK(Idle(<<>>), row', history')
    BY EmptyPage, IdleOK
  <2>3. strand' \in [Strands -> Strand] /\ StrandsOK'
    BY <1>5, <2>2, EmptyPage DEF ApiCrash, StrandsOK
  <2>4. PICK sent \in SUBSET {h \in Strands : At(h, "post")} :
          orphans' = [s \in Scans |-> orphans[s] + Cardinality({h \in sent : Scan(h) = s})]
    BY <1>5 DEF ApiCrash
  <2>5. ASSUME NEW s \in Scans
        PROVE  Cardinality({h \in sent : Scan(h) = s}) \in Nat
    <3>1. {h \in sent : Scan(h) = s} \subseteq Strands
      OBVIOUS
    <3>2. IsFiniteSet({h \in sent : Scan(h) = s})
      BY <3>1, FS_Subset, DispatchAssumption DEF DispatchAssumption
    <3> QED
      BY <3>2, FS_CardinalityType
  <2>6. orphans' \in [Scans -> Nat]
    BY <2>4, <2>5 DEF IInv, TypeOK
  <2> QED
    BY <1>5, <2>1, <2>3, <2>6, FaultType, IInvNext DEF ApiCrash, FaultKind
<1>6. CASE ScannerRestart
  <2>1. EngineStep
    BY <1>6 DEF ScannerRestart, EngineStep
  <2>2. DataOK' /\ Advances
    BY <1>6, <2>1, EngineOnly DEF ScannerRestart
  <2>3. PICK cut \in SUBSET Exchanging,
             halved \in SUBSET (Exchanging \ {h \in Strands : At(h, "post")}) :
          /\ Fault(IF \E h \in cut \cup halved : At(h, "dispatched") THEN "cut" ELSE "restart")
          /\ strand' = [h \in Strands |-> CASE h \in cut    -> Returned(h)
                                            [] h \in halved -> Unreadable(h)
                                            [] OTHER        -> strand[h]]
          /\ cut \cap halved = {}
    BY <1>6 DEF ScannerRestart
  <2>4. faults' \in [FaultKind -> 0..MaxFaults]
    BY <2>3, FaultType DEF FaultKind
  <2>5. ASSUME NEW h \in Strands
        PROVE  strand'[h] \in Strand /\ WorkOK(strand'[h], row', history')
    <3>1. CASE h \in cut
      <4>1. strand[h].at \in Dispatching \cup Polling
        BY <3>1 DEF Exchanging, Dispatching, Polling
      <4> QED
        BY <2>2, <2>3, <3>1, <4>1, ReturnedOK DEF IInv
    <3>2. CASE h \in halved
      <4>1. At(h, "dispatched") \/ At(h, "get")
        BY <3>2 DEF Exchanging, At
      <4>2. row' = row /\ h \notin cut
        BY <1>6, <2>3, <3>2 DEF ScannerRestart
      <4> QED
        BY <2>2, <2>3, <3>2, <4>1, <4>2, UnreadableOK
    <3>3. CASE h \notin cut \cup halved
      BY <2>2, <2>3, <3>3, WorkStaysOK DEF IInv, TypeOK, StrandsOK
    <3> QED
      BY <3>1, <3>2, <3>3
  <2>6. strand' \in [Strands -> Strand] /\ StrandsOK'
    BY <2>3, <2>5 DEF StrandsOK
  <2>7. orphans' \in [Scans -> Nat]
    BY <1>6 DEF ScannerRestart
  <2> QED
    BY <2>2, <2>4, <2>6, <2>7, IInvNext
<1> QED
  BY <1>1, <1>2, <1>3, <1>4, <1>5, <1>6, EnvironmentKeeps DEF Failure

LEMMA InitIInv == Init => IInv
<1> SUFFICES ASSUME Init PROVE IInv
  OBVIOUS
<1>1. NoRow \in ScanJob /\ NoRow.status = "NONE" /\ NoRow.scanner = NoId
      /\ NoRow.failure = NoCode
  BY DEF NoRow, ScanJob, NoCode
<1>2. <<>> \in Seq(Events)
  OBVIOUS
<1>3. RecordsTypeOK
  BY <1>1, <1>2 DEF Init, RecordsInit, RecordsTypeOK
<1>4. Go!TypeOK
  BY DEF Init, Go!Init, Go!TypeOK, Go!NoJob, Go!Job, Go!Admission
<1>5. TypeOK
  BY <1>3, <1>4, EmptyPage, DispatchAssumption DEF Init, TypeOK, DispatchAssumption
<1>6. RowsOK
  <2>1. TrailOf(NoRow) = <<>>
    BY <1>1, TrailCases
  <2> QED
    BY <1>1, <2>1 DEF Init, RecordsInit, RowsOK, RowOK, RowShape, NoCode
<1>7. EngineOK
  BY RecordsAssumption DEF Init, Go!Init, Go!NoJob, EngineOK, RecordsAssumption
<1>8. StrandsOK
  BY EmptyPage, IdleOK DEF Init, StrandsOK
<1> QED
  BY <1>5, <1>6, <1>7, <1>8 DEF IInv

LEMMA NextIInv == IInv /\ [Next]_vars => IInv' /\ RecordsStep
<1> SUFFICES ASSUME IInv, [Next]_vars PROVE IInv' /\ RecordsStep
  OBVIOUS
<1>1. CASE UNCHANGED vars
  <2>1. DataOK' /\ Advances
    BY <1>1, NeitherSide DEF vars, engine
  <2> QED
    BY <1>1, <2>1, NoStrandMoves, IInvNext DEF vars, IInv, TypeOK
<1>2. ASSUME NEW h \in Strands, StrandStep(h) PROVE IInv' /\ RecordsStep
  BY <1>2, InsertQueuedKeeps, InsertBlockedKeeps, ClaimKeeps, AuthorizeKeeps, AttachKeeps,
     PostKeeps, MarkDispatchedKeeps, MarkUndispatchedKeeps, ReloadKeeps, GetKeeps,
     FailKeeps, CompleteKeeps
  DEF StrandStep
<1>3. ASSUME NEW h \in Strands, NEW o \in Owners, ReceiveCreate(h, o) PROVE IInv' /\ RecordsStep
  BY <1>3, ReceiveCreateKeeps
<1>4. ASSUME NEW h \in Strands, NEW s \in Scans, Poll(h, s) PROVE IInv' /\ RecordsStep
  BY <1>4, PollKeeps
<1>5. CASE Next
  BY <1>2, <1>3, <1>4, <1>5, ReconcilerLoadsKeeps, ReconcilerPollsKeeps, EnvironmentKeeps,
     FailureKeeps
  DEF Next
<1> QED
  BY <1>1, <1>5

LEMMA Invariance == Spec => []IInv
  BY InitIInv, NextIInv, PTL DEF Spec

-----------------------------------------------------------------------------
(* Theorems                                                                *)

(* Every variable keeps its type: rows, trails, strands and store.         *)
THEOREM DispatchTypeCorrect == Spec => []TypeOK
<1>1. IInv => TypeOK
  BY DEF IInv
<1> QED
  BY <1>1, Invariance, PTL

(* Whatever races or fails, the audit trail of a scan tells its row.       *)
THEOREM TrailIsTold == Spec => []AuditTrailTellsTheRow
<1>1. IInv => AuditTrailTellsTheRow
  BY DEF IInv, RowsOK, RowOK, AuditTrailTellsTheRow
<1> QED
  BY <1>1, Invariance, PTL

(* A row names a scanner job admitted for its own scan and ends as it did. *)
THEOREM OutcomesAreTheirOwn == Spec => []OutcomeFromOwnJob
<1>1. IInv => OutcomeFromOwnJob
  BY DEF IInv, RowsOK, RowOK, OutcomeFromOwnJob
<1> QED
  BY <1>1, Invariance, PTL

(* No CHECK, no unique scanner id and no unique event is ever violated by  *)
(* a statement of the lifecycle.                                           *)
THEOREM NoStatementIsRejected == Spec => []SchemaConstraints
<1>1. ASSUME IInv, NEW s \in Scans, row[s].status # "NONE"
      PROVE  /\ FailureCheck(row[s]) /\ TimelineCheck(row[s]) /\ ScannerIdCheck(row[s])
             /\ BlockedCheck(row[s]) /\ DurationCheck(row[s]) /\ DispatchLeaseCheck(row[s])
  <2>1. RowShape(row[s]) /\ row[s] # NoRow /\ row[s] \in ScanJob
    BY <1>1 DEF IInv, TypeOK, RecordsTypeOK, RowsOK, RowOK, NoRow
  <2>2. NoCode \notin FailureCodes /\ \A i \in Ids : i # NoId
    BY RecordsAssumption DEF NoCode, FailureCodes, RecordsAssumption
  <2>3. FailureCheck(row[s]) /\ DurationCheck(row[s])
    BY <2>1, <2>2 DEF RowShape, ScanJob, FailureCheck, DurationCheck
  <2>4. TimelineCheck(row[s])
    BY <2>1 DEF RowShape, ScanJob, TimelineCheck
  <2>5. ScannerIdCheck(row[s]) /\ BlockedCheck(row[s]) /\ DispatchLeaseCheck(row[s])
    BY <2>1, <2>2 DEF RowShape, ScannerIdCheck, BlockedCheck, DispatchLeaseCheck
  <2> QED
    BY <2>3, <2>4, <2>5
<1>2. ASSUME IInv, NEW s \in Scans, NEW t \in Scans, row[s].scanner = row[t].scanner
      PROVE  s = t \/ row[s].scanner = NoId
  BY <1>2 DEF IInv, RowsOK, RowOK
<1>3. ASSUME IInv, NEW s \in Scans, NEW m \in DOMAIN trail[s], NEW n \in DOMAIN trail[s],
             trail[s][m] = trail[s][n]
      PROVE  m = n
  <2>1. row[s] \in ScanJob /\ trail[s] = TrailOf(row[s])
    BY <1>3 DEF IInv, TypeOK, RecordsTypeOK, RowsOK, RowOK
  <2>2. \/ trail[s] = <<>>
        \/ trail[s] = <<"SCAN_REQUESTED">>
        \/ \E a \in {"SCAN_STARTED", "SCAN_BLOCKED", "SCAN_FAILED"} :
             trail[s] = <<"SCAN_REQUESTED", a>>
        \/ \E a \in {"SCAN_COMPLETED", "SCAN_FAILED"} :
             trail[s] = <<"SCAN_REQUESTED", "SCAN_STARTED", a>>
    BY <2>1, TrailCases DEF ScanJob
  <2> QED
    BY <1>3, <2>2
<1>4. IInv => SchemaConstraints
  BY <1>1, <1>2, <1>3 DEF SchemaConstraints
<1> QED
  BY <1>4, Invariance, PTL

-----------------------------------------------------------------------------
(* What a step never does                                                  *)

(* No late dispatcher, poller or reconciler rewrites a scan that ended.    *)
THEOREM EndedScansStay == Spec => EndedForGood
<1>1. ASSUME IInv, RecordsStep, NEW s \in Scans,
             row[s].status \in {"COMPLETED", "FAILED", "BLOCKED"}
      PROVE  row'[s] = row[s] /\ trail'[s] = trail[s]
  BY <1>1 DEF RecordsStep, RowStep, Moves, IInv, TypeOK, RecordsTypeOK
<1>2. IInv /\ [Next]_vars =>
        [\A s \in Scans : row[s].status \in {"COMPLETED", "FAILED", "BLOCKED"} =>
           row'[s] = row[s] /\ trail'[s] = trail[s]]_records
  BY <1>1, NextIInv
<1> QED
  BY <1>2, Invariance, PTL DEF Spec, EndedForGood

(* A statement of the lifecycle keeps a scanner id that is there.          *)
LEMMA ScannerStays ==
  ASSUME IInv, RecordsStep, NEW s \in Scans, row[s].scanner # NoId
  PROVE  row'[s].scanner = row[s].scanner
<1>1. RowShape(row[s])
  BY DEF IInv, RowsOK, RowOK
<1>2. row[s].status \in {"RUNNING", "COMPLETED", "FAILED"}
  BY <1>1 DEF RowShape, NoRow
<1> QED
  BY <1>2 DEF RecordsStep, RowStep, Moves, IInv, TypeOK, RecordsTypeOK

(* A scan that is correlated with a scanner job stays so.                  *)
THEOREM CorrelationStays == Spec => ScannerIdStable
<1>1. IInv /\ [Next]_vars =>
        [\A s \in Scans : row[s].scanner # NoId => row'[s].scanner = row[s].scanner]_records
  BY NextIInv, ScannerStays
<1> QED
  BY <1>1, Invariance, PTL DEF Spec, ScannerIdStable

-----------------------------------------------------------------------------
(* The limit of an owner                                                   *)

LEMMA ActiveScansFinite ==
  ASSUME NEW o
  PROVE  IsFiniteSet(ActiveScansOf(o)) /\ Cardinality(ActiveScansOf(o)) \in Nat
<1>1. ActiveScansOf(o) \subseteq Scans
  BY DEF ActiveScansOf, ActiveScans
<1>2. IsFiniteSet(ActiveScansOf(o))
  BY <1>1, FS_Subset, RecordsAssumption DEF RecordsAssumption
<1> QED
  BY <1>2, FS_CardinalityType

LEMMA LimitKept ==
  ASSUME IInv, RecordsStep, OneActivePerOwner
  PROVE  OneActivePerOwner'
<1>1. CASE UNCHANGED <<row, trail>>
  BY <1>1 DEF OneActivePerOwner, ActiveScansOf, ActiveScans
<1>2. ASSUME NEW s \in Scans, NEW j \in ScanJob, RowStep(s, j), NEW o \in Owners
      PROVE  Cardinality(ActiveScansOf(o)') <= MaxActiveScansPerOwner
  <2>1. row'[s] = j /\ \A q \in Scans \ {s} : row'[q] = row[q]
    BY <1>2 DEF RowStep, IInv, TypeOK, RecordsTypeOK
  <2>2. /\ Cardinality(ActiveScansOf(o)) \in Nat /\ IsFiniteSet(ActiveScansOf(o))
        /\ Cardinality(ActiveScansOf(o)) <= MaxActiveScansPerOwner
    BY ActiveScansFinite DEF OneActivePerOwner
  <2>3. CASE row[s].status = "NONE" /\ j.status = "QUEUED" /\ j.owner = o
    <3>1. ActiveScansOf(o)' = ActiveScansOf(o) \cup {s} /\ s \notin ActiveScansOf(o)
      BY <2>1, <2>3 DEF ActiveScansOf, ActiveScans, ActiveStatus
    <3>2. Cardinality(ActiveScansOf(o)') = Cardinality(ActiveScansOf(o)) + 1
      BY <2>2, <3>1, FS_AddElement
    <3>3. Cardinality(ActiveScansOf(o)) < MaxActiveScansPerOwner
      BY <1>2, <2>3 DEF RowStep, Enters
    <3> QED
      BY <2>2, <3>2, <3>3, RecordsAssumption DEF RecordsAssumption
  <2>4. CASE ~(row[s].status = "NONE" /\ j.status = "QUEUED" /\ j.owner = o)
    <3>1. ActiveScansOf(o)' \subseteq ActiveScansOf(o)
      BY <1>2, <2>1, <2>4 DEF ActiveScansOf, ActiveScans, ActiveStatus, RowStep, Moves
    <3>2. Cardinality(ActiveScansOf(o)') <= Cardinality(ActiveScansOf(o))
          /\ Cardinality(ActiveScansOf(o)') \in Nat
      BY <2>2, <3>1, FS_Subset, FS_CardinalityType
    <3> QED
      BY <2>2, <3>2, RecordsAssumption DEF RecordsAssumption
  <2> QED
    BY <2>3, <2>4
<1> QED
  BY <1>1, <1>2 DEF RecordsStep, OneActivePerOwner

(* No owner ever has more active scans than the limit.                     *)
THEOREM OwnersAreLimited == Spec => []OneActivePerOwner
<1>1. Init => OneActivePerOwner
  <2> SUFFICES ASSUME Init, NEW o \in Owners
               PROVE  Cardinality(ActiveScansOf(o)) <= MaxActiveScansPerOwner
    BY DEF OneActivePerOwner
  <2>1. ActiveScansOf(o) = {}
    BY DEF Init, RecordsInit, NoRow, ActiveScansOf, ActiveScans, ActiveStatus
  <2> QED
    BY <2>1, FS_EmptySet, RecordsAssumption DEF RecordsAssumption
<1>2. IInv /\ OneActivePerOwner /\ [Next]_vars => OneActivePerOwner'
  BY NextIInv, LimitKept
<1> QED
  BY <1>1, <1>2, Invariance, PTL DEF Spec

-----------------------------------------------------------------------------
(* The abstract life of a scan                                             *)

LEMMA LifecycleStep ==
  ASSUME IInv, NEW s \in Scans, NEW j \in ScanJob, RowStep(s, j)
  PROVE  [Lifecycle!Next]_(Lifecycle!life)
<1> DEFINE st == [q \in Scans |-> row[q].status]
           ow == [q \in Scans |-> row[q].owner]
<1>1. /\ [q \in Scans |-> row[q].status]' = [st EXCEPT ![s] = j.status]
      /\ [q \in Scans |-> row[q].owner]' = [ow EXCEPT ![s] = j.owner]
      /\ trail' = [trail EXCEPT ![s] = TrailOf(j)]
  BY DEF RowStep, IInv, TypeOK, RecordsTypeOK
<1>2. st[s] = row[s].status /\ ow[s] = row[s].owner
  OBVIOUS
<1>3. row[s] \in ScanJob /\ RowShape(row[s]) /\ trail[s] = TrailOf(row[s])
  BY DEF IInv, TypeOK, RecordsTypeOK, RowsOK, RowOK
<1>4. Moves(row[s], j) /\ RowShape(j)
  BY DEF RowStep
<1> HIDE DEF st, ow
<1>5. CASE row[s].status = "NONE" /\ j.status = "QUEUED"
  <2>1. Lifecycle!UnderWay(j.owner) = ActiveScansOf(j.owner)
    BY DEF Lifecycle!UnderWay, ActiveScansOf, ActiveScans, ActiveStatus
  <2>2. j.owner \in Owners /\ Cardinality(ActiveScansOf(j.owner)) < MaxActiveScansPerOwner
    BY <1>5 DEF RowStep, Enters
  <2>3. Lifecycle!Enter(s, j.owner, "QUEUED")
    BY <1>1, <1>2, <1>5 DEF Lifecycle!Enter, st, ow
  <2>4. trail' = [trail EXCEPT ![s] = <<"SCAN_REQUESTED">>]
    BY <1>1, <1>5, TrailCases
  <2>5. Lifecycle!Cardinality(ActiveScansOf(j.owner)) = Cardinality(ActiveScansOf(j.owner))
    BY DEF Lifecycle!Cardinality, Cardinality
  <2>6. Lifecycle!Request(s, j.owner)
    BY <2>1, <2>2, <2>3, <2>4, <2>5 DEF Lifecycle!Request
  <2> QED
    BY <2>2, <2>6 DEF Lifecycle!Next
<1>6. CASE row[s].status = "NONE" /\ j.status = "BLOCKED"
  <2>1. j.owner \in Owners
    BY <1>6 DEF RowStep, Enters
  <2>2. Lifecycle!Deny(s, j.owner)
    BY <1>1, <1>2, <1>6, TrailCases DEF Lifecycle!Deny, Lifecycle!Enter, st, ow
  <2> QED
    BY <2>1, <2>2 DEF Lifecycle!Next
<1>7. ASSUME row[s].status # "NONE"
      PROVE  [q \in Scans |-> row[q].owner]' = [q \in Scans |-> row[q].owner]
  BY <1>1, <1>2, <1>7 DEF RowStep, ow
<1>8. CASE row[s].status = "QUEUED" /\ j.status = "QUEUED"
  <2>1. trail' = trail
    BY <1>1, <1>3, <1>8, TrailCases DEF IInv, TypeOK, RecordsTypeOK
  <2>2. [q \in Scans |-> row[q].status]' = [q \in Scans |-> row[q].status]
    BY <1>1, <1>2, <1>8 DEF st
  <2> QED
    BY <1>7, <1>8, <2>1, <2>2 DEF Lifecycle!life
<1>9. ASSUME NEW from, row[s].status \in from, NEW to, j.status = to, NEW event,
             TrailOf(j) = Append(trail[s], event), row[s].status # "NONE"
      PROVE  Lifecycle!Move(s, from, to, event)
  BY <1>1, <1>2, <1>7, <1>9 DEF Lifecycle!Move, st
<1>10. CASE row[s].status = "QUEUED" /\ j.status # "QUEUED"
  <2>1. trail[s] = <<"SCAN_REQUESTED">>
    BY <1>3, <1>10, TrailCases
  <2>2. CASE j.status = "FAILED"
    <3>1. j.started = (j.scanner # NoId)
      BY <1>4, <2>2 DEF RowShape, NoRow
    <3>2. j.scanner = row[s].scanner /\ row[s].scanner = NoId
      BY <1>3, <1>4, <1>10, <2>2 DEF Moves, RowShape, NoRow
    <3>3. TrailOf(j) = Append(trail[s], "SCAN_FAILED")
      BY <2>1, <2>2, <3>1, <3>2, TrailCases, AppendToOne
    <3> QED
      BY <1>9, <1>10, <2>2, <3>3 DEF Lifecycle!Next, Lifecycle!Fail
  <2>3. CASE j.status = "RUNNING"
    <3>1. TrailOf(j) = Append(trail[s], "SCAN_STARTED")
      BY <2>1, <2>3, TrailCases, AppendToOne
    <3> QED
      BY <1>9, <1>10, <2>3, <3>1 DEF Lifecycle!Next, Lifecycle!Start
  <2>4. CASE j.status = "BLOCKED"
    <3>1. TrailOf(j) = Append(trail[s], "SCAN_BLOCKED")
      BY <2>1, <2>4, TrailCases, AppendToOne
    <3> QED
      BY <1>9, <1>10, <2>4, <3>1 DEF Lifecycle!Next, Lifecycle!Block
  <2> QED
    BY <1>4, <1>10, <2>2, <2>3, <2>4 DEF Moves
<1>11. CASE row[s].status = "RUNNING"
  <2>1. trail[s] = <<"SCAN_REQUESTED", "SCAN_STARTED">>
    BY <1>3, <1>11, TrailCases
  <2>2. CASE j.status = "FAILED"
    <3>1. j.started = (j.scanner # NoId)
      BY <1>4, <2>2 DEF RowShape, NoRow
    <3>2. j.scanner = row[s].scanner /\ row[s].scanner \in Ids
      BY <1>3, <1>4, <1>11, <2>2 DEF Moves, RowShape, NoRow
    <3>3. TrailOf(j) = Append(trail[s], "SCAN_FAILED")
      BY <2>1, <2>2, <3>1, <3>2, TrailCases, AppendToTwo, RecordsAssumption
      DEF RecordsAssumption
    <3> QED
      BY <1>9, <1>11, <2>2, <3>3 DEF Lifecycle!Next, Lifecycle!Fail
  <2>3. CASE j.status = "COMPLETED"
    <3>1. TrailOf(j) = Append(trail[s], "SCAN_COMPLETED")
      BY <2>1, <2>3, TrailCases, AppendToTwo
    <3> QED
      BY <1>9, <1>11, <2>3, <3>1 DEF Lifecycle!Next, Lifecycle!Complete
  <2> QED
    BY <1>4, <1>11, <2>2, <2>3 DEF Moves
<1> QED
  BY <1>4, <1>5, <1>6, <1>8, <1>10, <1>11 DEF Moves

(* The pipeline implements the life that ScanLifecycle promises of a scan. *)
THEOREM PipelineImplementsLifecycle == Spec => ImplementsLifecycle
<1>1. Init => Lifecycle!Init
  BY DEF Init, RecordsInit, NoRow, Lifecycle!Init
<1>2. ASSUME IInv, UNCHANGED <<row, trail>> PROVE UNCHANGED Lifecycle!life
  BY <1>2 DEF Lifecycle!life
<1>3. IInv /\ [Next]_vars => [Lifecycle!Next]_(Lifecycle!life)
  BY <1>2, NextIInv, LifecycleStep DEF RecordsStep
<1> QED
  BY <1>1, <1>3, Invariance, PTL DEF Spec, ImplementsLifecycle, Lifecycle!Spec

-----------------------------------------------------------------------------
(* The engine within the pipeline                                          *)

(* JobStore's theorems, of the engine's store as the pipeline uses it.     *)
Store == INSTANCE JobStoreProofs WITH
           Keys <- Scans, Requests <- Scans, NoKey <- NoScan, NoRequest <- NoScan,
           Clock <- Nat

LEMMA StoreAssumed == Store!StoreAssumption
<1>1. \A S : Store!IsFiniteSet(S) <=> IsFiniteSet(S)
  BY DEF Store!IsFiniteSet, IsFiniteSet
<1> QED
  BY <1>1, RecordsAssumption, DispatchAssumption
  DEF Store!StoreAssumption, RecordsAssumption, DispatchAssumption

(* The two instances of JobStore, one with its theorems, are the same:     *)
(* what a running scan does,                                               *)
LEMMA SameFinishes ==
  /\ \A i : Go!markRunning(i) <=> Store!markRunning(i)
  /\ \A i, now : Go!markCompleted(i, now) <=> Store!markCompleted(i, now)
  /\ \A i, now : Go!markFailed(i, now) <=> Store!markFailed(i, now)
<1>1. \A S : Go!Cardinality(S) = Store!Cardinality(S)
  BY DEF Go!Cardinality, Store!Cardinality
<1>2. \A m : Go!Expired(m) = Store!Expired(m)
  BY <1>1 DEF Go!Expired, Store!Expired, Go!TerminalIn, Store!TerminalIn,
              Go!Before, Store!Before, Go!TerminalStatus, Store!TerminalStatus
<1>3. \A i, status, now : Go!update(i, status, now) <=> Store!update(i, status, now)
  <2>1. Go!NoJob = Store!NoJob /\ Go!Present = Store!Present
    BY DEF Go!NoJob, Store!NoJob, Go!Present, Store!Present
  <2>2. ASSUME NEW m
        PROVE  Go!enforceRetentionLocked(m) <=> Store!enforceRetentionLocked(m)
    <3>1. Go!Expired(m) = Store!Expired(m)
      BY <1>2
    <3> QED
      BY <2>1, <3>1 DEF Go!enforceRetentionLocked, Store!enforceRetentionLocked
  <2> QED
    BY <2>1, <2>2 DEF Go!update, Store!update
<1> QED
  BY <1>3 DEF Go!markRunning, Store!markRunning, Go!markCompleted, Store!markCompleted,
              Go!markFailed, Store!markFailed

(* and whatever else happens to the store.                                 *)
LEMMA SameActions ==
  /\ Go!Init <=> Store!Init
  /\ Go!Next <=> Store!Next
  /\ Go!store = Store!store
<1>1. \A S : Go!Cardinality(S) = Store!Cardinality(S)
  BY DEF Go!Cardinality, Store!Cardinality
<1>2. Go!Init <=> Store!Init
  BY DEF Go!Init, Store!Init, Go!NoJob, Store!NoJob
<1>3. Go!store = Store!store
  BY DEF Go!store, Store!store
<1>4. /\ \A k : Go!Retained(k) <=> Store!Retained(k)
      /\ \A k : Go!WithoutDangling(k) = Store!WithoutDangling(k)
      /\ \A r : Go!newScanJob(r) = Store!newScanJob(r)
      /\ Go!Unused = Store!Unused
      /\ Go!Active = Store!Active
  BY DEF Go!Retained, Store!Retained, Go!Present, Store!Present, Go!Active, Store!Active,
         Go!ActiveStatus, Store!ActiveStatus, Go!WithoutDangling, Store!WithoutDangling,
         Go!newScanJob, Store!newScanJob, Go!Unused, Store!Unused
<1>5. \A k \in Scans \cup {NoScan} : Go!admitRefused(k) <=> Store!admitRefused(k)
  BY <1>1, <1>4 DEF Go!admitRefused, Store!admitRefused
<1>6. /\ \A k, r \in Scans : Go!admitReplay(k, r) <=> Store!admitReplay(k, r)
      /\ \A k, r \in Scans : Go!admitConflict(k, r) <=> Store!admitConflict(k, r)
  BY <1>4 DEF Go!admitReplay, Store!admitReplay, Go!admitConflict, Store!admitConflict,
              Go!store, Store!store
<1>7. \A i \in Ids, k \in Scans \cup {NoScan}, r \in Scans :
        Go!admitNew(i, k, r) <=> Store!admitNew(i, k, r)
  BY <1>1, <1>4 DEF Go!admitNew, Store!admitNew
<1>8. /\ \A i : Go!markRunning(i) <=> Store!markRunning(i)
      /\ \A i, now : Go!markCompleted(i, now) <=> Store!markCompleted(i, now)
      /\ \A i, now : Go!markFailed(i, now) <=> Store!markFailed(i, now)
  BY SameFinishes
<1>9. Go!restart <=> Store!restart
  BY DEF Go!restart, Store!restart, Go!NoJob, Store!NoJob
<1> QED
  BY <1>2, <1>3, <1>5, <1>6, <1>7, <1>8, <1>9 DEF Go!Next, Store!Next

(* Every step of the pipeline treats the engine as one of its exchanges.   *)
LEMMA NextEngineStep == IInv /\ [Next]_vars => EngineStep
<1> SUFFICES ASSUME IInv, [Next]_vars
             PROVE  EngineStep
  OBVIOUS
<1>1. CASE UNCHANGED vars
  BY <1>1 DEF vars, engine, EngineStep
<1>2. ASSUME NEW h \in Strands, NEW o \in Owners, ReceiveCreate(h, o)
      PROVE  EngineStep
  BY <1>2 DEF ReceiveCreate, EngineStep
<1>3. ASSUME NEW h \in Strands, NEW s \in Scans, Poll(h, s)
      PROVE  EngineStep
  BY <1>3 DEF Poll, EngineStep
<1>4. ASSUME NEW h \in Strands, StrandStep(h)
      PROVE  EngineStep
  <2>1. CASE Post(h)
    <3>1. Scan(h) \in Scans
      BY <2>1, AtStep DEF Post, At, Dispatching
    <3> QED
      BY <2>1, <3>1 DEF Post, EngineStep
  <2>2. CASE ~Post(h)
    <3>1. UNCHANGED engine
      BY <1>4, <2>2
      DEF StrandStep, InsertQueued, InsertBlocked, Claim, Authorize, Attach,
          MarkDispatched, MarkUndispatched, Reload, Get, Fail, Complete
    <3> QED
      BY <3>1 DEF EngineStep
  <2> QED
    BY <2>1, <2>2
<1>5. CASE ReconcilerLoads \/ ReconcilerPolls
  BY <1>5 DEF ReconcilerLoads, ReconcilerPolls, EngineStep
<1>6. ASSUME NEW i \in Ids, RunScan(i)
      PROVE  EngineStep
  BY <1>6 DEF RunScan, EngineStep
<1>7. ASSUME NEW s \in Scans, HandleOrphan(s)
      PROVE  EngineStep
  BY <1>7 DEF HandleOrphan, EngineStep
<1>8. ASSUME NEW s \in Scans, AbandonedLeaseExpires(s)
      PROVE  EngineStep
  BY <1>8 DEF AbandonedLeaseExpires, EngineStep
<1>9. ASSUME NEW r \in Rules, Administrate(r)
      PROVE  EngineStep
  BY <1>9 DEF Administrate, EngineStep
<1>10. CASE Failure
  <2>1. UNCHANGED engine \/ Go!restart
    BY <1>10
    DEF Failure, LeaseOverrun, PostUnanswered, AnswerLost, StatusUnreadable, GiveUp,
        ApiCrash, ScannerRestart
  <2> QED
    BY <2>1 DEF EngineStep
<1> QED
  BY <1>1, <1>2, <1>3, <1>4, <1>5, <1>6, <1>7, <1>8, <1>9, <1>10 DEF Next

(* Each exchange is one call of the store's interface, or none.            *)
LEMMA EngineStepIsACall == EngineStep => [Go!Next]_(Go!store)
<1> SUFFICES ASSUME EngineStep
             PROVE  [Go!Next]_(Go!store)
  OBVIOUS
<1>1. CASE UNCHANGED engine
  BY <1>1 DEF engine, Go!store
<1>2. ASSUME NEW s \in Scans, NEW id \in Ids, ScannerAccepts(s, id)
      PROVE  Go!Next
  BY <1>2 DEF ScannerAccepts, Go!Next
<1>3. ASSUME NEW s \in Scans, Go!admitRefused(s)
      PROVE  Go!Next
  BY <1>3 DEF Go!Next
<1>4. ASSUME NEW i \in Ids,
             Go!markRunning(i) \/ Go!markCompleted(i, Now) \/ Go!markFailed(i, Now)
      PROVE  Go!Next
  BY <1>4, NowType DEF Go!Next
<1>5. CASE Go!restart
  BY <1>5 DEF Go!Next
<1> QED
  BY <1>1, <1>2, <1>3, <1>4, <1>5 DEF EngineStep

(* Whatever the API's strands, their orphaned requests, crashes and restarts *)
(* do, the engine sees a sequence of calls of its store's interface.       *)
THEOREM PipelineImplementsJobStore == Spec => Go!Spec
<1>1. Init => Go!Init
  BY DEF Init
<1>2. IInv /\ [Next]_vars => [Go!Next]_(Go!store)
  BY NextEngineStep, EngineStepIsACall
<1> QED
  BY <1>1, <1>2, Invariance, PTL DEF Spec, Go!Spec

(* A step of the store, as EvictOldestFinished allows it.                  *)
Evicts ==
  \/ \A i \in Ids : jobs'[i] = Go!NoJob
  \/ Go!Gone = {}
  \/ /\ Go!Cardinality(Go!Terminal') = MaxRetained
     /\ \A g \in Go!Gone : history'[g].end \in Go!TerminalStatus
     /\ \E i \in Ids, now \in Nat : Go!Finishes(i, now)
     /\ \A i \in Ids, now \in Nat : Go!Finishes(i, now) => Go!OldestGo(i, now)

(* So what JobStoreProofs shows of the store holds of the engine at work in *)
(* the pipeline: it never runs more scans than maxActive, keeps no more    *)
(* finished jobs than maxRetained and evicts only the oldest, and a scan's *)
(* key leads to the job that was admitted for it and to no other.          *)
THEOREM EngineKeepsItsPromises ==
  Spec => [](Go!ActiveLimit /\ Go!RetentionLimit /\ Go!KeysAgree) /\ Go!EvictOldestFinished
<1>1. Go!Spec <=> Store!Spec
  <2>1. [Go!Next]_(Go!store) <=> [Store!Next]_(Store!store)
    BY SameActions DEF Go!store, Store!store
  <2> QED
    BY <2>1, SameActions, PTL DEF Go!Spec, Store!Spec
<1>2. \A S : Go!Cardinality(S) = Store!Cardinality(S)
  BY DEF Go!Cardinality, Store!Cardinality
<1>3. Go!ActiveLimit <=> Store!ActiveLimit
  BY <1>2 DEF Go!ActiveLimit, Store!ActiveLimit, Go!Active, Store!Active,
              Go!ActiveStatus, Store!ActiveStatus
<1>4. Go!RetentionLimit <=> Store!RetentionLimit
  BY <1>2 DEF Go!RetentionLimit, Store!RetentionLimit, Go!Terminal, Store!Terminal,
              Go!TerminalStatus, Store!TerminalStatus
<1>5. Go!KeysAgree <=> Store!KeysAgree
  BY DEF Go!KeysAgree, Store!KeysAgree, Go!Present, Store!Present
<1>6. Store!EvictOldestFinished <=> Go!EvictOldestFinished
  <2>1. Store!NoJob = Go!NoJob
    BY DEF Store!NoJob, Go!NoJob
  <2>2. Store!Gone = Go!Gone
    BY DEF Store!Gone, Go!Gone, Store!Present, Go!Present
  <2>3. Store!Terminal' = Go!Terminal'
    BY DEF Store!Terminal, Go!Terminal, Store!TerminalStatus, Go!TerminalStatus
  <2>4. Store!Cardinality(Store!Terminal') = Go!Cardinality(Go!Terminal')
    BY <2>3 DEF Store!Cardinality, Go!Cardinality
  <2>5. ASSUME NEW i \in Ids, NEW now \in Nat
        PROVE  /\ Store!Finishes(i, now) <=> Go!Finishes(i, now)
               /\ Store!OldestGo(i, now) <=> Go!OldestGo(i, now)
    <3>1. Store!Finishes(i, now) <=> Go!Finishes(i, now)
      BY SameFinishes DEF Store!Finishes, Go!Finishes
    <3>2. Store!OldestGo(i, now) <=> Go!OldestGo(i, now)
      BY <2>2, <2>3 DEF Store!OldestGo, Go!OldestGo
    <3> QED
      BY <3>1, <3>2
  <2>6. [Store!Evicts]_(Store!store) <=> [Evicts]_(Go!store)
    BY <2>1, <2>2, <2>3, <2>4, <2>5
    DEF Store!Evicts, Evicts, Store!store, Go!store, Store!TerminalStatus, Go!TerminalStatus
  <2>7. Store!EvictOldestFinished <=> [][Store!Evicts]_(Store!store)
    BY DEF Store!EvictOldestFinished, Store!Evicts
  <2>8. Go!EvictOldestFinished <=> [][Evicts]_(Go!store)
    BY DEF Go!EvictOldestFinished, Evicts
  <2> QED
    BY <2>6, <2>7, <2>8, PTL
<1>7. Spec => Store!Spec
  BY <1>1, PipelineImplementsJobStore
<1>8. Store!Spec => []Store!ActiveLimit
  BY StoreAssumed, Store!ActiveJobsLimited
<1>9. Store!Spec => []Store!RetentionLimit
  BY StoreAssumed, Store!FinishedJobsLimited
<1>10. Store!Spec => []Store!KeysAgree
  BY StoreAssumed, Store!KeysAlwaysAgree
<1>11. Store!Spec => Store!EvictOldestFinished
  BY StoreAssumed, Store!OldestAreEvicted
<1> QED
  BY <1>3, <1>4, <1>5, <1>6, <1>7, <1>8, <1>9, <1>10, <1>11, PTL
=============================================================================
