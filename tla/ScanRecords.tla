---------------------------- MODULE ScanRecords ----------------------------
(***************************************************************************)
(* The PostgreSQL rows of the scan lifecycle, as the statements and        *)
(* transactions of ballerina-api/persistence.bal read and write them: the  *)
(* scan_jobs row of every scan, the audit_logs events of every scan, and   *)
(* the allowed_targets rules. A function of persistence.bal is one action: *)
(* it runs one statement or one committed transaction, and its outcome is  *)
(* a parameter, as it is the result there.                                 *)
(*                                                                         *)
(* Scans are numbered in the order of created_at, rules in the order in    *)
(* which the authorization query prefers them (ORDER BY scope, masklen).   *)
(***************************************************************************)
EXTENDS Integers, FiniteSets, Sequences

CONSTANTS
  Scans,       \* numbers of scan_jobs rows, in the order of their creation
  Owners, Rules,
  Strands,     \* Ballerina strands; a lease token is named after the one that made it
  Ids,         \* ids the scanner engine gives its jobs
  NoOwner, NoRule, NoStrand, NoId,
  MaxActiveScansPerOwner

ASSUME RecordsAssumption ==
  /\ Scans \subseteq Int /\ IsFiniteSet(Scans) /\ Rules \subseteq Int
  /\ NoOwner \notin Owners /\ NoRule \notin Rules
  /\ NoStrand \notin Strands /\ NoId \notin Ids
  /\ MaxActiveScansPerOwner \in Nat \ {0}

VARIABLES
  row,    \* scan_jobs, "NONE" before its INSERT
  trail,  \* the actions of a scan's audit_logs events, oldest first
  rules   \* allowed_targets: absent, enabled, disabled (or expired)

records == <<row, trail, rules>>

Outcomes == {"APPLIED", "UNCHANGED"}

FailureCodes ==
  {"BLOCKED_TARGET", "INVALID_TARGET", "INVALID_PORT_RANGE", "INTERNAL_ERROR",
   "SCAN_NOT_FOUND", "SCANNER_FAILED"}
NoCode == "NULL"

Events == {"SCAN_REQUESTED", "SCAN_BLOCKED", "SCAN_STARTED", "SCAN_COMPLETED",
           "SCAN_FAILED"}

(* started, finished and result stand for started_at, finished_at and      *)
(* duration_nanos (with its scan_results rows) being set; expired for      *)
(* dispatch_lease_expires_at <= CURRENT_TIMESTAMP.                         *)
ScanJob ==
  [status: {"NONE", "QUEUED", "RUNNING", "COMPLETED", "FAILED", "BLOCKED"},
   owner: Owners \cup {NoOwner}, scanner: Ids \cup {NoId},
   rule: Rules \cup {NoRule}, failure: FailureCodes \cup {NoCode},
   lease: Strands \cup {NoStrand}, expired: BOOLEAN,
   started: BOOLEAN, finished: BOOLEAN, result: BOOLEAN]

NoRow ==
  [status |-> "NONE", owner |-> NoOwner, scanner |-> NoId, rule |-> NoRule,
   failure |-> NoCode, lease |-> NoStrand, expired |-> FALSE,
   started |-> FALSE, finished |-> FALSE, result |-> FALSE]

RecordsTypeOK ==
  /\ row \in [Scans -> ScanJob]
  /\ trail \in [Scans -> Seq(Events)]
  /\ rules \in [Rules -> {"absent", "enabled", "disabled"}]

RecordsInit ==
  /\ row = [s \in Scans |-> NoRow]
  /\ trail = [s \in Scans |-> <<>>]
  /\ rules = [r \in Rules |-> "absent"]

ActiveStatus == {"QUEUED", "RUNNING"}
ActiveScans  == {s \in Scans : row[s].status \in ActiveStatus}
ActiveScansOf(o) == {s \in ActiveScans : row[s].owner = o}

(* The id of the next INSERT: a fresh UUID, younger than every other row.  *)
NextScan(s) ==
  /\ row[s].status = "NONE"
  /\ \A t \in Scans : t < s => row[t].status # "NONE"

(* insertAuditEvent: the event joins the transaction that calls it. *)
insertAuditEvent(s, event) == trail' = [trail EXCEPT ![s] = Append(@, event)]

-----------------------------------------------------------------------------
(* Admission                                                               *)

insertQueuedScanOverLimit(s, o, r, outcome) == \* mutant
  /\ outcome = "CREATED"
  /\ NextScan(s)
  /\ Cardinality(ActiveScansOf(o)) <= MaxActiveScansPerOwner
  /\ row' = [row EXCEPT ![s] =
               [NoRow EXCEPT !.status = "QUEUED", !.owner = o, !.rule = r]]
  /\ insertAuditEvent(s, "SCAN_REQUESTED")
  /\ UNCHANGED rules

(* The advisory lock of the owner is held from the count to the commit. *)
insertQueuedScan(s, o, r, outcome) ==
  \/ /\ outcome = "CREATED"
     /\ NextScan(s)
     /\ Cardinality(ActiveScansOf(o)) < MaxActiveScansPerOwner
     /\ row' = [row EXCEPT ![s] =
                  [NoRow EXCEPT !.status = "QUEUED", !.owner = o, !.rule = r]]
     /\ insertAuditEvent(s, "SCAN_REQUESTED")
     /\ UNCHANGED rules
  \/ /\ outcome = "LIMIT_REACHED"
     /\ Cardinality(ActiveScansOf(o)) >= MaxActiveScansPerOwner
     /\ UNCHANGED records

(* A denied request is stored as a scan that ended BLOCKED. *)
insertBlockedScan(s, o, r) ==
  /\ NextScan(s)
  /\ row' = [row EXCEPT ![s] =
               [NoRow EXCEPT !.status = "BLOCKED", !.owner = o, !.rule = r,
                             !.failure = "BLOCKED_TARGET", !.finished = TRUE]]
  /\ trail' = [trail EXCEPT ![s] = @ \o <<"SCAN_REQUESTED", "SCAN_BLOCKED">>]
  /\ UNCHANGED rules

-----------------------------------------------------------------------------
(* Dispatch under a lease                                                  *)

ClaimableAlways(s) == row[s].status = "QUEUED" /\ row[s].scanner = NoId \* mutant

ClaimableOnce(s) == \* mutant
  row[s].status = "QUEUED" /\ row[s].scanner = NoId /\ row[s].lease = NoStrand

Claimable(s) ==
  /\ row[s].status = "QUEUED" /\ row[s].scanner = NoId
  /\ row[s].lease = NoStrand \/ row[s].expired

claimScanDispatch(s, token, outcome) ==
  \/ /\ outcome = "APPLIED"
     /\ Claimable(s)
     /\ row' = [row EXCEPT ![s].lease = token, ![s].expired = FALSE]
     /\ UNCHANGED <<trail, rules>>
  \/ /\ outcome = "UNCHANGED"
     /\ ~Claimable(s)
     /\ UNCHANGED records

LeasedByAnyone(s, token) == row[s].status \in ActiveStatus \* mutant

(* The WHERE clause of a dispatcher: queued, and the lease is still mine. *)
Leased(s, token) == row[s].status = "QUEUED" /\ row[s].lease = token

(* Only the rule selected before is looked at again, not its alternatives. *)
attachAllowedTargetToDispatch(s, r, token, outcome) ==
  \/ /\ outcome = "APPLIED"
     /\ Leased(s, token) /\ rules[r] = "enabled"
     /\ row' = [row EXCEPT ![s].rule = r]
     /\ UNCHANGED <<trail, rules>>
  \/ /\ outcome = "UNCHANGED"
     /\ ~(Leased(s, token) /\ rules[r] = "enabled")
     /\ UNCHANGED records

markScanDispatchedKeepsLease(s, id, token, outcome) == \* mutant
  \/ /\ outcome = "APPLIED"
     /\ Leased(s, token)
     /\ row' = [row EXCEPT ![s].scanner = id, ![s].status = "RUNNING",
                           ![s].started = TRUE]
     /\ insertAuditEvent(s, "SCAN_STARTED")
     /\ UNCHANGED rules
  \/ /\ outcome = "UNCHANGED"
     /\ ~Leased(s, token)
     /\ UNCHANGED records

markScanDispatched(s, id, token, outcome) ==
  \/ /\ outcome = "APPLIED"
     /\ Leased(s, token)
     /\ row' = [row EXCEPT ![s].scanner = id, ![s].status = "RUNNING",
                           ![s].started = TRUE,
                           ![s].lease = NoStrand, ![s].expired = FALSE]
     /\ insertAuditEvent(s, "SCAN_STARTED")
     /\ UNCHANGED rules
  \/ /\ outcome = "UNCHANGED"
     /\ ~Leased(s, token)
     /\ UNCHANGED records

markScanDispatchFailedTwice(s, code, blocked, token, outcome) == \* mutant
  /\ outcome = "APPLIED"
  /\ row[s].status \in ActiveStatus
  /\ row' = [row EXCEPT ![s].status = IF blocked THEN "BLOCKED" ELSE "FAILED",
                        ![s].failure = code, ![s].finished = TRUE,
                        ![s].lease = NoStrand, ![s].expired = FALSE]
  /\ insertAuditEvent(s, IF blocked THEN "SCAN_BLOCKED" ELSE "SCAN_FAILED")
  /\ UNCHANGED rules

markScanDispatchFailed(s, code, blocked, token, outcome) ==
  \/ /\ outcome = "APPLIED"
     /\ Leased(s, token)
     /\ row' = [row EXCEPT ![s].status = IF blocked THEN "BLOCKED" ELSE "FAILED",
                           ![s].failure = code, ![s].finished = TRUE,
                           ![s].lease = NoStrand, ![s].expired = FALSE]
     /\ insertAuditEvent(s, IF blocked THEN "SCAN_BLOCKED" ELSE "SCAN_FAILED")
     /\ UNCHANGED rules
  \/ /\ outcome = "UNCHANGED"
     /\ ~Leased(s, token)
     /\ UNCHANGED records

(* dispatchLeaseSeconds have passed since the claim. *)
LeaseExpires(s) ==
  /\ row[s].lease # NoStrand /\ ~row[s].expired
  /\ row' = [row EXCEPT ![s].expired = TRUE]
  /\ UNCHANGED <<trail, rules>>

-----------------------------------------------------------------------------
(* Synchronization with the scanner's answer                               *)

markScanSynchronizationFailedLate(s, code) == \* mutant
  /\ row' = [row EXCEPT ![s].status = "FAILED", ![s].failure = code,
                        ![s].finished = TRUE]
  /\ insertAuditEvent(s, "SCAN_FAILED")
  /\ UNCHANGED rules

markScanSynchronizationFailed(s, code) ==
  \/ /\ s \in ActiveScans
     /\ row' = [row EXCEPT ![s].status = "FAILED", ![s].failure = code,
                           ![s].finished = TRUE]
     /\ insertAuditEvent(s, "SCAN_FAILED")
     /\ UNCHANGED rules
  \/ /\ s \notin ActiveScans
     /\ UNCHANGED records

CompleteScanJobAuditedTwice(s) == \* mutant
  /\ row' = IF s \in ActiveScans
            THEN [row EXCEPT ![s].status = "COMPLETED", ![s].result = TRUE,
                             ![s].finished = TRUE]
            ELSE row
  /\ insertAuditEvent(s, "SCAN_COMPLETED")
  /\ UNCHANGED rules

(* synchronizeScanJob for a completed scanner job: the row is locked, the  *)
(* results are stored and the row is completed in one transaction.         *)
CompleteScanJob(s) ==
  \/ /\ s \in ActiveScans
     /\ row' = [row EXCEPT ![s].status = "COMPLETED", ![s].result = TRUE,
                           ![s].finished = TRUE]
     /\ insertAuditEvent(s, "SCAN_COMPLETED")
     /\ UNCHANGED rules
  \/ /\ s \notin ActiveScans
     /\ UNCHANGED records

-----------------------------------------------------------------------------
(* Rules                                                                   *)

insertAllowedTarget(r) ==
  /\ rules[r] = "absent"
  /\ rules' = [rules EXCEPT ![r] = "enabled"]
  /\ UNCHANGED <<row, trail>>

(* Disabled by an administrator; expires_at passing has the same effect. *)
disableAllowedTarget(r) ==
  /\ rules[r] = "enabled"
  /\ rules' = [rules EXCEPT ![r] = "disabled"]
  /\ UNCHANGED <<row, trail>>

(* The rule a request is authorized under: the preferred one of those      *)
(* enabled, NoRule when there is none.                                     *)
SelectedRule ==
  LET enabled == {r \in Rules : rules[r] = "enabled"}
  IN  IF enabled = {} THEN NoRule
      ELSE CHOOSE r \in enabled : \A q \in enabled : r <= q

-----------------------------------------------------------------------------
(* Properties                                                              *)

(* No statement of the lifecycle is ever rejected by a constraint: the     *)
(* CHECKs of scan_jobs (V001, V003, V006), the UNIQUE scanner id and the   *)
(* one-event-per-action index of audit_logs (V004) hold of every row.      *)
FailureCheck(j) == (j.status \in {"FAILED", "BLOCKED"}) <=> (j.failure # NoCode)
TimelineCheck(j) ==
  CASE j.status = "QUEUED"    -> ~j.started /\ ~j.finished
    [] j.status = "RUNNING"   -> j.started /\ ~j.finished
    [] j.status = "COMPLETED" -> j.started /\ j.finished
    [] j.status = "FAILED"    -> j.finished
    [] j.status = "BLOCKED"   -> ~j.started /\ j.finished
ScannerIdCheck(j) == j.status \in {"RUNNING", "COMPLETED"} => j.scanner # NoId
BlockedCheck(j) == j.status = "BLOCKED" => j.scanner = NoId
DurationCheck(j) == (j.status = "COMPLETED") <=> j.result
DispatchLeaseCheck(j) ==
  j.lease = NoStrand \/ (j.status = "QUEUED" /\ j.scanner = NoId)

SchemaConstraints ==
  /\ \A s \in Scans : row[s].status # "NONE" =>
       /\ FailureCheck(row[s]) /\ TimelineCheck(row[s]) /\ ScannerIdCheck(row[s])
       /\ BlockedCheck(row[s]) /\ DurationCheck(row[s]) /\ DispatchLeaseCheck(row[s])
  /\ \A s, t \in Scans : row[s].scanner = row[t].scanner => s = t \/ row[s].scanner = NoId
  /\ \A s \in Scans : \A m, n \in DOMAIN trail[s] : trail[s][m] = trail[s][n] => m = n

(* The audit trail of a scan tells exactly what its row went through,      *)
(* whichever dispatchers and pollers raced to write it.                    *)
TrailOf(j) ==
  CASE j.status = "NONE"      -> <<>>
    [] j.status = "QUEUED"    -> <<"SCAN_REQUESTED">>
    [] j.status = "RUNNING"   -> <<"SCAN_REQUESTED", "SCAN_STARTED">>
    [] j.status = "COMPLETED" -> <<"SCAN_REQUESTED", "SCAN_STARTED", "SCAN_COMPLETED">>
    [] j.status = "BLOCKED"   -> <<"SCAN_REQUESTED", "SCAN_BLOCKED">>
    [] j.status = "FAILED" /\ j.started  -> <<"SCAN_REQUESTED", "SCAN_STARTED", "SCAN_FAILED">>
    [] j.status = "FAILED" /\ ~j.started -> <<"SCAN_REQUESTED", "SCAN_FAILED">>

AuditTrailTellsTheRow == \A s \in Scans : trail[s] = TrailOf(row[s])

(* An owner never has more queued and running scans than the limit,        *)
(* however many requests arrive together.                                  *)
OneActivePerOwner ==
  \A o \in Owners : Cardinality(ActiveScansOf(o)) <= MaxActiveScansPerOwner

(* A scan that ended keeps its status, code and results: no late           *)
(* dispatcher, poller or reconciler rewrites it.                           *)
EndedForGood ==
  [][\A s \in Scans :
       row[s].status \in {"COMPLETED", "FAILED", "BLOCKED"} =>
         row'[s] = row[s] /\ trail'[s] = trail[s]]_records

(* Once correlated, a scan stays correlated with the same scanner job. *)
ScannerIdStable ==
  [][\A s \in Scans : row[s].scanner # NoId => row'[s].scanner = row[s].scanner]_records
=============================================================================
