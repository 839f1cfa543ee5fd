---------------------------- MODULE ScanDispatch ----------------------------
(***************************************************************************)
(* The asynchronous scan pipeline: the Ballerina API (service.bal), its    *)
(* PostgreSQL rows (ScanRecords) and the scanner engine's job store        *)
(* (JobStore), with everything that may run at the same time.              *)
(*                                                                         *)
(* A strand is one thread of control of the API: a create request and the  *)
(* background dispatch it starts, a status request, or the reconciler,     *)
(* which runs status requests for itself. A strand is a record whose "at"  *)
(* is the next step with an effect outside the strand: one database        *)
(* statement or transaction, or one exchange with the scanner engine.      *)
(* Between two such steps every other strand, the scanner engine, the      *)
(* administrators and the failures may act.                                *)
(***************************************************************************)
EXTENDS ScanRecords

CONSTANTS
  Reconciler,  \* the strand of reconcileActiveScansInBackground
  NoScan,
  PageSize,    \* active scans loaded by one round of the reconciler: 100
  MaxActive, MaxRetained,   \* the scanner engine's limits
  MaxFaults    \* bound on failures, crashes and dispatches outrunning their lease

ASSUME DispatchAssumption ==
  /\ Reconciler \in Strands
  /\ Ids \subseteq Int /\ IsFiniteSet(Ids) /\ IsFiniteSet(Strands)
  /\ NoScan \notin Scans
  /\ PageSize \in Nat \ {0} /\ MaxFaults \in Nat
  /\ MaxActive \in Nat \ {0} /\ MaxRetained \in Nat \ {0}

VARIABLES
  strand,              \* the strands of the API
  jobs, keys, history, \* the scanner engine's store (see JobStore)
  orphans,             \* POSTs still under way that no strand waits for
  faults               \* failures so far, of each kind

(* The public scan id is the idempotency key and stands for the request:   *)
(* every dispatch of a scan sends the same target and ports.               *)
Go == INSTANCE JobStore WITH
        Keys <- Scans, Requests <- Scans, NoKey <- NoScan, NoRequest <- NoScan,
        Clock <- Nat

engine == <<jobs, keys, history>>
vars == <<row, trail, rules, strand, jobs, keys, history, orphans, faults>>

Handlers == Strands \ {Reconciler}

(* Where a strand stands; the name of a step is its handler's call.        *)
Dispatching == {"claim", "authorize", "attach", "post", "dispatched", "undispatched"}
Polling     == {"reload", "get", "fail", "complete"}
Locations   == {"idle", "insert", "deny"} \cup Dispatching \cup Polling

Strand ==
  [at: Locations, scan: Scans \cup {NoScan}, owner: Owners \cup {NoOwner},
   then: {"return", "reload"}, \* what follows the dispatch
   rule: Rules \cup {NoRule}, scanner: Ids \cup {NoId},
   code: FailureCodes \cup {NoCode},
   page: Seq(Scans)]           \* scans the reconciler has still to look at

(* A dispatch outran its lease, the engine restarted, it restarted and cut *)
(* off the answer to a submission it had accepted; or anything else.       *)
FaultKind == {"overrun", "restart", "cut", "other"}

Idle(page) ==
  [at |-> "idle", scan |-> NoScan, owner |-> NoOwner, then |-> "return",
   rule |-> NoRule, scanner |-> NoId, code |-> NoCode, page |-> page]

TypeOK ==
  /\ RecordsTypeOK
  /\ Go!TypeOK
  /\ strand \in [Strands -> Strand]
  /\ orphans \in [Scans -> Nat]
  /\ faults \in [FaultKind -> 0..MaxFaults]

Init ==
  /\ RecordsInit
  /\ Go!Init
  /\ strand = [h \in Strands |-> Idle(<<>>)]
  /\ orphans = [s \in Scans |-> 0]
  /\ faults = [kind \in FaultKind |-> 0]

(* h continues as the strand record next. *)
Continue(h, next) == strand' = [strand EXCEPT ![h] = next]

(* The work of strand h, as it is and as it goes on at another step. *)
At(h, loc) == strand[h].at = loc
Scan(h) == strand[h].scan
Moved(h, loc) ==
  [Idle(strand[h].page) EXCEPT !.at = loc, !.scan = Scan(h), !.then = strand[h].then]
Finish(h) == Continue(h, Idle(strand[h].page))

(* dispatchQueuedScan returns: to nobody, or to getPersistedScanStatus. *)
Returned(h) ==
  IF strand[h].then = "reload" THEN Moved(h, "reload") ELSE Idle(strand[h].page)
Return(h) == Continue(h, Returned(h))

Faults == faults["overrun"] + faults["restart"] + faults["cut"] + faults["other"]
Fault(kind) == Faults < MaxFaults /\ faults' = [faults EXCEPT ![kind] = @ + 1]

-----------------------------------------------------------------------------
(* POST /api/v1/scans                                                      *)

(* authorizeScanTarget answers failure or a rule; an enabled rule may      *)
(* still fail, because the name does not resolve to safe addresses.        *)
Authorizes(r) == r # NoRule /\ r = SelectedRule
Denies(r) == r = SelectedRule

(* A bound: no request is accepted that would find no row left to insert.  *)
RowsLeft ==
  Cardinality({h \in Strands : strand[h].at \in {"insert", "deny"}})
    < Cardinality({s \in Scans : row[s].status = "NONE"})

ReceiveCreate(h, o) ==
  /\ h \in Handlers /\ At(h, "idle") /\ RowsLeft
  /\ \E r \in Rules \cup {NoRule} :
       \/ /\ Authorizes(r)
          /\ Continue(h, [Idle(<<>>) EXCEPT !.at = "insert", !.owner = o, !.rule = r])
       \/ /\ Denies(r)
          /\ Continue(h, [Idle(<<>>) EXCEPT !.at = "deny", !.owner = o, !.rule = r])
  /\ UNCHANGED <<row, trail, rules, engine, orphans, faults>>

(* The 202 is answered and a background strand, here the same, dispatches. *)
InsertQueued(h) ==
  /\ At(h, "insert")
  /\ \E s \in Scans :
       \/ /\ insertQueuedScan(s, strand[h].owner, strand[h].rule, "CREATED")
          /\ Continue(h, [Idle(<<>>) EXCEPT !.at = "claim", !.scan = s])
       \/ /\ insertQueuedScan(s, strand[h].owner, strand[h].rule, "LIMIT_REACHED")
          /\ Finish(h)
  /\ UNCHANGED <<engine, orphans, faults>>

InsertBlocked(h) ==
  /\ At(h, "deny")
  /\ \E s \in Scans : insertBlockedScan(s, strand[h].owner, strand[h].rule)
  /\ Finish(h)
  /\ UNCHANGED <<engine, orphans, faults>>

-----------------------------------------------------------------------------
(* dispatchQueuedScan                                                      *)

Claim(h) ==
  /\ At(h, "claim")
  /\ \/ /\ claimScanDispatch(Scan(h), h, "APPLIED")
        /\ Continue(h, Moved(h, "authorize"))
     \/ /\ claimScanDispatch(Scan(h), h, "UNCHANGED")
        /\ Return(h)
  /\ UNCHANGED <<engine, orphans, faults>>

(* The second authorization, under the lease. *)
Authorize(h) ==
  /\ At(h, "authorize")
  /\ \/ \E r \in Rules : /\ Authorizes(r)
                         /\ Continue(h, [Moved(h, "attach") EXCEPT !.rule = r])
     \/ Continue(h, [Moved(h, "undispatched") EXCEPT !.code = "BLOCKED_TARGET"])
  /\ UNCHANGED <<row, trail, rules, engine, orphans, faults>>

Attach(h) ==
  /\ At(h, "attach")
  /\ \/ /\ attachAllowedTargetToDispatch(Scan(h), strand[h].rule, h, "APPLIED")
        /\ Continue(h, Moved(h, "post"))
     \/ /\ attachAllowedTargetToDispatch(Scan(h), strand[h].rule, h, "UNCHANGED")
        /\ Continue(h, [Moved(h, "undispatched") EXCEPT !.code = "BLOCKED_TARGET"])
  /\ UNCHANGED <<engine, orphans, faults>>

(* The id newUUID returns: ids differ only in their order, which matters   *)
(* only between equal clock readings (JobStore covers those).              *)
FreshId == CHOOSE i \in Go!Unused : \A j \in Go!Unused : i <= j

(* createScanHandler admits, or finds, the job of scan s; id is answered. *)
ScannerAccepts(s, id) ==
  \/ Go!admitReplay(s, s) /\ id = keys[s]
  \/ Go!Unused # {} /\ id = FreshId /\ Go!admitNew(id, s, s)

(* createScannerJob, up to the point where the scanner engine has handled  *)
(* the request.  202: a job is admitted, or found, and until the strand    *)
(* stores its id ("dispatched") the answer may still be cut off.  429,     *)
(* which defers the dispatch.  400, because the name no longer resolves to *)
(* the pinned addresses or the two services' limits differ; or 500,        *)
(* without an id for the job.  The pins are checked before the store, so a *)
(* retry may be refused.                                                   *)
Post(h) ==
  /\ At(h, "post")
  /\ \/ \E id \in Ids : /\ ScannerAccepts(Scan(h), id)
                        /\ Continue(h, [Moved(h, "dispatched") EXCEPT !.scanner = id])
     \/ Go!admitRefused(Scan(h)) /\ Return(h)
     \/ \E code \in {"BLOCKED_TARGET", "INVALID_TARGET", "INVALID_PORT_RANGE", "INTERNAL_ERROR"} :
          /\ Continue(h, [Moved(h, "undispatched") EXCEPT !.code = code])
          /\ UNCHANGED engine
  /\ UNCHANGED <<row, trail, rules, orphans, faults>>

MarkDispatched(h) ==
  /\ At(h, "dispatched")
  /\ \E outcome \in Outcomes :
       markScanDispatched(Scan(h), strand[h].scanner, h, outcome)
  /\ Return(h)
  /\ UNCHANGED <<engine, orphans, faults>>

MarkUndispatched(h) ==
  /\ At(h, "undispatched")
  /\ \E outcome \in Outcomes :
       markScanDispatchFailed(Scan(h), strand[h].code,
         strand[h].code = "BLOCKED_TARGET", h, outcome)
  /\ Return(h)
  /\ UNCHANGED <<engine, orphans, faults>>

-----------------------------------------------------------------------------
(* getPersistedScanStatus, for a request and for the reconciler            *)

(* loadScanJobForActor: what the strand does with the row it read. *)
Loaded(h, s, page) ==
  CASE row[s].status = "QUEUED" /\ row[s].scanner = NoId ->
         [Idle(page) EXCEPT !.at = "claim", !.scan = s, !.then = "reload"]
    [] row[s].status \in ActiveStatus /\ row[s].scanner # NoId ->
         [Idle(page) EXCEPT !.at = "get", !.scan = s, !.scanner = row[s].scanner]
    [] OTHER -> Idle(page)

Poll(h, s) ==
  /\ h \in Handlers /\ At(h, "idle")
  /\ row[s].status # "NONE"
  /\ Continue(h, Loaded(h, s, <<>>))
  /\ UNCHANGED <<row, trail, rules, engine, orphans, faults>>

(* A terminal row that has a scanner id is still looked up once. *)
Reload(h) ==
  /\ At(h, "reload")
  /\ IF row[Scan(h)].scanner # NoId
     THEN Continue(h, [Moved(h, "get") EXCEPT !.then = "return",
                                              !.scanner = row[Scan(h)].scanner])
     ELSE Finish(h)
  /\ UNCHANGED <<row, trail, rules, engine, orphans, faults>>

AnsweredCompletedEarly(h) == \* mutant
  LET status == jobs[strand[h].scanner].status
  IN  CASE status = "none"   -> [Moved(h, "fail") EXCEPT !.code = "SCAN_NOT_FOUND"]
        [] status = "failed" -> [Moved(h, "fail") EXCEPT !.code = "SCANNER_FAILED"]
        [] OTHER             -> Moved(h, "complete")

AnsweredUnknownCode(h) == \* mutant
  LET status == jobs[strand[h].scanner].status
  IN  CASE status = "none"      -> [Moved(h, "fail") EXCEPT !.code = "SCAN_NOT_FOUND"]
        [] status = "failed"    -> [Moved(h, "fail") EXCEPT !.code = "failed"]
        [] status = "completed" -> Moved(h, "complete")
        [] OTHER                -> Idle(strand[h].page)

(* getScannerJob: what the job's state asks for. *)
Answered(h) ==
  LET status == jobs[strand[h].scanner].status
  IN  CASE status = "none"      -> [Moved(h, "fail") EXCEPT !.code = "SCAN_NOT_FOUND"]
        [] status = "failed"    -> [Moved(h, "fail") EXCEPT !.code = "SCANNER_FAILED"]
        [] status = "completed" -> Moved(h, "complete")
        [] OTHER                -> Idle(strand[h].page)

Get(h) ==
  /\ At(h, "get")
  /\ Continue(h, Answered(h))
  /\ UNCHANGED <<row, trail, rules, engine, orphans, faults>>

Fail(h) ==
  /\ At(h, "fail")
  /\ markScanSynchronizationFailed(Scan(h), strand[h].code)
  /\ Finish(h)
  /\ UNCHANGED <<engine, orphans, faults>>

Complete(h) ==
  /\ At(h, "complete")
  /\ CompleteScanJob(Scan(h))
  /\ Finish(h)
  /\ UNCHANGED <<engine, orphans, faults>>

-----------------------------------------------------------------------------
(* reconcileActiveScansInBackground                                        *)

(* loadActiveScanJobs: the oldest active scans, at most a page of them. *)
OldestFirst(page) ==
  /\ \A m, n \in DOMAIN page : m < n => page[m] < page[n]
  /\ \A m \in DOMAIN page : page[m] \in ActiveScans
  /\ \A s \in ActiveScans : (\E m \in DOMAIN page : page[m] = s)
                              \/ (Len(page) = PageSize /\ \A m \in DOMAIN page : page[m] < s)

ReconcilerLoads ==
  /\ At(Reconciler, "idle") /\ strand[Reconciler].page = <<>>
  /\ \E n \in 0..PageSize : \E page \in [1..n -> ActiveScans] :
       OldestFirst(page) /\ Continue(Reconciler, Idle(page))
  /\ UNCHANGED <<row, trail, rules, engine, orphans, faults>>

ReconcilerPollsSameScan == \* mutant
  /\ At(Reconciler, "idle") /\ strand[Reconciler].page # <<>>
  /\ Continue(Reconciler, Loaded(Reconciler, Head(strand[Reconciler].page),
                                 strand[Reconciler].page))
  /\ UNCHANGED <<row, trail, rules, engine, orphans, faults>>

ReconcilerPolls ==
  /\ At(Reconciler, "idle") /\ strand[Reconciler].page # <<>>
  /\ Continue(Reconciler, Loaded(Reconciler, Head(strand[Reconciler].page),
                                 Tail(strand[Reconciler].page)))
  /\ UNCHANGED <<row, trail, rules, engine, orphans, faults>>

-----------------------------------------------------------------------------
(* The scanner engine at work, and the administrators                      *)

Now == 1 + Cardinality({i \in Ids : history[i].end \in Go!TerminalStatus})

RunScan(i) ==
  /\ \/ Go!markRunning(i)
     \/ Go!markCompleted(i, Now)
     \/ Go!markFailed(i, Now)
  /\ UNCHANGED <<row, trail, rules, strand, orphans, faults>>

(* A POST nobody waits for any more reaches the scanner engine. *)
HandleOrphan(s) ==
  /\ orphans[s] > 0
  /\ orphans' = [orphans EXCEPT ![s] = @ - 1]
  /\ \/ \E id \in Ids : ScannerAccepts(s, id)
     \/ Go!admitRefused(s)
     \/ UNCHANGED engine
  /\ UNCHANGED <<row, trail, rules, strand, faults>>

Administrate(r) ==
  /\ insertAllowedTarget(r) \/ disableAllowedTarget(r)
  /\ UNCHANGED <<strand, engine, orphans, faults>>

-----------------------------------------------------------------------------
(* Time and failures                                                       *)

(* The strand whose token the lease holds is still dispatching the scan. *)
Held(s) ==
  \E h \in Strands : /\ row[s].lease = h /\ Scan(h) = s
                     /\ strand[h].at \in Dispatching \ {"claim"}

(* The lease of a dispatch that was given up runs out. *)
AbandonedLeaseExpires(s) ==
  /\ ~Held(s)
  /\ LeaseExpires(s)
  /\ UNCHANGED <<strand, engine, orphans, faults>>

(* A dispatch takes longer than its lease: resolving and authorizing the   *)
(* target happen under the lease and have no deadline.                     *)
LeaseOverrun(s) ==
  /\ Fault("overrun")
  /\ Held(s)
  /\ LeaseExpires(s)
  /\ UNCHANGED <<strand, engine, orphans>>

(* No answer to a POST: the response timeout, a reset or a 502/503/504.    *)
(* The request was lost, or is still under way.                            *)
PostUnanswered(h) ==
  /\ Fault("other")
  /\ At(h, "post")
  /\ Return(h)
  /\ orphans' \in {orphans, [orphans EXCEPT ![Scan(h)] = @ + 1]}
  /\ UNCHANGED <<row, trail, rules, engine>>

(* The answer to a POST or a GET is unreadable: an INTERNAL_ERROR, which   *)
(* ends the scan.                                                          *)
Unreadable(h) ==
  [Moved(h, IF At(h, "get") THEN "fail" ELSE "undispatched") EXCEPT !.code = "INTERNAL_ERROR"]

(* The scanner engine admitted the job, but its answer never arrived, or   *)
(* arrived unreadable.                                                     *)
AnswerLost(h) ==
  /\ Fault("other")
  /\ At(h, "dispatched")
  /\ Return(h) \/ Continue(h, Unreadable(h))
  /\ UNCHANGED <<row, trail, rules, engine, orphans>>

(* An unreadable or unexpected answer to a GET.                            *)
StatusUnreadable(h) ==
  /\ Fault("other")
  /\ At(h, "get")
  /\ Continue(h, Unreadable(h))
  /\ UNCHANGED <<row, trail, rules, engine, orphans>>

(* A database error, or no answer to a GET: the strand gives up where it   *)
(* is and nothing of what it had begun is undone.                          *)
GiveUp(h) ==
  /\ Fault("other")
  /\ strand[h].at \notin {"idle", "post"}
  /\ Finish(h)
  /\ UNCHANGED <<row, trail, rules, engine, orphans>>

(* The API process dies and starts again: only the rows survive. A POST    *)
(* that was on its way may still arrive.                                   *)
ApiCrash ==
  /\ Fault("other")
  /\ strand' = [h \in Strands |-> Idle(<<>>)]
  /\ \E sent \in SUBSET {h \in Strands : At(h, "post")} :
       orphans' = [s \in Scans |->
                     orphans[s] + Cardinality({h \in sent : Scan(h) = s})]
  /\ UNCHANGED <<row, trail, rules, engine>>

(* Strands with an exchange with the scanner engine under way: a POST not  *)
(* yet handled, one whose job is admitted but whose answer is still being  *)
(* written, a GET.                                                         *)
Exchanging == {h \in Strands : strand[h].at \in {"post", "dispatched", "get"}}

(* The scanner engine's process dies and starts again: its store and its   *)
(* scans are gone, and so are the connections of orphaned requests and of  *)
(* some of the strands, those whose answer had not arrived.  Such a strand *)
(* has no answer, which defers a dispatch, or only the beginning of one.   *)
ScannerRestart ==
  /\ Go!restart
  /\ orphans' = [s \in Scans |-> 0]
  /\ \E cut \in SUBSET Exchanging, halved \in SUBSET (Exchanging \ {h \in Strands : At(h, "post")}) :
       /\ Fault(IF \E h \in cut \cup halved : At(h, "dispatched") THEN "cut" ELSE "restart")
       /\ cut \cap halved = {}
       /\ strand' = [h \in Strands |-> CASE h \in cut    -> Returned(h)
                                         [] h \in halved -> Unreadable(h)
                                         [] OTHER        -> strand[h]]
  /\ UNCHANGED <<row, trail, rules>>

-----------------------------------------------------------------------------
(* A strand goes on as far as its code does by itself. *)
StrandStep(h) ==
  \/ InsertQueued(h) \/ InsertBlocked(h)
  \/ Claim(h) \/ Authorize(h) \/ Attach(h) \/ Post(h)
  \/ MarkDispatched(h) \/ MarkUndispatched(h)
  \/ Reload(h) \/ Get(h) \/ Fail(h) \/ Complete(h)

Failure ==
  \/ \E s \in Scans : LeaseOverrun(s)
  \/ \E h \in Strands :
       PostUnanswered(h) \/ AnswerLost(h) \/ StatusUnreadable(h) \/ GiveUp(h)
  \/ ApiCrash
  \/ ScannerRestart

Next ==
  \/ \E h \in Strands, o \in Owners : ReceiveCreate(h, o)
  \/ \E h \in Strands, s \in Scans : Poll(h, s)
  \/ \E h \in Strands : StrandStep(h)
  \/ ReconcilerLoads \/ ReconcilerPolls
  \/ \E i \in Ids : RunScan(i)
  \/ \E s \in Scans : HandleOrphan(s)
  \/ \E s \in Scans : AbandonedLeaseExpires(s)
  \/ \E r \in Rules : Administrate(r)
  \/ Failure

Spec == Init /\ [][Next]_vars

(* Strands, the reconciler's loop, the scanner's goroutines and the clock  *)
(* keep going; no client is obliged to send a request.                     *)
Fairness ==
  /\ \A h \in Strands : WF_vars(StrandStep(h))
  /\ WF_vars(ReconcilerLoads) /\ WF_vars(ReconcilerPolls)
  /\ \A i \in Ids : WF_vars(RunScan(i))
  /\ \A s \in Scans : WF_vars(AbandonedLeaseExpires(s))

FairSpec == Spec /\ Fairness

-----------------------------------------------------------------------------
(* Properties                                                              *)

(* A row names a scanner job that was admitted for this very scan, and     *)
(* ends as that job ended: what a poller read before the row changed, the  *)
(* store evicted the job or the engine restarted never misattributes a     *)
(* result (markScanDispatched, synchronizeScanJob).                        *)
OutcomeFromOwnJob ==
  \A s \in Scans :
    /\ row[s].scanner # NoId => history[row[s].scanner].key = s
    /\ row[s].status = "COMPLETED" => history[row[s].scanner].end = "completed"
    /\ row[s].failure = "SCANNER_FAILED" => history[row[s].scanner].end = "failed"

(* Every queued scan ends, although its dispatcher died, lost the answer   *)
(* or was refused by a full scanner engine: the reconciler finishes it.    *)
EveryScanEnds ==
  \A s \in Scans : row[s].status = "QUEUED" ~> row[s].status \notin {"QUEUED", "RUNNING"}

(* The scan records, seen without how they come about, live the life that  *)
(* ScanLifecycle specifies.                                                *)
Lifecycle == INSTANCE ScanLifecycle WITH
               status <- [s \in Scans |-> row[s].status],
               owner  <- [s \in Scans |-> row[s].owner],
               events <- trail

ImplementsLifecycle == Lifecycle!Spec

(* A blocked scan never reached the scanner engine (V006, line 3). It      *)
(* holds as long as nothing fails.                                         *)
BlockedNeverReachedScanner ==
  \A s \in Scans : row[s].status = "BLOCKED" => \A i \in Ids : history[i].key # s

(* One scan never has two scanner jobs. A document says so; the engine's   *)
(* keys are lost when it restarts.                                         *)
OneScannerJobPerScan ==
  \A i, j \in Ids : history[i].key = history[j].key => i = j \/ history[i].key = NoScan

(* The jobs of a scan, and the failures that can lead to another: restarts *)
(* make the engine forget keys; losses make the API submit again.          *)
JobsOf(s) == {i \in Ids : history[i].key = s}
Restarts  == faults["restart"] + faults["cut"]
Losses    == faults["overrun"] + faults["cut"] + faults["other"]

(* However submissions are lost, delayed, repeated and raced, every further *)
(* job of a scan takes a loss and, if the engine retains a job for every   *)
(* scan, a restart of the engine, which may be the same failure: a retry   *)
(* finds the job it started before, and where it cannot, the lease has let *)
(* no strand submit twice (dispatchQueuedScan, jobStore.admit).            *)
JobsTakeFailures ==
  \A s \in Scans :
    /\ Cardinality(JobsOf(s)) <= 1 + Losses
    /\ Cardinality(Scans) <= MaxRetained => Cardinality(JobsOf(s)) <= 1 + Restarts

(* The lease keeps strands from dispatching one scan at the same time: for *)
(* every strand more than one at the POST of a scan, a dispatch outran its *)
(* lease, whatever else failed (claimScanDispatch).                        *)
OneDispatcherPerLease ==
  \A s \in Scans :
    Cardinality({h \in Strands : At(h, "post") /\ Scan(h) = s}) <= 1 + faults["overrun"]
=============================================================================
