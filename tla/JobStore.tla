------------------------------ MODULE JobStore ------------------------------
(***************************************************************************)
(* The scanner engine's in-memory job store                                *)
(* (scanner-engine/cmd/server/jobs.go): the map of scan jobs, the map of   *)
(* idempotency keys, admission under the active-job limit, the lifecycle   *)
(* updates of a job's goroutine and the eviction of old terminal jobs.     *)
(* Every method holds the store's mutex from its first line to its last,   *)
(* so each is one action.                                                  *)
(*                                                                         *)
(* Go maps are total functions here: an id without a job maps to NoJob, a  *)
(* key without an entry to NoId.                                           *)
(***************************************************************************)
EXTENDS Integers, FiniteSets

CONSTANTS
  Ids,         \* job ids newUUID may return: integers, because ties sort by id
  Keys,        \* idempotency keys: the public scan ids of the API
  Requests,    \* what sameScanRequest compares: target and port range
  NoId, NoKey, NoRequest,
  MaxActive,   \* store.maxActive, a positive int (config.go)
  MaxRetained, \* store.maxRetained, a positive int (config.go)
  Clock        \* readings of the wall clock; UTC() strips the monotonic one

ASSUME StoreAssumption ==
  /\ Ids \subseteq Int /\ IsFiniteSet(Ids) /\ NoId \notin Ids
  /\ NoKey \notin Keys /\ NoRequest \notin Requests
  /\ MaxActive \in Nat \ {0} /\ MaxRetained \in Nat \ {0}
  /\ Clock \subseteq Nat

VARIABLES
  jobs,    \* store.jobs
  keys,    \* store.idempotencyKeys
  history  \* observer: under which key each id was admitted, how its scan ended

store == <<jobs, keys, history>>

ActiveStatus   == {"accepted", "running"}
TerminalStatus == {"completed", "failed"}

(* UpdatedAt is read only when terminal jobs are sorted: it is 0 in others. *)
Job == [status: {"none"} \cup ActiveStatus \cup TerminalStatus,
        request: Requests \cup {NoRequest}, updatedAt: Nat]
NoJob == [status |-> "none", request |-> NoRequest, updatedAt |-> 0]

newScanJobNoStatus(r) == [status |-> "", request |-> r, updatedAt |-> 0] \* mutant
newScanJob(r) == [status |-> "accepted", request |-> r, updatedAt |-> 0]

Admission == [key: Keys \cup {NoKey}, end: {"none", "open"} \cup TerminalStatus]

TypeOK ==
  /\ jobs \in [Ids -> Job]
  /\ keys \in [Keys -> Ids \cup {NoId}]
  /\ history \in [Ids -> Admission]

Init ==
  /\ jobs = [i \in Ids |-> NoJob]
  /\ keys = [k \in Keys |-> NoId]
  /\ history = [i \in Ids |-> [key |-> NoKey, end |-> "none"]]

Present  == {i \in Ids : jobs[i].status # "none"}
Active   == {i \in Ids : jobs[i].status \in ActiveStatus}
Terminal == {i \in Ids : jobs[i].status \in TerminalStatus}
Unused   == {i \in Ids : history[i].end = "none"}

-----------------------------------------------------------------------------
(* admit(job, idempotencyKey)                                              *)

(* The key names a job that is still retained. *)
Retained(k) == k # NoKey /\ keys[k] \in Present

(* The same request again: the existing job is answered, nothing starts. *)
admitReplay(k, r) ==
  /\ Retained(k)
  /\ jobs[keys[k]].request = r
  /\ UNCHANGED store

admitConflict(k, r) ==
  /\ Retained(k)
  /\ jobs[keys[k]].request # r
  /\ UNCHANGED store

(* An entry whose job is gone is deleted before the limit is consulted. *)
WithoutDangling(k) == IF k = NoKey THEN keys ELSE [keys EXCEPT ![k] = NoId]

admitRefused(k) ==
  /\ ~Retained(k)
  /\ Cardinality(Active) >= MaxActive
  /\ keys' = WithoutDangling(k)
  /\ UNCHANGED <<jobs, history>>

admitNewOverLimit(i, k, r) == \* mutant
  /\ i \in Unused
  /\ ~Retained(k)
  /\ Cardinality(Active) <= MaxActive
  /\ jobs' = [jobs EXCEPT ![i] = newScanJob(r)]
  /\ keys' = IF k = NoKey THEN keys ELSE [keys EXCEPT ![k] = i]
  /\ history' = [history EXCEPT ![i] = [key |-> k, end |-> "open"]]

admitNewKeyForgotten(i, k, r) == \* mutant
  /\ i \in Unused
  /\ ~Retained(k)
  /\ Cardinality(Active) < MaxActive
  /\ jobs' = [jobs EXCEPT ![i] = newScanJob(r)]
  /\ keys' = WithoutDangling(k)
  /\ history' = [history EXCEPT ![i] = [key |-> k, end |-> "open"]]

admitNew(i, k, r) ==
  /\ i \in Unused
  /\ ~Retained(k)
  /\ Cardinality(Active) < MaxActive
  /\ jobs' = [jobs EXCEPT ![i] = newScanJob(r)]
  /\ keys' = IF k = NoKey THEN keys ELSE [keys EXCEPT ![k] = i]
  /\ history' = [history EXCEPT ![i] = [key |-> k, end |-> "open"]]

-----------------------------------------------------------------------------
(* update(id, change) and the retention it enforces                        *)

BeforeNewestFirst(m, i, j) == \* mutant
  \/ m[i].updatedAt > m[j].updatedAt
  \/ m[i].updatedAt = m[j].updatedAt /\ i < j

(* The order in which enforceRetentionLocked sorts terminal jobs. *)
Before(m, i, j) ==
  \/ m[i].updatedAt < m[j].updatedAt
  \/ m[i].updatedAt = m[j].updatedAt /\ i < j

TerminalIn(m) == {i \in Ids : m[i].status \in TerminalStatus}

ExpiredTooLate(m) == \* mutant
  {i \in TerminalIn(m) :
     Cardinality({j \in TerminalIn(m) : Before(m, i, j)}) > MaxRetained}

(* All but the last maxRetained terminal jobs of that order. *)
Expired(m) ==
  {i \in TerminalIn(m) :
     Cardinality({j \in TerminalIn(m) : Before(m, i, j)}) >= MaxRetained}

enforceRetentionKeepsKeys(m) == \* mutant
  /\ jobs' = [i \in Ids |-> IF i \in Expired(m) THEN NoJob ELSE m[i]]
  /\ UNCHANGED keys

enforceRetentionLocked(m) ==
  /\ jobs' = [i \in Ids |-> IF i \in Expired(m) THEN NoJob ELSE m[i]]
  /\ keys' = [k \in Keys |-> IF keys[k] \in Expired(m) THEN NoId ELSE keys[k]]

update(i, status, now) ==
  /\ i \in Present
  /\ enforceRetentionLocked(
       [jobs EXCEPT ![i].status = status, ![i].updatedAt = now])

(* runScan: the goroutine of a job marks it running, scans, marks the end. *)
markRunning(i) ==
  /\ jobs[i].status = "accepted"
  /\ update(i, "running", 0)
  /\ UNCHANGED history

markCompleted(i, now) ==
  /\ jobs[i].status = "running"
  /\ update(i, "completed", now)
  /\ history' = [history EXCEPT ![i].end = "completed"]

markFailed(i, now) ==
  /\ jobs[i].status = "running"
  /\ update(i, "failed", now)
  /\ history' = [history EXCEPT ![i].end = "failed"]

(* The process ends and starts again: maps and goroutines are gone. *)
restart ==
  /\ jobs' = [i \in Ids |-> NoJob]
  /\ keys' = [k \in Keys |-> NoId]
  /\ UNCHANGED history

-----------------------------------------------------------------------------
Next ==
  \/ \E k \in Keys, r \in Requests : admitReplay(k, r)
  \/ \E k \in Keys, r \in Requests : admitConflict(k, r)
  \/ \E k \in Keys \cup {NoKey} : admitRefused(k)
  \/ \E i \in Ids, k \in Keys \cup {NoKey}, r \in Requests : admitNew(i, k, r)
  \/ \E i \in Ids : markRunning(i)
  \/ \E i \in Ids, now \in Clock : markCompleted(i, now)
  \/ \E i \in Ids, now \in Clock : markFailed(i, now)
  \/ restart

Spec == Init /\ [][Next]_store

-----------------------------------------------------------------------------
(* Properties                                                              *)

(* maxActive bounds the scans under way, whatever was admitted, replayed   *)
(* and finished: admit counts and inserts under one lock.                  *)
ActiveLimit == Cardinality(Active) <= MaxActive

(* Memory stays bounded: every update leaves at most maxRetained finished  *)
(* jobs (enforceRetentionLocked).                                          *)
RetentionLimit == Cardinality(Terminal) <= MaxRetained

(* The two maps agree: a key leads to a job still in the store that was    *)
(* admitted under that key, and a job in the store is what its key leads   *)
(* to, so a key never has two jobs and eviction leaves no dangling entry.  *)
KeysAgree ==
  /\ \A k \in Keys : keys[k] # NoId =>
        keys[k] \in Present /\ history[keys[k]].key = k
  /\ \A i \in Present : history[i].key # NoKey => keys[history[i].key] = i

(* Only the end of a scan evicts, with the reading now of the clock.  The  *)
(* jobs that leave the store have finished, they are the oldest, and they  *)
(* are no more than the limit demands: the job that finishes in this step  *)
(* counts with the time it gets here, so a scan that just ended is lost    *)
(* to its pollers only if the clock did not advance.  A restart is the one *)
(* exception: it empties the store (update, enforceRetentionLocked).       *)
Gone == {i \in Present : jobs'[i].status = "none"}
Finishes(i, now) == markCompleted(i, now) \/ markFailed(i, now)
OldestGo(i, now) ==
  \A g \in Gone, j \in Terminal' :
    (IF g = i THEN now ELSE jobs[g].updatedAt) <= jobs'[j].updatedAt

EvictOldestFinished ==
  [][\/ \A i \in Ids : jobs'[i] = NoJob
     \/ Gone = {}
     \/ /\ Cardinality(Terminal') = MaxRetained
        /\ \A g \in Gone : history'[g].end \in TerminalStatus
        /\ \E i \in Ids, now \in Clock : Finishes(i, now)
        /\ \A i \in Ids, now \in Clock : Finishes(i, now) => OldestGo(i, now)]_store
=============================================================================
