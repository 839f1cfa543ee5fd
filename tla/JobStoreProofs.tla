--------------------------- MODULE JobStoreProofs ---------------------------
(***************************************************************************)
(* JobStore for every set of ids, keys and requests and all limits: types, *)
(* the agreement of the two maps, the active-job limit and the retention.  *)
(***************************************************************************)
EXTENDS JobStore, FiniteSetTheorems, FunctionTheorems, TLAPS

(* A job in the store was admitted, so admitNew never overwrites one.      *)
PresentAdmitted == \A i \in Present : history[i].end # "none"

USE DEF ActiveStatus, TerminalStatus

-----------------------------------------------------------------------------
(* The store after retention keeps its types and loses terminal jobs only.  *)
LEMMA RetentionType ==
  ASSUME NEW m \in [Ids -> Job], keys \in [Keys -> Ids \cup {NoId}],
         enforceRetentionLocked(m)
  PROVE  /\ jobs' \in [Ids -> Job]
         /\ keys' \in [Keys -> Ids \cup {NoId}]
<1>1. NoJob \in Job
  BY DEF NoJob, Job
<1> QED
  BY <1>1 DEF enforceRetentionLocked

(* What retention does to each job and to each key. *)
LEMMA RetentionEffect ==
  ASSUME NEW m, enforceRetentionLocked(m)
  PROVE  /\ \A i \in Ids : \/ i \notin Expired(m) /\ jobs'[i] = m[i]
                           \/ i \in Expired(m) /\ jobs'[i] = NoJob
         /\ \A k \in Keys : \/ keys[k] \notin Expired(m) /\ keys'[k] = keys[k]
                            \/ keys[k] \in Expired(m) /\ keys'[k] = NoId
         /\ Expired(m) \subseteq {i \in Ids : m[i].status \in TerminalStatus}
  BY DEF enforceRetentionLocked, Expired, TerminalIn

(* update changes one job that is present and then applies retention.      *)
LEMMA UpdateType ==
  ASSUME TypeOK, NEW i \in Ids, NEW now \in Nat,
         NEW status \in {"running", "completed", "failed"},
         update(i, status, now)
  PROVE  /\ jobs' \in [Ids -> Job]
         /\ keys' \in [Keys -> Ids \cup {NoId}]
<1>1. [jobs EXCEPT ![i].status = status, ![i].updatedAt = now] \in [Ids -> Job]
  BY DEF TypeOK, Job
<1> QED
  BY <1>1, RetentionType DEF update, TypeOK

LEMMA StoreInit == Init => TypeOK
BY StoreAssumption DEF StoreAssumption, Init, TypeOK, NoJob, Job, Admission

LEMMA StoreStep == TypeOK /\ [Next]_store => TypeOK'
<1> SUFFICES ASSUME TypeOK, [Next]_store
             PROVE  TypeOK'
  OBVIOUS
<1>1. ASSUME NEW k \in Keys \cup {NoKey}, admitRefused(k)
      PROVE  TypeOK'
  BY <1>1 DEF admitRefused, WithoutDangling, TypeOK
<1>2. ASSUME NEW i \in Ids, NEW k \in Keys \cup {NoKey}, NEW r \in Requests,
             admitNew(i, k, r)
      PROVE  TypeOK'
  BY <1>2 DEF admitNew, newScanJob, TypeOK, Job, Admission
<1>3. ASSUME NEW i \in Ids, markRunning(i)
      PROVE  TypeOK'
  BY <1>3, UpdateType DEF markRunning, TypeOK
<1>4. ASSUME NEW i \in Ids, NEW now \in Clock, markCompleted(i, now)
      PROVE  TypeOK'
  <2>1. now \in Nat
    BY StoreAssumption DEF StoreAssumption
  <2>2. history' \in [Ids -> Admission]
    BY <1>4 DEF markCompleted, TypeOK, Admission
  <2> QED
    BY <1>4, <2>1, <2>2, UpdateType DEF markCompleted, TypeOK
<1>5. ASSUME NEW i \in Ids, NEW now \in Clock, markFailed(i, now)
      PROVE  TypeOK'
  <2>1. now \in Nat
    BY StoreAssumption DEF StoreAssumption
  <2>2. history' \in [Ids -> Admission]
    BY <1>5 DEF markFailed, TypeOK, Admission
  <2> QED
    BY <1>5, <2>1, <2>2, UpdateType DEF markFailed, TypeOK
<1>6. CASE restart
  BY <1>6 DEF restart, NoJob, Job, TypeOK
<1>7. CASE UNCHANGED store
  BY <1>7 DEF store, TypeOK
<1> QED
  BY <1>1, <1>2, <1>3, <1>4, <1>5, <1>6, <1>7
  DEF Next, admitReplay, admitConflict

(* The store and the observer always have their types.                     *)
THEOREM StoreTypeCorrect == Spec => []TypeOK
<1> QED
  BY StoreInit, StoreStep, PTL DEF Spec

-----------------------------------------------------------------------------
(* The agreement of the two maps                                           *)

(* Eviction takes a job and its key out together.                          *)
LEMMA RetentionKeepsAgreement ==
  ASSUME TypeOK, KeysAgree, PresentAdmitted,
         NEW m \in [Ids -> Job], enforceRetentionLocked(m), TypeOK',
         \A i \in Ids : m[i].status # "none" <=> i \in Present,
         \A i \in Ids : /\ history'[i].key = history[i].key
                        /\ history[i].end # "none" => history'[i].end # "none"
  PROVE  KeysAgree' /\ PresentAdmitted'
<1>1. \A i \in Ids : i \in Present' <=> i \in Present /\ i \notin Expired(m)
  BY RetentionEffect DEF Present, NoJob
<1>2. ASSUME NEW k \in Keys, keys'[k] # NoId
      PROVE  keys'[k] \in Present' /\ history'[keys'[k]].key = k
  BY <1>1, <1>2, RetentionEffect DEF KeysAgree, Present
<1>3. ASSUME NEW i \in Present', history'[i].key # NoKey
      PROVE  keys'[history'[i].key] = i
  <2>1. i \in Ids /\ i \in Present /\ i \notin Expired(m) /\ history'[i].key = history[i].key
    BY <1>1, <1>3 DEF Present
  <2>2. history[i].key \in Keys /\ keys[history[i].key] = i
    BY <1>3, <2>1 DEF KeysAgree, TypeOK, Admission
  <2> QED
    BY <2>1, <2>2, RetentionEffect
<1>4. PresentAdmitted'
  BY <1>1 DEF PresentAdmitted, Present
<1> QED
  BY <1>2, <1>3, <1>4 DEF KeysAgree

LEMMA AgreementInit == Init => KeysAgree /\ PresentAdmitted
BY DEF Init, KeysAgree, PresentAdmitted, Present, NoJob

LEMMA AgreementStep ==
  TypeOK /\ KeysAgree /\ PresentAdmitted /\ [Next]_store
    => KeysAgree' /\ PresentAdmitted'
<1> SUFFICES ASSUME TypeOK, KeysAgree, PresentAdmitted, [Next]_store
             PROVE  KeysAgree' /\ PresentAdmitted'
  OBVIOUS
<1>0. TypeOK'
  BY StoreStep
<1>1. ASSUME NEW k \in Keys \cup {NoKey}, admitRefused(k)
      PROVE  KeysAgree' /\ PresentAdmitted'
  BY <1>1 DEF admitRefused, WithoutDangling, Retained, KeysAgree, PresentAdmitted,
              Present, TypeOK, Admission
<1>2. ASSUME NEW i \in Ids, NEW k \in Keys \cup {NoKey}, NEW r \in Requests,
             admitNew(i, k, r)
      PROVE  KeysAgree' /\ PresentAdmitted'
  <2>1. i \notin Present
    BY <1>2 DEF admitNew, Unused, PresentAdmitted
  <2>2. Present' = Present \cup {i}
    BY <1>2 DEF admitNew, Present, newScanJob, TypeOK
  <2>3. \A j \in Ids : j # i => history'[j] = history[j]
    BY <1>2 DEF admitNew, TypeOK
  <2>4. history'[i] = [key |-> k, end |-> "open"]
    BY <1>2 DEF admitNew, TypeOK
  <2>5. ASSUME NEW q \in Keys, keys'[q] # NoId
        PROVE  keys'[q] \in Present' /\ history'[keys'[q]].key = q
    <3>1. CASE q = k
      BY <1>2, <2>2, <2>4, <3>1, StoreAssumption DEF admitNew, TypeOK, StoreAssumption
    <3>2. CASE q # k
      <4>1. keys'[q] = keys[q]
        BY <1>2, <3>2 DEF admitNew, TypeOK
      <4>2. keys[q] \in Present /\ history[keys[q]].key = q
        BY <2>5, <4>1 DEF KeysAgree
      <4>3. keys[q] # i /\ keys[q] \in Ids
        BY <2>1, <4>2 DEF Present
      <4> QED
        BY <2>2, <2>3, <4>1, <4>2, <4>3
    <3> QED
      BY <3>1, <3>2
  <2>6. ASSUME NEW j \in Present', history'[j].key # NoKey
        PROVE  keys'[history'[j].key] = j
    <3>1. CASE j = i
      BY <1>2, <2>4, <2>6, <3>1 DEF admitNew, TypeOK
    <3>2. CASE j # i
      <4>1. j \in Present /\ j \in Ids /\ history'[j] = history[j]
        BY <2>2, <2>3, <2>6, <3>2 DEF Present
      <4>2. history[j].key \in Keys /\ keys[history[j].key] = j
        BY <2>6, <4>1 DEF KeysAgree, TypeOK, Admission
      <4>3. history[j].key # k
        BY <1>2, <4>1, <4>2, StoreAssumption DEF admitNew, Retained, StoreAssumption
      <4> QED
        BY <1>2, <4>1, <4>2, <4>3 DEF admitNew, TypeOK
    <3> QED
      BY <3>1, <3>2
  <2>7. PresentAdmitted'
    BY <2>2, <2>3, <2>4 DEF PresentAdmitted, Present
  <2> QED
    BY <2>5, <2>6, <2>7 DEF KeysAgree
<1>3. ASSUME NEW i \in Ids, NEW now \in Nat,
             NEW status \in {"running", "completed", "failed"},
             update(i, status, now),
             \A j \in Ids : /\ history'[j].key = history[j].key
                            /\ history[j].end # "none" => history'[j].end # "none"
      PROVE  KeysAgree' /\ PresentAdmitted'
  <2> DEFINE m == [jobs EXCEPT ![i].status = status, ![i].updatedAt = now]
  <2>1. m \in [Ids -> Job]
    BY DEF TypeOK, Job
  <2>2. enforceRetentionLocked(m)
    BY <1>3 DEF update
  <2>3. \A j \in Ids : m[j].status # "none" <=> j \in Present
    BY <1>3 DEF update, Present, TypeOK, Job
  <2> QED
    BY <1>0, <1>3, <2>1, <2>2, <2>3, RetentionKeepsAgreement
<1>4. ASSUME NEW i \in Ids, markRunning(i)
      PROVE  KeysAgree' /\ PresentAdmitted'
  BY <1>3, <1>4 DEF markRunning
<1>5. ASSUME NEW i \in Ids, NEW now \in Clock, markCompleted(i, now) \/ markFailed(i, now)
      PROVE  KeysAgree' /\ PresentAdmitted'
  <2>1. \A j \in Ids : /\ history'[j].key = history[j].key
                       /\ history[j].end # "none" => history'[j].end # "none"
    BY <1>5 DEF markCompleted, markFailed, TypeOK, Admission
  <2>2. now \in Nat
    BY StoreAssumption DEF StoreAssumption
  <2> QED
    BY <1>3, <1>5, <2>1, <2>2 DEF markCompleted, markFailed
<1>6. CASE restart
  BY <1>6 DEF restart, NoJob, KeysAgree, PresentAdmitted, Present
<1>7. CASE UNCHANGED store
  BY <1>7 DEF store, KeysAgree, PresentAdmitted, Present
<1> QED
  BY <1>1, <1>2, <1>4, <1>5, <1>6, <1>7 DEF Next, admitReplay, admitConflict

(* No key is ever left without its job, no job without its key, and no key *)
(* ever has two jobs in the store (admit, enforceRetentionLocked).         *)
THEOREM KeysAlwaysAgree == Spec => []KeysAgree
<1>1. TypeOK /\ KeysAgree /\ PresentAdmitted /\ [Next]_store
        => (TypeOK /\ KeysAgree /\ PresentAdmitted)'
  BY StoreStep, AgreementStep
<1> QED
  BY StoreInit, AgreementInit, <1>1, PTL DEF Spec

-----------------------------------------------------------------------------
(* The limit on active jobs                                                *)

(* Only an admission adds to the active jobs, and it adds one.             *)
LEMMA ActiveStep ==
  ASSUME TypeOK, [Next]_store
  PROVE  \/ Active' \subseteq Active
         \/ \E i \in Ids : Active' = Active \cup {i} /\ Cardinality(Active) < MaxActive
<1>1. ASSUME NEW i \in Ids, NEW k \in Keys \cup {NoKey}, NEW r \in Requests,
             admitNew(i, k, r)
      PROVE  Active' = Active \cup {i} /\ Cardinality(Active) < MaxActive
  BY <1>1 DEF admitNew, newScanJob, Active, TypeOK
<1>2. ASSUME NEW i \in Ids, NEW status, NEW now, jobs[i].status \in ActiveStatus,
             update(i, status, now)
      PROVE  Active' \subseteq Active
  <2> DEFINE m == [jobs EXCEPT ![i].status = status, ![i].updatedAt = now]
  <2>1. enforceRetentionLocked(m)
    BY <1>2 DEF update
  <2>2. ASSUME NEW j \in Active'
        PROVE  j \in Active
    <3>1. j \in Ids /\ jobs'[j].status \in ActiveStatus
      BY <2>2 DEF Active
    <3>2. jobs'[j] = m[j]
      <4> HIDE DEF m
      <4> QED
        BY <2>1, <3>1, RetentionEffect DEF NoJob
    <3>3. CASE j = i
      BY <1>2, <3>3 DEF Active
    <3>4. CASE j # i
      <4>1. m[j] = jobs[j]
        BY <3>1, <3>4 DEF TypeOK
      <4> QED
        BY <3>1, <3>2, <4>1 DEF Active
    <3> QED
      BY <3>3, <3>4
  <2> QED
    BY <2>2
<1>3. CASE \E i \in Ids : markRunning(i)
  BY <1>2, <1>3 DEF markRunning
<1>4. CASE \E i \in Ids, now \in Clock : markCompleted(i, now) \/ markFailed(i, now)
  BY <1>2, <1>4 DEF markCompleted, markFailed
<1>5. CASE restart
  BY <1>5 DEF restart, NoJob, Active
<1>6. CASE UNCHANGED jobs
  BY <1>6 DEF Active
<1> QED
  BY <1>1, <1>3, <1>4, <1>5, <1>6
  DEF Next, store, admitReplay, admitConflict, admitRefused

(* The active jobs are counted and added to under one lock, so they never  *)
(* exceed maxActive (admit).                                               *)
THEOREM ActiveJobsLimited == Spec => []ActiveLimit
<1>1. IsFiniteSet(Ids) /\ MaxActive \in Nat
  BY StoreAssumption DEF StoreAssumption
<1>2. IsFiniteSet(Active) /\ Cardinality(Active) \in Nat
  BY <1>1, FS_Subset, FS_CardinalityType DEF Active
<1>3. Init => ActiveLimit
  <2>1. Init => Active = {}
    BY DEF Init, Active, NoJob
  <2> QED
    BY <1>1, <2>1, FS_EmptySet DEF ActiveLimit
<1>4. TypeOK /\ ActiveLimit /\ [Next]_store => ActiveLimit'
  <2> SUFFICES ASSUME TypeOK, ActiveLimit, [Next]_store
               PROVE  ActiveLimit'
    OBVIOUS
  <2>1. CASE Active' \subseteq Active
    <3>1. Cardinality(Active') \in Nat /\ Cardinality(Active') <= Cardinality(Active)
      BY <1>2, <2>1, FS_Subset, FS_CardinalityType
    <3> QED
      BY <1>1, <1>2, <3>1 DEF ActiveLimit
  <2>2. ASSUME NEW i \in Ids, Active' = Active \cup {i}, Cardinality(Active) < MaxActive
        PROVE  ActiveLimit'
    <3>1. Cardinality(Active') \in {Cardinality(Active), Cardinality(Active) + 1}
      BY <1>2, <2>2, FS_AddElement
    <3> QED
      BY <1>1, <1>2, <2>2, <3>1 DEF ActiveLimit
  <2> QED
    BY <2>1, <2>2, ActiveStep
<1> QED
  BY StoreInit, StoreStep, <1>3, <1>4, PTL DEF Spec

-----------------------------------------------------------------------------
(* The retention                                                           *)

(* A terminal job's rank is the number of those sorted after it.  Ranks are *)
(* a bijection onto an interval, and those below maxRetained stay.         *)
Later(m, i) == {j \in TerminalIn(m) : Before(m, i, j)}
Rank(m)     == [i \in TerminalIn(m) |-> Cardinality(Later(m, i))]
Kept(m)     == TerminalIn(m) \ Expired(m)

LEMMA BeforeOrders ==
  ASSUME NEW m \in [Ids -> Job], NEW i \in Ids, NEW j \in Ids
  PROVE  /\ ~Before(m, i, i)
         /\ i # j => Before(m, i, j) \/ Before(m, j, i)
         /\ \A k \in Ids : Before(m, i, j) /\ Before(m, j, k) => Before(m, i, k)
<1>1. \A k \in Ids : m[k].updatedAt \in Nat /\ k \in Int
  BY StoreAssumption DEF StoreAssumption, Job
<1> QED BY <1>1 DEF Before

LEMMA Ranks ==
  ASSUME NEW m \in [Ids -> Job]
  PROVE  /\ IsFiniteSet(TerminalIn(m)) /\ Cardinality(TerminalIn(m)) \in Nat
         /\ Rank(m) \in Injection(TerminalIn(m), 0..(Cardinality(TerminalIn(m)) - 1))
         /\ Rank(m) \in Surjection(TerminalIn(m), 0..(Cardinality(TerminalIn(m)) - 1))
         /\ \A i, j \in TerminalIn(m) : Before(m, i, j) => Rank(m)[j] < Rank(m)[i]
<1> DEFINE T == TerminalIn(m)
           n == Cardinality(T)
<1>1. T \subseteq Ids /\ IsFiniteSet(T) /\ n \in Nat
  BY StoreAssumption, FS_Subset, FS_CardinalityType DEF StoreAssumption, TerminalIn
<1>2. ASSUME NEW i \in T
      PROVE  /\ Later(m, i) \subseteq T \ {i} /\ IsFiniteSet(Later(m, i))
             /\ Rank(m)[i] = Cardinality(Later(m, i)) /\ Rank(m)[i] \in 0..(n - 1)
  <2>1. Later(m, i) \subseteq T \ {i} BY <1>1, BeforeOrders DEF Later
  <2>2. IsFiniteSet(T \ {i}) /\ Cardinality(T \ {i}) = n - 1 BY <1>1, FS_RemoveElement
  <2>3. /\ IsFiniteSet(Later(m, i)) /\ Cardinality(Later(m, i)) \in Nat
        /\ Cardinality(Later(m, i)) <= n - 1
    BY <2>1, <2>2, FS_Subset, FS_CardinalityType
  <2>4. Rank(m)[i] = Cardinality(Later(m, i)) BY DEF Rank
  <2> QED BY <1>1, <2>1, <2>3, <2>4
<1>3. ASSUME NEW i \in T, NEW j \in T, Before(m, i, j) PROVE Rank(m)[j] < Rank(m)[i]
  <2>1. Later(m, j) \subseteq Later(m, i) \ {j}
    BY <1>1, <1>3, BeforeOrders DEF Later
  <2>2. j \in Later(m, i) BY <1>3 DEF Later
  <2>3. IsFiniteSet(Later(m, i) \ {j})
        /\ Cardinality(Later(m, i) \ {j}) = Cardinality(Later(m, i)) - 1
    BY <1>2, <2>2, FS_RemoveElement
  <2>4. Cardinality(Later(m, j)) <= Cardinality(Later(m, i)) - 1 BY <2>1, <2>3, FS_Subset
  <2>5. Rank(m)[i] \in Nat /\ Rank(m)[j] \in Nat BY <1>1, <1>2
  <2> QED BY <1>2, <2>4, <2>5
<1>4. Rank(m) \in Injection(T, 0..(n - 1))
  <2>1. Rank(m) \in [T -> 0..(n - 1)] BY <1>2 DEF Rank
  <2>2. ASSUME NEW i \in T, NEW j \in T, Rank(m)[i] = Rank(m)[j] PROVE i = j
    <3>1. Rank(m)[i] \in Nat BY <1>1, <1>2
    <3> QED BY <1>1, <1>3, <2>2, <3>1, BeforeOrders
  <2> QED BY <2>1, <2>2 DEF Injection, IsInjective
<1>5. IsFiniteSet(0..(n - 1)) /\ Cardinality(0..(n - 1)) = n
  <2>1. n - 1 \in Int /\ 0 \in Int BY <1>1
  <2> HIDE DEF n
  <2>2. IsFiniteSet(0..(n - 1)) /\ Cardinality(0..(n - 1)) = IF 0 > n - 1 THEN 0 ELSE (n - 1) - 0 + 1
    BY <2>1, FS_Interval
  <2> QED BY <1>1, <2>2
<1>6. Rank(m) \in Surjection(T, 0..(n - 1)) BY <1>1, <1>4, <1>5, FS_Injection
<1> QED BY <1>1, <1>3, <1>4, <1>6

LEMMA KeptNewest ==
  ASSUME NEW m \in [Ids -> Job]
  PROVE  /\ Cardinality(Kept(m)) <= MaxRetained
         /\ Expired(m) # {} => Cardinality(Kept(m)) = MaxRetained
         /\ \A i \in Expired(m), j \in Kept(m) : m[i].updatedAt <= m[j].updatedAt
<1> DEFINE T == TerminalIn(m)
           n == Cardinality(T)
           kept == [i \in Kept(m) |-> Rank(m)[i]]
<1>1. n \in Nat /\ MaxRetained \in Nat \ {0} /\ T \subseteq Ids
  BY Ranks, StoreAssumption DEF StoreAssumption, TerminalIn
<1>2. \A i \in T : Rank(m)[i] \in 0..(n - 1) BY Ranks DEF Injection
<1>3. Expired(m) = {i \in T : Rank(m)[i] >= MaxRetained} BY DEF Expired, Rank, Later
<1>4. Kept(m) = {i \in T : Rank(m)[i] \in 0..(MaxRetained - 1)}
  BY <1>1, <1>2, <1>3 DEF Kept
<1>5. kept \in Injection(Kept(m), 0..(MaxRetained - 1))
  BY <1>4, Ranks DEF Injection, IsInjective
<1>6. IsFiniteSet(0..(MaxRetained - 1)) /\ Cardinality(0..(MaxRetained - 1)) = MaxRetained
  <2>1. MaxRetained - 1 \in Int /\ ~(0 > MaxRetained - 1) BY <1>1
  <2>2. /\ IsFiniteSet(0..(MaxRetained - 1))
        /\ Cardinality(0..(MaxRetained - 1)) = (MaxRetained - 1) - 0 + 1
    BY <2>1, FS_Interval
  <2> QED BY <1>1, <2>2
<1>7. Cardinality(Kept(m)) <= MaxRetained BY <1>5, <1>6, FS_Injection
<1>8. ASSUME Expired(m) # {} PROVE Cardinality(Kept(m)) = MaxRetained
  <2>1. MaxRetained <= n - 1 BY <1>1, <1>2, <1>3, <1>8
  <2>2. \A t \in 0..(MaxRetained - 1) : \E i \in T : Rank(m)[i] = t
    BY <1>1, <2>1, Ranks DEF Surjection
  <2>3. kept \in Surjection(Kept(m), 0..(MaxRetained - 1))
    BY <1>4, <1>5, <2>2 DEF Surjection, Injection
  <2> QED BY <1>5, <1>6, <2>3, FS_Injection
<1>9. ASSUME NEW i \in Expired(m), NEW j \in Kept(m) PROVE m[i].updatedAt <= m[j].updatedAt
  <2>1. i \in T /\ j \in T /\ Rank(m)[j] < Rank(m)[i] BY <1>1, <1>2, <1>3, <1>4
  <2>2. i # j /\ ~Before(m, j, i) BY <1>2, <2>1, Ranks
  <2>3. Before(m, i, j) BY <1>1, <2>1, <2>2, BeforeOrders
  <2>4. m[i].updatedAt \in Nat /\ m[j].updatedAt \in Nat BY <1>1, <2>1 DEF Job
  <2> QED BY <2>3, <2>4 DEF Before
<1> QED BY <1>7, <1>8, <1>9

(* Of a job, the store knows what the observer knows of its scan; the time  *)
(* of an active one is not set.                                            *)
EndsKnown ==
  \A i \in Ids : /\ jobs[i].status \in TerminalStatus => history[i].end = jobs[i].status
                 /\ jobs[i].status \in ActiveStatus => jobs[i].updatedAt = 0

RInv == TypeOK /\ PresentAdmitted /\ EndsKnown /\ RetentionLimit
Evicts ==
  \/ \A i \in Ids : jobs'[i] = NoJob
  \/ Gone = {}
  \/ /\ Cardinality(Terminal') = MaxRetained
     /\ \A g \in Gone : history'[g].end \in TerminalStatus
     /\ \E i \in Ids, now \in Clock : Finishes(i, now)
     /\ \A i \in Ids, now \in Clock : Finishes(i, now) => OldestGo(i, now)

(* What an eviction leaves and takes, whoever's update it is.              *)
EvictsFinished ==
  /\ Gone # {} => Cardinality(Terminal') = MaxRetained
  /\ \A g \in Gone : history'[g].end \in TerminalStatus

(* One update of a job under way, with what it does to the observer.       *)
LEMMA UpdateRetains ==
  ASSUME RInv, TypeOK', NEW i \in Ids, NEW now \in Nat, jobs[i].status \in ActiveStatus,
         NEW status \in {"running"} \cup TerminalStatus, update(i, status, now),
         status = "running" => now = 0,
         \A j \in Ids \ {i} : history'[j].end = history[j].end,
         status \in TerminalStatus => history'[i].end = status
  PROVE  /\ EndsKnown' /\ RetentionLimit' /\ EvictsFinished /\ OldestGo(i, now)
         /\ status = "running" => Gone = {}
<1> DEFINE m == [jobs EXCEPT ![i].status = status, ![i].updatedAt = now]
<1>1. /\ m \in [Ids -> Job] /\ enforceRetentionLocked(m)
      /\ m[i].status = status /\ m[i].updatedAt = now
      /\ \A j \in Ids \ {i} : m[j] = jobs[j]
  BY DEF RInv, TypeOK, Job, update
<1> HIDE DEF m
<1>2. /\ \A j \in Ids : \/ j \notin Expired(m) /\ jobs'[j] = m[j]
                        \/ j \in Expired(m) /\ jobs'[j] = NoJob
      /\ Expired(m) \subseteq TerminalIn(m)
  BY <1>1, RetentionEffect DEF TerminalIn
<1>3. Terminal' = Kept(m)
  BY <1>2 DEF Terminal, Kept, TerminalIn, NoJob
<1>4. RetentionLimit' BY <1>1, <1>3, KeptNewest DEF RetentionLimit
<1>5. EndsKnown'
  <2> SUFFICES ASSUME NEW j \in Ids
               PROVE  /\ jobs'[j].status \in TerminalStatus => history'[j].end = jobs'[j].status
                      /\ jobs'[j].status \in ActiveStatus => jobs'[j].updatedAt = 0
    BY DEF EndsKnown
  <2>1. CASE j \in Expired(m) BY <1>2, <2>1 DEF NoJob
  <2>2. CASE j \notin Expired(m) /\ j = i BY <1>1, <1>2, <2>2
  <2>3. CASE j \notin Expired(m) /\ j # i BY <1>1, <1>2, <2>3 DEF RInv, EndsKnown
  <2> QED BY <2>1, <2>2, <2>3
<1>6. \A j \in Gone : j \in Ids /\ j \in Expired(m) /\ jobs[j].status # "none"
  BY <1>1, <1>2 DEF Gone, Present
<1>7. EvictsFinished
  <2>1. Gone # {} => Cardinality(Terminal') = MaxRetained BY <1>1, <1>3, <1>6, KeptNewest
  <2>2. ASSUME NEW j \in Gone PROVE history'[j].end \in TerminalStatus
    <3>1. m[j].status \in TerminalStatus BY <1>2, <1>6 DEF TerminalIn
    <3>2. CASE j = i BY <1>1, <3>1, <3>2
    <3>3. CASE j # i BY <1>1, <1>6, <3>1, <3>3 DEF RInv, EndsKnown
    <3> QED BY <3>2, <3>3
  <2> QED BY <2>1, <2>2 DEF EvictsFinished
<1>8. OldestGo(i, now)
  <2> SUFFICES ASSUME NEW j \in Gone, NEW k \in Terminal'
               PROVE  (IF j = i THEN now ELSE jobs[j].updatedAt) <= jobs'[k].updatedAt
    BY DEF OldestGo
  <2>1. m[j].updatedAt <= m[k].updatedAt BY <1>1, <1>3, <1>6, KeptNewest
  <2>2. jobs'[k] = m[k] BY <1>2, <1>3 DEF Kept, TerminalIn
  <2> QED BY <1>1, <1>6, <2>1, <2>2
<1>9. ASSUME status = "running" PROVE Gone = {}
  <2>1. TerminalIn(m) = Terminal
    <3>1. jobs[i].status \notin TerminalStatus /\ m[i].status \notin TerminalStatus
      BY <1>1, <1>9 DEF ActiveStatus, TerminalStatus
    <3> QED BY <1>1, <3>1 DEF TerminalIn, Terminal
  <2>2. IsFiniteSet(Terminal) /\ Cardinality(Terminal) <= MaxRetained
    BY StoreAssumption, FS_Subset DEF StoreAssumption, Terminal, RInv, RetentionLimit
  <2>3. Kept(m) \subseteq TerminalIn(m) /\ Expired(m) = TerminalIn(m) \ Kept(m)
    BY <1>2 DEF Kept
  <2>4. ASSUME Expired(m) # {} PROVE FALSE
    <3>1. Cardinality(Kept(m)) = MaxRetained BY <1>1, <2>4, KeptNewest
    <3>2. Cardinality(Kept(m)) <= Cardinality(Terminal) /\ Kept(m) # Terminal
          /\ (Cardinality(Kept(m)) = Cardinality(Terminal) => Kept(m) = Terminal)
      BY <2>1, <2>2, <2>3, <2>4, FS_Subset
    <3>3. Cardinality(Kept(m)) \in Nat /\ Cardinality(Terminal) \in Nat
      BY <2>1, <2>2, <2>3, FS_Subset, FS_CardinalityType
    <3> QED BY <2>2, <3>1, <3>2, <3>3
  <2> QED BY <1>6, <2>4
<1> QED BY <1>4, <1>5, <1>7, <1>8, <1>9

(* A job is marked running once and finishes once.                         *)
LEMMA FinishesOnce ==
  ASSUME RInv, NEW i \in Ids, NEW now \in Clock, Finishes(i, now)
  PROVE  /\ jobs[i].status = "running" /\ now \in Nat
         /\ \E status \in TerminalStatus :
              /\ update(i, status, now) /\ history'[i].end = status
              /\ \A j \in Ids \ {i} : history'[j] = history[j]
<1>1. now \in Nat BY StoreAssumption DEF StoreAssumption
<1>2. CASE markCompleted(i, now)
  <2>1. history'[i].end = "completed" /\ \A j \in Ids \ {i} : history'[j] = history[j]
    BY <1>2 DEF markCompleted, RInv, TypeOK, Admission
  <2> QED BY <1>1, <1>2, <2>1 DEF markCompleted, TerminalStatus
<1>3. CASE markFailed(i, now)
  <2>1. history'[i].end = "failed" /\ \A j \in Ids \ {i} : history'[j] = history[j]
    BY <1>3 DEF markFailed, RInv, TypeOK, Admission
  <2> QED BY <1>1, <1>3, <2>1 DEF markFailed, TerminalStatus
<1> QED BY <1>2, <1>3 DEF Finishes

LEMMA FinishRetains ==
  ASSUME RInv, TypeOK', NEW i \in Ids, NEW now \in Clock, Finishes(i, now)
  PROVE  EndsKnown' /\ RetentionLimit' /\ EvictsFinished /\ OldestGo(i, now)
<1>1. PICK status \in TerminalStatus :
        /\ update(i, status, now) /\ history'[i].end = status
        /\ \A j \in Ids \ {i} : history'[j] = history[j]
  BY FinishesOnce
<1>2. jobs[i].status \in ActiveStatus /\ now \in Nat /\ status # "running"
  BY FinishesOnce DEF ActiveStatus, TerminalStatus
<1> QED BY <1>1, <1>2, UpdateRetains

(* Steps that finish no job keep the terminal ones or lose all.             *)
LEMMA OthersRetain ==
  ASSUME RInv, TypeOK',
         \/ \E k \in Keys \cup {NoKey} : admitRefused(k)
         \/ \E i \in Ids, k \in Keys \cup {NoKey}, r \in Requests : admitNew(i, k, r)
         \/ restart
         \/ UNCHANGED store
  PROVE  EndsKnown' /\ RetentionLimit' /\ Evicts
<1>1. IsFiniteSet(Terminal) /\ MaxRetained \in Nat /\ Cardinality(Terminal) <= MaxRetained
      /\ Cardinality(Terminal) \in Nat
  BY StoreAssumption, FS_Subset, FS_CardinalityType
  DEF StoreAssumption, Terminal, RInv, RetentionLimit
<1>2. ASSUME Terminal' \subseteq Terminal PROVE RetentionLimit'
  <2>1. Cardinality(Terminal') \in Nat /\ Cardinality(Terminal') <= Cardinality(Terminal)
    BY <1>1, <1>2, FS_Subset, FS_CardinalityType
  <2> QED BY <1>1, <2>1 DEF RetentionLimit
<1>3. CASE UNCHANGED <<jobs, history>>
  <2>1. Terminal' = Terminal /\ Gone = {} BY <1>3 DEF Terminal, Gone, Present
  <2> QED BY <1>2, <1>3, <2>1 DEF Evicts, RInv, EndsKnown
<1>4. ASSUME NEW i \in Ids, NEW k \in Keys \cup {NoKey}, NEW r \in Requests, admitNew(i, k, r)
      PROVE  EndsKnown' /\ RetentionLimit' /\ Evicts
  <2>1. /\ jobs'[i] = newScanJob(r) /\ \A j \in Ids \ {i} : jobs'[j] = jobs[j]
        /\ \A j \in Ids \ {i} : history'[j] = history[j]
    BY <1>4 DEF admitNew, RInv, TypeOK
  <2>2. Terminal' \subseteq Terminal /\ Gone = {}
    BY <2>1 DEF Terminal, Gone, Present, newScanJob
  <2> QED BY <1>2, <2>1, <2>2 DEF Evicts, RInv, EndsKnown, newScanJob
<1>5. CASE restart
  <2>1. \A j \in Ids : jobs'[j] = NoJob BY <1>5 DEF restart
  <2>2. Terminal' \subseteq Terminal BY <2>1 DEF Terminal, NoJob
  <2> QED BY <1>2, <2>1, <2>2 DEF Evicts, EndsKnown, NoJob
<1> QED BY <1>3, <1>4, <1>5 DEF admitRefused, store

LEMMA RetentionStep == RInv /\ [Next]_store => RInv' /\ Evicts
<1> SUFFICES ASSUME RInv, [Next]_store PROVE RInv' /\ Evicts OBVIOUS
<1>1. TypeOK' BY StoreStep DEF RInv
<1>2. PresentAdmitted'
  <2>1. \A j \in Ids : history[j].end # "none" => history'[j].end # "none"
    <3>1. ASSUME NEW i \in Ids, NEW k \in Keys \cup {NoKey}, NEW r \in Requests,
                 admitNew(i, k, r), NEW j \in Ids, history[j].end # "none"
          PROVE  history'[j].end # "none"
      BY <3>1 DEF admitNew, RInv, TypeOK
    <3>2. ASSUME NEW i \in Ids, NEW status \in TerminalStatus, NEW j \in Ids,
                 history' = [history EXCEPT ![i].end = status], history[j].end # "none"
          PROVE  history'[j].end # "none"
      BY <3>2 DEF RInv, TypeOK, Admission
    <3> QED
      BY <3>1, <3>2 DEF Next, store, admitReplay, admitConflict, admitRefused, markRunning,
                        markCompleted, markFailed, restart
  <2>2. \A j \in Ids : j \in Present' => j \in Present \/ history'[j].end # "none"
    <3>1. ASSUME NEW i \in Ids, NEW k \in Keys \cup {NoKey}, NEW r \in Requests,
                 admitNew(i, k, r), NEW j \in Present'
          PROVE  j \in Present \/ history'[j].end # "none"
      BY <3>1 DEF admitNew, Present, RInv, TypeOK
    <3>2. ASSUME NEW i \in Ids, NEW status, NEW now, update(i, status, now), NEW j \in Present'
          PROVE  j \in Present
      <4>1. CASE j = i BY <3>2, <4>1 DEF update
      <4>2. CASE j # i
        BY <3>2, <4>2 DEF update, enforceRetentionLocked, Present, NoJob, RInv, TypeOK
      <4> QED BY <4>1, <4>2
    <3> QED
      BY <3>1, <3>2 DEF Next, store, admitReplay, admitConflict, admitRefused, markRunning,
                        markCompleted, markFailed, restart, Present, NoJob
  <2> QED BY <2>1, <2>2 DEF PresentAdmitted, RInv, Present
<1>3. ASSUME NEW i \in Ids, markRunning(i) PROVE EndsKnown' /\ RetentionLimit' /\ Evicts
  <2>1. jobs[i].status \in ActiveStatus /\ update(i, "running", 0) /\ history' = history
    BY <1>3 DEF markRunning, ActiveStatus
  <2>2. EndsKnown' /\ RetentionLimit' /\ Gone = {}
    BY <1>1, <2>1, UpdateRetains DEF TerminalStatus
  <2> QED BY <2>2 DEF Evicts
<1>4. ASSUME NEW i \in Ids, NEW now \in Clock, Finishes(i, now)
      PROVE  EndsKnown' /\ RetentionLimit' /\ Evicts
  <2>1. EndsKnown' /\ RetentionLimit' /\ EvictsFinished
    BY <1>1, <1>4, FinishRetains
  <2>2. \A j \in Ids, t \in Clock : Finishes(j, t) => OldestGo(j, t)
    BY <1>1, FinishRetains
  <2> QED BY <1>4, <2>1, <2>2 DEF Evicts, EvictsFinished
<1> QED
  BY <1>1, <1>2, <1>3, <1>4, OthersRetain
  DEF Next, RInv, admitReplay, admitConflict, Finishes

LEMMA RetentionInvariant == Spec => []RInv
<1>1. Init => RInv
  <2> SUFFICES ASSUME Init PROVE RInv OBVIOUS
  <2>1. PresentAdmitted /\ EndsKnown /\ Terminal = {}
    BY DEF Init, PresentAdmitted, EndsKnown, Present, Terminal, NoJob
  <2> QED
    BY <2>1, StoreInit, StoreAssumption, FS_EmptySet DEF RInv, RetentionLimit, StoreAssumption
<1>2. RInv /\ [Next]_store => RInv' BY RetentionStep
<1> QED BY <1>1, <1>2, PTL DEF Spec

(* The store never keeps more than maxRetained finished jobs, whatever ties *)
(* and set-back clocks do to their order (enforceRetentionLocked).         *)
THEOREM FinishedJobsLimited == Spec => []RetentionLimit
<1>1. RInv => RetentionLimit BY DEF RInv
<1> QED BY <1>1, RetentionInvariant, PTL

(* Only finished jobs are evicted, only the oldest, the one that finishes  *)
(* right now taken at its new time, and no more of them than it takes      *)
(* (enforceRetentionLocked).                                               *)
THEOREM OldestAreEvicted == Spec => EvictOldestFinished
<1>1. RInv /\ [Next]_store => [Evicts]_store BY RetentionStep
<1>2. EvictOldestFinished <=> [][Evicts]_store BY DEF EvictOldestFinished, Evicts
<1> QED BY <1>1, <1>2, RetentionInvariant, PTL DEF Spec
=============================================================================
