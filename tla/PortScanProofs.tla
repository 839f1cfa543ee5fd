--------------------------- MODULE PortScanProofs ---------------------------
(***************************************************************************)
(* Proofs about PortScan.  The inductive invariant says where the loop     *)
(* stands among the goroutines, that channel and wait group count the      *)
(* goroutines they should, who holds the mutex, and which probes are among *)
(* the results.                                                            *)
(***************************************************************************)
EXTENDS PortScan, FiniteSetTheorems, SequenceTheorems, TLAPS

At(S) == {p \in DOMAIN worker : worker[p].at \in S}

Holding  == {"dial", "lock", "read", "write", "unlock", "release"}
Counted  == Holding \cup {"done"}
Critical == {"read", "write", "unlock"}
Reported == {"unlock", "release", "done", "ended"}

Before(p, q) == p[1] < q[1] \/ (p[1] = q[1] /\ p[2] < q[2])

Scanning == feeder.at \in {"acquire", "start", "wait", "returned"}

(* Goroutines exist for the probes of Required only, and start in the order   *)
(* of the loops.                                                           *)
LoopOK ==
  /\ ~Scanning => /\ DOMAIN worker = {} /\ results = <<>> /\ mu = NoProbe
                  /\ sem = 0 /\ wg = 0
  /\ Scanning => ValidateScanConfig /\ DOMAIN worker = Required
  /\ feeder.at \in {"acquire", "start"} =>
       /\ feeder.next \in Required
       /\ \A p \in Required : worker[p].at = "unborn" <=> ~Before(p, feeder.next)
  /\ feeder.at \in {"wait", "returned"} =>
       \A p \in Required : worker[p].at # "unborn"
  /\ feeder.at = "returned" => \A p \in Required : worker[p].at = "ended"

(* The channel holds a slot of every holding goroutine and of the one that *)
(* is about to be started; the wait group counts the goroutines to come.   *)
SlotsOK ==
  /\ sem = Cardinality(At(Holding)) + (IF feeder.at = "start" THEN 1 ELSE 0)
  /\ Scanning => sem <= config.maxConcurrent

GroupOK == wg = Cardinality(At(Counted))

(* Only the holder of the mutex is inside, and what it read is current.    *)
MutexOK ==
  \A p \in DOMAIN worker :
    /\ worker[p].at \in Critical <=> mu = p
    /\ worker[p].at = "write" => worker[p].copy = results

(* The results are those of the goroutines that wrote, one each.           *)
ResultsOK ==
  /\ \A p \in DOMAIN worker :
       worker[p].at \in Reported <=> \E i \in DOMAIN results : results[i] = p
  /\ \A i \in DOMAIN results : results[i] \in DOMAIN worker
  /\ \A i, j \in DOMAIN results : results[i] = results[j] => i = j

IInv == TypeOK /\ LoopOK /\ SlotsOK /\ GroupOK /\ MutexOK /\ ResultsOK

-----------------------------------------------------------------------------
(* Finiteness and counting                                                 *)

(* There are finitely many probes, hence finitely many goroutines.         *)
LEMMA WorkersFinite ==
  ASSUME TypeOK
  PROVE  IsFiniteSet(DOMAIN worker)
<1>1. config.startPort \in Int /\ config.endPort \in Int /\ addresses \in Int
  BY ScanAssumption DEF TypeOK, ScanConfig, PortNumbers, MinimumPort
<1>2. IsFiniteSet(1..addresses) /\ IsFiniteSet(config.startPort..config.endPort)
  BY <1>1, FS_Interval
<1>3. IsFiniteSet(Required)
  BY <1>2, FS_Product DEF Required
<1> QED
  BY <1>3, FS_Subset DEF TypeOK

(* One goroutine enters a set of places: the set counts one more.          *)
LEMMA Enters ==
  ASSUME NEW A, NEW B, NEW p, IsFiniteSet(A), p \notin A, B = A \cup {p}
  PROVE  Cardinality(B) = Cardinality(A) + 1 /\ Cardinality(A) \in Nat
BY FS_AddElement, FS_CardinalityType

(* One goroutine leaves it: the set counts one less.                       *)
LEMMA Leaves ==
  ASSUME NEW A, NEW B, NEW p, IsFiniteSet(A), p \in A, B = A \ {p}
  PROVE  Cardinality(B) = Cardinality(A) - 1 /\ Cardinality(A) \in Nat
BY FS_RemoveElement, FS_CardinalityType

(* No goroutine of a probe is named like the absence of one.               *)
LEMMA NoProbeIsNone ==
  ASSUME TypeOK
  PROVE  NoProbe \notin DOMAIN worker
BY DEF TypeOK, Required, NoProbe

-----------------------------------------------------------------------------
(* The initial states                                                      *)

LEMMA InitIInv == Init => IInv
<1> SUFFICES ASSUME Init PROVE IInv
  OBVIOUS
<1>1. TypeOK
  BY DEF Init, TypeOK, FeederAt, NoProbe
<1>2. LoopOK
  BY DEF Init, LoopOK, Scanning
<1>3. At(Holding) = {} /\ At(Counted) = {}
  BY DEF Init, At
<1>4. SlotsOK /\ GroupOK
  BY <1>3, FS_EmptySet DEF Init, SlotsOK, GroupOK, Scanning
<1>5. MutexOK /\ ResultsOK
  BY DEF Init, MutexOK, ResultsOK
<1> QED
  BY <1>1, <1>2, <1>4, <1>5 DEF IInv

-----------------------------------------------------------------------------
(* What a worker's step does to the set of goroutines at a place           *)

Moves(p, from, to) ==
  /\ p \in DOMAIN worker
  /\ worker[p].at = from /\ worker'[p].at = to
  /\ DOMAIN worker' = DOMAIN worker
  /\ \A q \in DOMAIN worker : q # p => worker'[q] = worker[q]

(* A step within S, or outside of it, leaves S alone.                      *)
LEMMA MovesWithin ==
  ASSUME NEW p, NEW from, NEW to, NEW S, Moves(p, from, to),
         from \in S <=> to \in S
  PROVE  At(S)' = At(S)
BY DEF Moves, At

LEMMA AtCounts ==
  ASSUME NEW S, TypeOK
  PROVE  Cardinality(At(S)) \in Nat /\ IsFiniteSet(At(S))
BY WorkersFinite, FS_Subset, FS_CardinalityType DEF At

(* A step out of S: one goroutine less is in S.                            *)
LEMMA MovesOut ==
  ASSUME NEW p, NEW from, NEW to, NEW S, Moves(p, from, to), TypeOK,
         from \in S, to \notin S
  PROVE  Cardinality(At(S)') = Cardinality(At(S)) - 1
<1>1. At(S)' = At(S) \ {p} /\ p \in At(S)
  BY DEF Moves, At
<1> QED
  BY <1>1, AtCounts, Leaves

(* A step into S: one more.                                                *)
LEMMA MovesIn ==
  ASSUME NEW p, NEW from, NEW to, NEW S, Moves(p, from, to), TypeOK,
         from \notin S, to \in S
  PROVE  Cardinality(At(S)') = Cardinality(At(S)) + 1
<1>1. At(S)' = At(S) \cup {p} /\ p \notin At(S)
  BY DEF Moves, At
<1> QED
  BY <1>1, AtCounts, Enters

(* A worker's step keeps the loop's place among the goroutines.            *)
LEMMA LoopStays ==
  ASSUME IInv, NEW p, NEW from, NEW to, Moves(p, from, to),
         from # "unborn", to # "unborn", from # "ended",
         UNCHANGED <<config, addresses, feeder>>
  PROVE  LoopOK' /\ Scanning /\ Scanning'
<1>1. Scanning /\ Scanning'
  BY DEF IInv, LoopOK, Moves, Scanning
<1>2. Required' = Required /\ DOMAIN worker = Required
  BY <1>1 DEF Required, IInv, LoopOK
<1>3. \A q \in Required : worker'[q].at = "unborn" <=> worker[q].at = "unborn"
  BY <1>2 DEF Moves
<1>4. feeder.at # "returned"
  BY <1>2 DEF IInv, LoopOK, Moves
<1>5. DOMAIN worker' = Required' /\ ValidateScanConfig'
  BY <1>1, <1>2 DEF IInv, LoopOK, Moves, ValidateScanConfig, ValidatePortRange
<1> QED
  BY <1>1, <1>2, <1>3, <1>4, <1>5 DEF LoopOK, IInv, Before, Scanning

-----------------------------------------------------------------------------
(* The steps of a worker                                                   *)

(* Goes moves one worker and keeps its copy; the workers keep their type.  *)
LEMMA GoesMoves ==
  ASSUME TypeOK, NEW p \in DOMAIN worker, NEW from, NEW to \in WorkerAt,
         Goes(p, from, to), UNCHANGED <<config, addresses, feeder>>
  PROVE  /\ Moves(p, from, to)
         /\ worker'[p].copy = worker[p].copy
         /\ worker' \in [DOMAIN worker' -> [at: WorkerAt, copy: Seq(Int \X Int)]]
         /\ DOMAIN worker' \subseteq Required'
BY DEF TypeOK, Goes, Moves, Required

LEMMA DialStep ==
  ASSUME IInv, NEW p \in DOMAIN worker, Dial(p) PROVE IInv'
<1> USE DEF IInv, Dial
<1>1. Moves(p, "dial", "lock")
  BY GoesMoves DEF WorkerAt
<1>2. TypeOK'
  BY GoesMoves DEF TypeOK, WorkerAt
<1>3. LoopOK' /\ Scanning /\ Scanning'
  BY <1>1, LoopStays
<1>4. SlotsOK' /\ GroupOK'
  BY <1>1, <1>3, MovesWithin DEF SlotsOK, GroupOK, Holding, Counted
<1>5. MutexOK'
  BY <1>1 DEF MutexOK, Moves, Critical
<1>6. ResultsOK'
  BY <1>1 DEF ResultsOK, Moves, Reported
<1> QED
  BY <1>2, <1>3, <1>4, <1>5, <1>6

LEMMA LockStep ==
  ASSUME IInv, NEW p \in DOMAIN worker, Lock(p) PROVE IInv'
<1> USE DEF IInv, Lock
<1>1. Moves(p, "lock", "read")
  BY GoesMoves DEF WorkerAt
<1>2. TypeOK'
  BY GoesMoves DEF TypeOK, WorkerAt, Required
<1>3. LoopOK' /\ Scanning /\ Scanning'
  BY <1>1, LoopStays
<1>4. SlotsOK' /\ GroupOK'
  BY <1>1, <1>3, MovesWithin DEF SlotsOK, GroupOK, Holding, Counted
<1>5. MutexOK'
  <2>1. \A q \in DOMAIN worker : worker[q].at \notin Critical
    BY NoProbeIsNone DEF MutexOK
  <2> QED
    BY <1>1, <2>1 DEF MutexOK, Moves, Critical
<1>6. ResultsOK'
  BY <1>1 DEF ResultsOK, Moves, Reported
<1> QED
  BY <1>2, <1>3, <1>4, <1>5, <1>6

LEMMA AppendReadsStep ==
  ASSUME IInv, NEW p \in DOMAIN worker, AppendReads(p) PROVE IInv'
<1> USE DEF IInv, AppendReads
<1>1. Moves(p, "read", "write") /\ worker'[p].copy = results
  BY DEF Moves, TypeOK
<1>2. TypeOK'
  BY DEF TypeOK, WorkerAt, Required
<1>3. LoopOK' /\ Scanning /\ Scanning'
  BY <1>1, LoopStays
<1>4. SlotsOK' /\ GroupOK'
  BY <1>1, <1>3, MovesWithin DEF SlotsOK, GroupOK, Holding, Counted
<1>5. MutexOK'
  BY <1>1 DEF MutexOK, Moves, Critical
<1>6. ResultsOK'
  BY <1>1 DEF ResultsOK, Moves, Reported
<1> QED
  BY <1>2, <1>3, <1>4, <1>5, <1>6

(* The one step that changes the results: what the worker read is current, *)
(* so exactly its probe is added.                                          *)
LEMMA AppendWritesStep ==
  ASSUME IInv, NEW p \in DOMAIN worker, AppendWrites(p)
  PROVE  IInv' /\ results' = Append(results, p)
<1> USE DEF IInv, AppendWrites
<1>1. Moves(p, "write", "unlock")
  BY DEF Moves, TypeOK
<1>2. results' = Append(results, p)
  BY DEF MutexOK
<1>3. p \in Int \X Int
  BY DEF TypeOK, Required, ScanConfig, PortNumbers
<1>4. TypeOK'
  <2>1. results' \in Seq(Int \X Int)
    BY <1>2, <1>3 DEF TypeOK
  <2>2. worker' \in [DOMAIN worker' -> [at: WorkerAt, copy: Seq(Int \X Int)]]
    BY DEF TypeOK, WorkerAt
  <2> QED
    BY <2>1, <2>2 DEF TypeOK, Required
<1>5. LoopOK' /\ Scanning /\ Scanning'
  BY <1>1, LoopStays
<1>6. SlotsOK' /\ GroupOK'
  BY <1>1, <1>5, MovesWithin DEF SlotsOK, GroupOK, Holding, Counted
<1>7. MutexOK'
  BY <1>1 DEF MutexOK, Moves, Critical
<1>8. ResultsOK'
  <2>1. /\ DOMAIN results' = 1..(Len(results) + 1)
        /\ \A i \in DOMAIN results : results'[i] = results[i]
        /\ results'[Len(results) + 1] = p
        /\ Len(results) \in Nat /\ DOMAIN results = 1..Len(results)
    <3>1. results \in Seq(Int \X Int)
      BY DEF TypeOK
    <3> QED
      BY <1>2, <1>3, <3>1, AppendProperties
  <2>2. \A i \in DOMAIN results : results[i] # p
    BY <1>1 DEF ResultsOK, Moves, Reported
  <2>3. \A q \in DOMAIN worker :
          (\E i \in DOMAIN results' : results'[i] = q)
            <=> q = p \/ \E i \in DOMAIN results : results[i] = q
    BY <2>1
  <2> QED
    BY <1>1, <2>1, <2>2, <2>3, SMTT(20) DEF ResultsOK, Moves, Reported
<1> QED
  BY <1>2, <1>4, <1>5, <1>6, <1>7, <1>8

LEMMA UnlockStep ==
  ASSUME IInv, NEW p \in DOMAIN worker, Unlock(p) PROVE IInv'
<1> USE DEF IInv, Unlock
<1>1. Moves(p, "unlock", "release")
  BY GoesMoves DEF WorkerAt
<1>2. TypeOK'
  BY GoesMoves DEF TypeOK, WorkerAt, NoProbe
<1>3. LoopOK' /\ Scanning /\ Scanning'
  BY <1>1, LoopStays
<1>4. SlotsOK' /\ GroupOK'
  BY <1>1, <1>3, MovesWithin DEF SlotsOK, GroupOK, Holding, Counted
<1>5. MutexOK'
  BY <1>1, NoProbeIsNone DEF MutexOK, Moves, Critical
<1>6. ResultsOK'
  BY <1>1 DEF ResultsOK, Moves, Reported
<1> QED
  BY <1>2, <1>3, <1>4, <1>5, <1>6

LEMMA ReleaseStep ==
  ASSUME IInv, NEW p \in DOMAIN worker, Release(p) PROVE IInv'
<1> USE DEF IInv, Release
<1>1. Moves(p, "release", "done")
  BY GoesMoves DEF WorkerAt
<1>2. Cardinality(At(Holding)') = Cardinality(At(Holding)) - 1
  BY <1>1, MovesOut DEF Holding
<1>3. At(Counted)' = At(Counted)
  BY <1>1, MovesWithin DEF Counted, Holding
<1>4. LoopOK' /\ Scanning /\ Scanning'
  BY <1>1, LoopStays
<1>5. SlotsOK' /\ GroupOK' /\ sem' \in Nat
  <2>1. Cardinality(At(Holding)') \in Nat /\ Cardinality(At(Holding)) \in Nat
    <3>1. At(Holding)' \subseteq DOMAIN worker /\ At(Holding) \subseteq DOMAIN worker
      BY <1>1 DEF At, Moves
    <3> QED
      BY <3>1, WorkersFinite, FS_Subset, FS_CardinalityType
  <2>2. config.maxConcurrent \in Int
    BY ScanAssumption DEF TypeOK, ScanConfig
  <2> QED
    BY <1>2, <1>3, <1>4, <2>1, <2>2 DEF SlotsOK, GroupOK, Scanning
<1>6. TypeOK'
  BY <1>5, GoesMoves DEF TypeOK, WorkerAt
<1>7. MutexOK'
  BY <1>1 DEF MutexOK, Moves, Critical
<1>8. ResultsOK'
  BY <1>1 DEF ResultsOK, Moves, Reported
<1> QED
  BY <1>4, <1>5, <1>6, <1>7, <1>8

LEMMA DoneStep ==
  ASSUME IInv, NEW p \in DOMAIN worker, Done(p) PROVE IInv'
<1> USE DEF IInv, Done
<1>1. Moves(p, "done", "ended")
  BY GoesMoves DEF WorkerAt
<1>2. Cardinality(At(Counted)') = Cardinality(At(Counted)) - 1
  BY <1>1, MovesOut DEF Counted, Holding
<1>3. At(Holding)' = At(Holding)
  BY <1>1, MovesWithin DEF Holding
<1>4. LoopOK' /\ Scanning /\ Scanning'
  BY <1>1, LoopStays
<1>5. SlotsOK' /\ GroupOK' /\ wg' \in Nat
  <2>1. At(Counted)' \subseteq DOMAIN worker
    BY <1>1 DEF At, Moves
  <2>2. Cardinality(At(Counted)') \in Nat
    BY <2>1, WorkersFinite, FS_Subset, FS_CardinalityType
  <2> QED
    BY <1>2, <1>3, <1>4, <2>2 DEF SlotsOK, GroupOK, Scanning
<1>6. TypeOK'
  BY <1>5, GoesMoves DEF TypeOK, WorkerAt
<1>7. MutexOK'
  BY <1>1 DEF MutexOK, Moves, Critical
<1>8. ResultsOK'
  BY <1>1 DEF ResultsOK, Moves, Reported
<1> QED
  BY <1>4, <1>5, <1>6, <1>7, <1>8

-----------------------------------------------------------------------------
(* The steps of the feeding loop                                           *)

LEMMA RejectStep ==
  ASSUME IInv, Reject PROVE IInv'
<1> USE DEF IInv, Reject
<1>1. TypeOK'
  BY DEF TypeOK, FeederAt, Required
<1>2. ~Scanning /\ ~Scanning'
  BY DEF Scanning, TypeOK
<1>3. At(Holding)' = At(Holding) /\ At(Counted)' = At(Counted)
  BY DEF At
<1>4. LoopOK' /\ SlotsOK' /\ GroupOK'
  BY <1>2, <1>3 DEF LoopOK, SlotsOK, GroupOK, Scanning, TypeOK
<1>5. MutexOK' /\ ResultsOK'
  BY DEF MutexOK, ResultsOK
<1> QED
  BY <1>1, <1>4, <1>5

(* A valid configuration has a first probe, and nothing comes before it.   *)
LEMMA ValidateStep ==
  ASSUME IInv, Validate PROVE IInv'
<1> USE DEF IInv, Validate
<1>1. /\ config.startPort \in Int /\ config.endPort \in Int /\ addresses \in Nat \ {0}
      /\ config.startPort <= config.endPort
  <2>1. config.startPort \in Int /\ config.endPort \in Int
    BY ScanAssumption DEF TypeOK, ScanConfig, PortNumbers, MinimumPort
  <2>2. addresses \in Nat \ {0}
    BY ScanAssumption DEF TypeOK
  <2> QED
    BY <2>1, <2>2 DEF ValidateScanConfig, ValidatePortRange
<1>2. First \in Required /\ First \in Int \X Int
  BY <1>1 DEF First, Required
<1>3. Required' = Required /\ DOMAIN worker' = Required
  BY DEF Required
<1>4. \A p \in Required : worker'[p] = Unborn
  OBVIOUS
<1>5. TypeOK'
  <2>1. Unborn \in [at: WorkerAt, copy: Seq(Int \X Int)]
    BY DEF Unborn, WorkerAt
  <2>2. worker' \in [DOMAIN worker' -> [at: WorkerAt, copy: Seq(Int \X Int)]]
    BY <2>1
  <2> QED
    BY <1>2, <1>3, <2>2 DEF TypeOK, FeederAt
<1>6. ~Scanning /\ Scanning'
  BY DEF Scanning, TypeOK
<1>7. LoopOK'
  <2>1. \A p \in Required : ~Before(p, First)
    BY <1>1 DEF Before, First, Required
  <2>2. ValidateScanConfig'
    BY DEF ValidateScanConfig, ValidatePortRange
  <2>3. feeder'.at = "acquire" /\ feeder'.next = First
    OBVIOUS
  <2>4. \A p \in Required' :
          worker'[p].at = "unborn" /\ ~Before(p, feeder'.next)
    BY <1>3, <1>4, <2>1, <2>3 DEF Unborn
  <2> QED
    BY <1>2, <1>3, <1>6, <2>2, <2>3, <2>4 DEF LoopOK
<1>8. At(Holding)' = {} /\ At(Counted)' = {}
  BY <1>3, <1>4 DEF At, Unborn, Holding, Counted
<1>9. SlotsOK' /\ GroupOK'
  BY <1>6, <1>8, FS_EmptySet, ScanAssumption
  DEF SlotsOK, GroupOK, LoopOK, ValidateScanConfig, TypeOK, ScanConfig
<1>10. MutexOK'
  <2>1. NoProbe \notin Required
    BY <1>1 DEF NoProbe, Required
  <2> QED
    BY <1>3, <1>4, <1>6, <2>1 DEF MutexOK, LoopOK, Unborn, Critical
<1>11. ResultsOK'
  BY <1>3, <1>4, <1>6 DEF ResultsOK, LoopOK, Unborn, Reported
<1> QED
  BY <1>5, <1>7, <1>9, <1>10, <1>11

LEMMA AcquireStep ==
  ASSUME IInv, Acquire PROVE IInv'
<1> USE DEF IInv, Acquire
<1>1. Scanning /\ Scanning' /\ Required' = Required
  BY DEF Scanning, TypeOK, Required
<1>2. TypeOK'
  <2>1. feeder' \in [at: FeederAt, next: Int \X Int]
    <3>1. feeder \in [at: FeederAt, next: Int \X Int]
      BY DEF TypeOK
    <3>2. feeder' = [feeder EXCEPT !.at = "start"] /\ "start" \in FeederAt
      BY DEF FeederAt
    <3> QED
      BY <3>1, <3>2
  <2>2. sem' \in Nat
    BY DEF TypeOK
  <2> QED
    BY <1>1, <2>1, <2>2 DEF TypeOK
<1>3. LoopOK'
  BY <1>1 DEF LoopOK, TypeOK, ValidateScanConfig, ValidatePortRange, Before
<1>4. At(Holding)' = At(Holding) /\ At(Counted)' = At(Counted)
  BY DEF At
<1>5. SlotsOK' /\ GroupOK'
  <2>1. Cardinality(At(Holding)) \in Nat /\ config.maxConcurrent \in Int
    BY AtCounts, ScanAssumption DEF TypeOK, ScanConfig
  <2> QED
    BY <1>1, <1>4, <2>1 DEF SlotsOK, GroupOK, TypeOK
<1>6. MutexOK' /\ ResultsOK'
  BY DEF MutexOK, ResultsOK
<1> QED
  BY <1>2, <1>3, <1>5, <1>6

(* The order of the loops: what is before After(p) is p and what is before *)
(* p, and after the last probe every probe has been reached.               *)
LEMMA LoopOrder ==
  ASSUME TypeOK, NEW p \in Required
  PROVE  /\ \A q \in Required : Before(q, After(p)) <=> q = p \/ Before(q, p)
         /\ ~Before(p, p)
         /\ p = Last => \A q \in Required : q = p \/ Before(q, p)
         /\ p # Last => After(p) \in Required
         /\ After(p) \in Int \X Int
<1>1. config.startPort \in Int /\ config.endPort \in Int /\ addresses \in Int
  BY ScanAssumption DEF TypeOK, ScanConfig, PortNumbers, MinimumPort
<1>2. \A q \in Required :
        /\ q = <<q[1], q[2]>> /\ q[1] \in Int /\ q[2] \in Int
        /\ 1 <= q[1] /\ q[1] <= addresses
        /\ config.startPort <= q[2] /\ q[2] <= config.endPort
  BY <1>1 DEF Required
<1>3. After(p) = <<After(p)[1], After(p)[2]>> /\ After(p)[1] \in Int /\ After(p)[2] \in Int
  BY <1>1, <1>2 DEF After
<1>4. \A q \in Required : Before(q, After(p)) <=> q = p \/ Before(q, p)
  BY <1>1, <1>2 DEF Before, After
<1>5. p = Last => \A q \in Required : q = p \/ Before(q, p)
  BY <1>1, <1>2 DEF Before, Last
<1>6. p # Last => After(p) \in Required
  BY <1>1, <1>2 DEF After, Last, Required
<1> QED
  BY <1>2, <1>3, <1>4, <1>5, <1>6 DEF Before

LEMMA StartStep ==
  ASSUME IInv, Start PROVE IInv'
<1> DEFINE p == feeder.next
<1> USE DEF IInv
<1>1. /\ Scanning /\ Scanning' /\ Required' = Required
      /\ DOMAIN worker = Required /\ p \in Required
  BY DEF Start, Scanning, TypeOK, Required, LoopOK
<1>2. Moves(p, "unborn", "dial") /\ worker'[p].copy = worker[p].copy
  <2>1. worker[p].at = "unborn"
    BY <1>1, LoopOrder DEF LoopOK, Start
  <2> QED
    BY <1>1, <2>1 DEF Moves, Start, TypeOK
<1>3. /\ Cardinality(At(Holding)') = Cardinality(At(Holding)) + 1
      /\ Cardinality(At(Counted)') = Cardinality(At(Counted)) + 1
  BY <1>2, MovesIn DEF Holding, Counted
<1>4. TypeOK'
  <2>1. worker' \in [DOMAIN worker' -> [at: WorkerAt, copy: Seq(Int \X Int)]]
    BY DEF TypeOK, WorkerAt, Start
  <2>2. feeder' \in [at: FeederAt, next: Int \X Int]
    BY <1>1, LoopOrder DEF FeederAt, Start
  <2>3. DOMAIN worker' \subseteq Required'
    BY <1>1 DEF Start
  <2> QED
    BY <2>1, <2>2, <2>3, SMTT(20) DEF TypeOK, Start
<1>5. LoopOK'
  <2>1. /\ feeder'.next = After(p)
        /\ p = Last => feeder'.at = "wait"
        /\ p # Last => feeder'.at = "acquire"
    BY DEF Start
  <2>2. \A q \in Required : worker'[q].at = "unborn" <=> q # p /\ ~Before(q, p)
    BY <1>1, <1>2 DEF Moves, LoopOK, Start
  <2>3. ValidateScanConfig' /\ DOMAIN worker' = Required'
    BY <1>1 DEF LoopOK, Start, ValidateScanConfig, ValidatePortRange
  <2>4. CASE p = Last
    <3>1. \A q \in Required : worker'[q].at # "unborn"
      BY <1>1, <2>2, <2>4, LoopOrder
    <3> QED
      BY <1>1, <2>1, <2>3, <2>4, <3>1 DEF LoopOK
  <2>5. CASE p # Last
    <3>1. \A q \in Required :
            worker'[q].at = "unborn" <=> ~Before(q, After(p))
      BY <1>1, <2>2, LoopOrder
    <3>2. After(p) \in Required
      BY <1>1, <2>5, LoopOrder
    <3>3. \A q \in Required' : worker'[q].at = "unborn" <=> ~Before(q, feeder'.next)
      BY <1>1, <2>1, <3>1
    <3> QED
      BY <1>1, <2>1, <2>3, <2>5, <3>2, <3>3 DEF LoopOK
  <2> QED
    BY <2>4, <2>5
<1>6. SlotsOK' /\ GroupOK'
  <2>1. Cardinality(At(Holding)) \in Nat /\ Cardinality(At(Counted)) \in Nat
    BY AtCounts
  <2> QED
    BY <1>1, <1>3, <2>1 DEF SlotsOK, GroupOK, Start
<1>7. MutexOK'
  BY <1>2 DEF MutexOK, Moves, Critical, Start
<1>8. ResultsOK'
  BY <1>2 DEF ResultsOK, Moves, Reported, Start
<1> QED
  BY <1>4, <1>5, <1>6, <1>7, <1>8

(* An empty wait group with every goroutine started: all have ended.       *)
LEMMA ReturnStep ==
  ASSUME IInv, Return PROVE IInv'
<1> USE DEF IInv, Return
<1>1. Scanning /\ Scanning' /\ Required' = Required
  BY DEF Scanning, TypeOK, Required
<1>2. TypeOK'
  BY DEF TypeOK, FeederAt, Required
<1>3. \A p \in Required : worker[p].at = "ended"
  <2>1. At(Counted) = {}
    BY AtCounts, FS_EmptySet DEF GroupOK
  <2> QED
    BY <1>1, <2>1 DEF At, Counted, Holding, LoopOK, TypeOK, WorkerAt
<1>4. LoopOK'
  BY <1>1, <1>3 DEF LoopOK, TypeOK, ValidateScanConfig, ValidatePortRange
<1>5. At(Holding)' = At(Holding) /\ At(Counted)' = At(Counted)
  BY DEF At
<1>6. SlotsOK' /\ GroupOK'
  BY <1>1, <1>5 DEF SlotsOK, GroupOK, TypeOK
<1>7. MutexOK' /\ ResultsOK'
  BY DEF MutexOK, ResultsOK
<1> QED
  BY <1>2, <1>4, <1>6, <1>7

-----------------------------------------------------------------------------
(* The theorems                                                            *)

LEMMA WorkStep ==
  ASSUME IInv, NEW p \in DOMAIN worker, Work(p) PROVE IInv'
BY DialStep, LockStep, AppendReadsStep, AppendWritesStep, UnlockStep,
   ReleaseStep, DoneStep DEF Work

LEMMA NextIInv == IInv /\ [Next]_vars => IInv'
<1> SUFFICES ASSUME IInv, [Next]_vars PROVE IInv'
  OBVIOUS
<1>1. CASE Feed
  BY <1>1, RejectStep, ValidateStep, AcquireStep, StartStep, ReturnStep DEF Feed
<1>2. CASE \E p \in DOMAIN worker : Work(p)
  BY <1>2, WorkStep
<1>3. CASE UNCHANGED vars
  BY <1>3, SMTT(20) DEF vars, IInv, TypeOK, LoopOK, SlotsOK, GroupOK, MutexOK, ResultsOK,
              At, Scanning, Required, ValidateScanConfig, ValidatePortRange, Before
<1> QED
  BY <1>1, <1>2, <1>3 DEF Next

LEMMA InvariantHolds == Spec => []IInv
<1> QED
  BY InitIInv, NextIInv, PTL DEF Spec

(* Configuration, loop, goroutines, channel, wait group, mutex and results *)
(* keep their types; channel and wait group never count below zero.        *)
THEOREM ScanTypeCorrect == Spec => []TypeOK
<1>1. IInv => TypeOK
  BY DEF IInv
<1> QED
  BY <1>1, InvariantHolds, PTL

(* Whatever the order in which the goroutines run, Scan returns with every *)
(* port of every address reported exactly once and with no goroutine left. *)
THEOREM EveryPortIsReturnedOnce == Spec => []ReturnsEveryPortOnce
<1>1. IInv => ReturnsEveryPortOnce
  <2> SUFFICES ASSUME IInv, feeder.at = "returned" PROVE ReturnsEveryPortOnce
    BY DEF ReturnsEveryPortOnce
  <2>1. DOMAIN worker = Required /\ \A p \in Required : worker[p].at = "ended"
    BY DEF IInv, LoopOK, Scanning
  <2> QED
    BY <2>1 DEF IInv, ResultsOK, Reported, ReturnsEveryPortOnce
<1> QED
  BY <1>1, InvariantHolds, PTL

(* The connections open at once never exceed maxConcurrent.                *)
THEOREM ConnectionsAreBounded == Spec => []ConnectionsBounded
<1>1. IInv => ConnectionsBounded
  <2> SUFFICES ASSUME IInv, Dialing # {}
               PROVE  Cardinality(Dialing) <= config.maxConcurrent
    BY DEF ConnectionsBounded
  <2>0. Scanning
    BY DEF Dialing, IInv, LoopOK
  <2>1. Dialing \subseteq At(Holding)
    BY DEF Dialing, At, Holding
  <2>2. Cardinality(Dialing) <= Cardinality(At(Holding))
    BY <2>1, AtCounts, FS_Subset DEF IInv
  <2>3. /\ Cardinality(At(Holding)) \in Nat /\ Cardinality(Dialing) \in Nat
        /\ config.maxConcurrent \in Int
    BY <2>1, AtCounts, FS_Subset, FS_CardinalityType, ScanAssumption
    DEF IInv, TypeOK, ScanConfig
  <2> QED
    BY <2>0, <2>2, <2>3 DEF IInv, SlotsOK
<1> QED
  BY <1>1, InvariantHolds, PTL

(* No append overwrites another's report: results only grow.               *)
THEOREM ReportsAreKept == Spec => NoReportLost
<1> DEFINE Kept == /\ Len(results') >= Len(results)
                   /\ \A i \in DOMAIN results : results'[i] = results[i]
<1>1. IInv /\ [Next]_vars => [Kept]_vars
  <2> SUFFICES ASSUME IInv, [Next]_vars PROVE Kept
    OBVIOUS
  <2>1. Len(results) \in Nat
    BY DEF IInv, TypeOK
  <2>2. CASE UNCHANGED results
    BY <2>1, <2>2
  <2>3. CASE \E p \in DOMAIN worker : AppendWrites(p)
    <3> PICK p \in DOMAIN worker : AppendWrites(p)
      BY <2>3
    <3>1. results' = Append(results, p)
      BY AppendWritesStep
    <3>2. p \in Int \X Int /\ results \in Seq(Int \X Int)
      BY DEF IInv, TypeOK, Required, ScanConfig, PortNumbers
    <3> QED
      BY <2>1, <3>1, <3>2, AppendProperties
  <2> QED
    BY <2>2, <2>3 DEF Next, Feed, Work, Reject, Validate, Acquire, Start, Return,
       Dial, Lock, AppendReads, Unlock, Release, Done, vars
<1> QED
  BY <1>1, InvariantHolds, PTL DEF Spec, NoReportLost

-----------------------------------------------------------------------------
(* The end of a scan: some goroutine can always go on, and every step is   *)
(* one of finitely many that the scan has to take                          *)

(* What lets a goroutine go on: nothing, a free slot, an empty wait group  *)
(* or a free mutex.                                                        *)
CanFeed ==
  \/ feeder.at \in {"validate", "start"}
  \/ feeder.at = "acquire" /\ sem < config.maxConcurrent
  \/ feeder.at = "wait" /\ wg = 0

CanWork(p) ==
  \/ worker[p].at \in {"dial", "read", "write", "unlock", "release", "done"}
  \/ worker[p].at = "lock" /\ mu = NoProbe

NeverStuck ==
  feeder.at \notin {"returned", "rejected"} =>
    CanFeed \/ \E p \in DOMAIN worker : CanWork(p)

(* The mutex is free or some worker has it.                                *)
MutexHeld == mu = NoProbe \/ mu \in DOMAIN worker

LEMMA MutexHeldStays == IInv /\ MutexHeld /\ [Next]_vars => MutexHeld'
<1> SUFFICES ASSUME IInv, MutexHeld, [Next]_vars PROVE MutexHeld'
  OBVIOUS
<1> USE DEF MutexHeld
<1>1. CASE Validate
  BY <1>1 DEF Validate, IInv, LoopOK, Scanning
<1>2. CASE Reject \/ Acquire \/ Start \/ Return
  BY <1>2 DEF Reject, Acquire, Start, Return
<1>3. ASSUME NEW p \in DOMAIN worker, Work(p)
      PROVE  MutexHeld'
  <2>1. DOMAIN worker' = DOMAIN worker
    BY <1>3 DEF Work, Dial, Lock, AppendReads, AppendWrites, Unlock, Release, Done, Goes
  <2>2. mu' \in {mu, p, NoProbe}
    BY <1>3 DEF Work, Dial, Lock, AppendReads, AppendWrites, Unlock, Release, Done
  <2> QED
    BY <2>1, <2>2
<1>4. CASE UNCHANGED vars
  BY <1>4 DEF vars
<1> QED
  BY <1>1, <1>2, <1>3, <1>4 DEF Next, Feed

(* While Scan is under way the loop or a worker can go on: the slots a     *)
(* waiting loop wants, the wait group and the mutex are all in the hands   *)
(* of goroutines that need nothing else to give them back.                 *)
THEOREM ScanIsNeverStuck == Spec => []NeverStuck
<1>1. Init => MutexHeld
  BY DEF Init, MutexHeld
<1>2. IInv /\ MutexHeld => NeverStuck
  <2> SUFFICES ASSUME IInv, MutexHeld, feeder.at \notin {"returned", "rejected"},
                      \A p \in DOMAIN worker : ~CanWork(p)
               PROVE  CanFeed
    BY DEF NeverStuck
  <2>1. mu = NoProbe
    BY DEF MutexHeld, IInv, MutexOK, Critical, CanWork
  <2>2. \A p \in DOMAIN worker : worker[p].at \in {"unborn", "ended"}
    BY <2>1 DEF CanWork, IInv, TypeOK, WorkerAt
  <2>3. At(Holding) = {} /\ At(Counted) = {}
    BY <2>2 DEF At, Holding, Counted
  <2>4. wg = 0 /\ (feeder.at # "start" => sem = 0)
    BY <2>3, FS_EmptySet DEF IInv, GroupOK, SlotsOK
  <2>5. feeder.at = "acquire" => config.maxConcurrent > 0
    BY DEF IInv, LoopOK, Scanning, ValidateScanConfig
  <2>6. feeder.at \in FeederAt
    BY DEF IInv, TypeOK
  <2> QED
    BY <2>4, <2>5, <2>6 DEF CanFeed, FeederAt
<1> QED
  BY <1>1, <1>2, MutexHeldStays, InvariantHolds, PTL DEF Spec

(* A probe takes nine steps: its slot, its start and the seven of its      *)
(* goroutine.  Past(p) of them are done.                                   *)
Place(a) ==
  CASE a = "dial"    -> 2
    [] a = "lock"    -> 3
    [] a = "read"    -> 4
    [] a = "write"   -> 5
    [] a = "unlock"  -> 6
    [] a = "release" -> 7
    [] a = "done"    -> 8
    [] a = "ended"   -> 9

Past(p) ==
  IF worker[p].at # "unborn" THEN Place(worker[p].at)
  ELSE IF feeder.at = "start" /\ feeder.next = p THEN 1 ELSE 0

Todo == {x \in Required \X (1..9) : Past(x[1]) < x[2]}

(* Whoever runs takes one of the steps still to take; the loop returns     *)
(* when none is left.                                                      *)
WorksOff ==
  [][\/ feeder.at = "validate"
     \/ feeder.at = "wait" /\ feeder'.at = "returned" /\ Todo = {}
     \/ \E x \in Todo : Todo' = Todo \ {x}]_vars

LEMMA OneStepLess ==
  ASSUME NEW p \in Required, Past(p) \in 0..8, Past(p)' = Past(p) + 1,
         \A q \in Required : q # p => Past(q)' = Past(q),
         Required' = Required
  PROVE  \E x \in Todo : Todo' = Todo \ {x}
<1> DEFINE x == <<p, Past(p) + 1>>
<1>1. x \in Todo
  BY DEF Todo
<1>2. ASSUME NEW q \in Required, NEW n \in 1..9
      PROVE  <<q, n>> \in Todo' <=> <<q, n>> \in Todo /\ <<q, n>> # x
  <2>1. CASE q = p
    BY <2>1 DEF Todo
  <2>2. CASE q # p
    BY <2>2 DEF Todo
  <2> QED
    BY <2>1, <2>2
<1>3. Todo \subseteq Required \X (1..9) /\ Todo' \subseteq Required \X (1..9)
  BY DEF Todo
<1>4. ASSUME NEW y \in Required \X (1..9)
      PROVE  y \in Todo' <=> y \in Todo /\ y # x
  <2>1. y = <<y[1], y[2]>> /\ y[1] \in Required /\ y[2] \in 1..9
    OBVIOUS
  <2> QED
    BY <1>2, <2>1
<1>5. Todo' = Todo \ {x}
  BY <1>3, <1>4
<1> QED
  BY <1>1, <1>5

(* A goroutine goes one place on.                                          *)
LEMMA WorkTakesOneStep ==
  ASSUME IInv, NEW p \in DOMAIN worker, Work(p)
  PROVE  \E x \in Todo : Todo' = Todo \ {x}
<1>1. /\ Required' = Required /\ p \in Required
      /\ feeder' = feeder /\ DOMAIN worker = Required
  BY DEF Work, Dial, Lock, AppendReads, AppendWrites, Unlock, Release, Done,
         Required, IInv, TypeOK, LoopOK
<1>2. \E from, to \in WorkerAt :
        /\ Moves(p, from, to) /\ from # "unborn" /\ to # "unborn"
        /\ Place(from) \in 0..8 /\ Place(to) = Place(from) + 1
  <2> USE GoesMoves DEF IInv, WorkerAt, Place
  <2>1. CASE Dial(p)
    BY <2>1 DEF Dial
  <2>2. CASE Lock(p)
    BY <2>2 DEF Lock
  <2>3. CASE AppendReads(p)
    <3>1. Moves(p, "read", "write")
      BY <2>3 DEF AppendReads, Moves, TypeOK
    <3> QED
      BY <3>1
  <2>4. CASE AppendWrites(p)
    <3>1. Moves(p, "write", "unlock")
      BY <2>4 DEF AppendWrites, Moves, TypeOK
    <3> QED
      BY <3>1
  <2>5. CASE Unlock(p)
    BY <2>5 DEF Unlock
  <2>6. CASE Release(p)
    BY <2>6 DEF Release
  <2>7. CASE Done(p)
    BY <2>7 DEF Done
  <2> QED
    BY <2>1, <2>2, <2>3, <2>4, <2>5, <2>6, <2>7 DEF Work
<1>3. Past(p) \in 0..8 /\ Past(p)' = Past(p) + 1
  BY <1>2 DEF Past, Moves
<1>4. \A q \in Required : q # p => Past(q)' = Past(q)
  BY <1>1, <1>2 DEF Past, Moves
<1> QED
  BY <1>1, <1>3, <1>4, OneStepLess

(* So does the loop, for the probe it has come to.                         *)
LEMMA FeedTakesOneStep ==
  ASSUME IInv, Acquire \/ Start
  PROVE  \E x \in Todo : Todo' = Todo \ {x}
<1>1. /\ Required' = Required /\ feeder.next \in Required /\ DOMAIN worker = Required
      /\ feeder.at \in {"acquire", "start"}
  BY DEF Acquire, Start, Required, IInv, LoopOK, Scanning
<1> PICK p \in Required : p = feeder.next
  BY <1>1
<1>2. worker[p].at = "unborn"
  BY <1>1, LoopOrder DEF IInv, LoopOK
<1>3. CASE Acquire
  <2>1. /\ feeder'.at = "start" /\ feeder'.next = p /\ worker' = worker
        /\ feeder.at = "acquire" /\ feeder.next = p
    BY <1>3 DEF Acquire, IInv, TypeOK
  <2>2. Past(p) = 0 /\ Past(p)' = 1
    BY <1>2, <2>1 DEF Past
  <2>3. \A q \in Required : q # p => Past(q)' = Past(q)
    BY <2>1 DEF Past
  <2> QED
    BY <1>1, <2>2, <2>3, OneStepLess
<1>4. CASE Start
  <2>1. /\ feeder'.at # "start" /\ feeder.at = "start" /\ feeder.next = p
        /\ worker'[p].at = "dial"
        /\ \A q \in Required : q # p => worker'[q] = worker[q]
    BY <1>1, <1>4 DEF Start, IInv, TypeOK
  <2>2. Past(p) = 1 /\ Past(p)' = 2
    BY <1>2, <2>1 DEF Past, Place
  <2>3. \A q \in Required : q # p => Past(q)' = Past(q)
    BY <2>1 DEF Past
  <2> QED
    BY <1>1, <2>2, <2>3, OneStepLess
<1> QED
  BY <1>3, <1>4

(* A scan that is accepted takes nine steps per port and address and then  *)
(* returns: no step is repeated, undone or left out.  With the theorem     *)
(* before, it ends unless every goroutine that can go on is stopped.       *)
THEOREM ScanWorksOffItsSteps == Spec => WorksOff /\ [](IsFiniteSet(Todo))
<1> DEFINE OneLess == \/ feeder.at = "validate"
                      \/ feeder.at = "wait" /\ feeder'.at = "returned" /\ Todo = {}
                      \/ \E x \in Todo : Todo' = Todo \ {x}
<1>1. IInv /\ [Next]_vars => [OneLess]_vars
  <2> SUFFICES ASSUME IInv, Next PROVE OneLess
    OBVIOUS
  <2>1. CASE Reject \/ Validate
    BY <2>1 DEF Reject, Validate
  <2>2. CASE Acquire \/ Start
    BY <2>2, FeedTakesOneStep
  <2>3. CASE Return
    <3>1. \A p \in Required : worker[p].at = "ended"
      <4>1. At(Counted) = {}
        BY <2>3, AtCounts, FS_EmptySet DEF IInv, GroupOK, Return
      <4> QED
        BY <2>3, <4>1
        DEF At, Counted, Holding, IInv, LoopOK, Scanning, TypeOK, WorkerAt, Return
    <3>2. \A p \in Required : Past(p) = 9
      BY <3>1 DEF Past, Place
    <3>3. Todo = {}
      BY <3>2 DEF Todo
    <3> QED
      BY <2>3, <3>3 DEF Return, IInv, TypeOK
  <2>4. CASE \E p \in DOMAIN worker : Work(p)
    BY <2>4, WorkTakesOneStep
  <2> QED
    BY <2>1, <2>2, <2>3, <2>4 DEF Next, Feed
<1>2. IInv => IsFiniteSet(Todo)
  <2> SUFFICES ASSUME IInv PROVE IsFiniteSet(Todo)
    OBVIOUS
  <2>1. config.startPort \in Int /\ config.endPort \in Int /\ addresses \in Int
    BY ScanAssumption DEF IInv, TypeOK, ScanConfig, PortNumbers, MinimumPort
  <2>2. /\ IsFiniteSet(1..addresses) /\ IsFiniteSet(config.startPort..config.endPort)
        /\ IsFiniteSet(1..9)
    <3>1. IsFiniteSet(1..addresses) /\ IsFiniteSet(config.startPort..config.endPort)
      BY <2>1, FS_Interval
    <3>2. \A n \in Int : IsFiniteSet(1..n)
      BY FS_Interval
    <3>3. 9 \in Int
      OBVIOUS
    <3>4. IsFiniteSet(1..9)
      BY <3>2, <3>3, Zenon
    <3> QED
      BY <3>1, <3>4
  <2>3. IsFiniteSet(Required)
    BY <2>2, FS_Product DEF Required
  <2>4. IsFiniteSet(Required \X (1..9))
    BY <2>2, <2>3, FS_Product
  <2> QED
    BY <2>4, FS_Subset DEF Todo
<1>3. WorksOff <=> [][OneLess]_vars
  BY DEF WorksOff
<1> QED
  BY <1>1, <1>2, <1>3, InvariantHolds, PTL DEF Spec
=============================================================================
