-------------------------- MODULE ScanLeaseProofs --------------------------
(***************************************************************************)
(* Submissions.  The lease: one strand more at the POST of a scan takes a  *)
(* dispatch that outran its lease, whatever else fails.  Forgotten jobs:   *)
(* only a restart of the engine makes it forget a key or a poller fail a   *)
(* scan.  Second jobs: every further job of a scan takes a failure that    *)
(* makes the API submit again and, if the engine retains enough, a restart *)
(* that makes it forget the key; one restart can be both.                  *)
(***************************************************************************)
EXTENDS ScanDispatchProofs

(* Where a dispatcher has its lease, and where it may still submit.        *)
UnderLease == Dispatching \ {"claim"}
BeforePost == {"authorize", "attach", "post"}

(* The lease of strand h is in force.                                      *)
HoldsLease(h) == row[Scan(h)].lease = h /\ ~row[Scan(h)].expired

(* Strands that dispatch although their lease is not in force.             *)
Lost == {h \in Strands : strand[h].at \in UnderLease /\ ~HoldsLease(h)}

USE DEF UnderLease

-----------------------------------------------------------------------------
(* What a strand's step does to strands and leases                         *)

(* A strand that goes on with its scan, field by field.                    *)
LEMMA MovedFields ==
  ASSUME NEW h, NEW loc
  PROVE  /\ Moved(h, loc).at = loc /\ Moved(h, loc).scan = Scan(h)
         /\ \A r : [Moved(h, loc) EXCEPT !.rule = r].at = loc
                   /\ [Moved(h, loc) EXCEPT !.rule = r].scan = Scan(h)
         /\ \A c : [Moved(h, loc) EXCEPT !.code = c].at = loc
                   /\ [Moved(h, loc) EXCEPT !.code = c].scan = Scan(h)
         /\ \A i : [Moved(h, loc) EXCEPT !.scanner = i].at = loc
                   /\ [Moved(h, loc) EXCEPT !.scanner = i].scan = Scan(h)
                   /\ [Moved(h, loc) EXCEPT !.scanner = i].scanner = i
  BY DEF Moved, Idle

(* Strand h goes on at step loc with the scan it has.                      *)
GoesTo(h, loc) ==
  /\ strand'[h].at = loc /\ strand'[h].scan = Scan(h)
  /\ \A g \in Strands \ {h} : strand'[g] = strand[g]

LEMMA KeptScan ==
  ASSUME IInv, NEW h \in Strands, NEW loc, NEW x,
         \/ Continue(h, Moved(h, loc))
         \/ Continue(h, [Moved(h, loc) EXCEPT !.rule = x])
         \/ Continue(h, [Moved(h, loc) EXCEPT !.code = x])
         \/ Continue(h, [Moved(h, loc) EXCEPT !.scanner = x])
  PROVE  GoesTo(h, loc)
<1>1. ASSUME NEW w, w.at = loc, w.scan = Scan(h), Continue(h, w)
      PROVE  GoesTo(h, loc)
  BY <1>1 DEF GoesTo, Continue, IInv, TypeOK
<1>2. CASE Continue(h, Moved(h, loc))
  BY <1>1, <1>2, MovedFields
<1>3. CASE Continue(h, [Moved(h, loc) EXCEPT !.rule = x])
  <2> DEFINE w == [Moved(h, loc) EXCEPT !.rule = x]
  <2>1. w.at = loc /\ w.scan = Scan(h) /\ Continue(h, w)
    BY <1>3, MovedFields
  <2> HIDE DEF w
  <2> QED
    BY <1>1, <2>1
<1>4. CASE Continue(h, [Moved(h, loc) EXCEPT !.code = x])
  <2> DEFINE w == [Moved(h, loc) EXCEPT !.code = x]
  <2>1. w.at = loc /\ w.scan = Scan(h) /\ Continue(h, w)
    BY <1>4, MovedFields
  <2> HIDE DEF w
  <2> QED
    BY <1>1, <2>1
<1>5. CASE Continue(h, [Moved(h, loc) EXCEPT !.scanner = x])
  <2> DEFINE w == [Moved(h, loc) EXCEPT !.scanner = x]
  <2>1. w.at = loc /\ w.scan = Scan(h) /\ Continue(h, w)
    BY <1>5, MovedFields
  <2> HIDE DEF w
  <2> QED
    BY <1>1, <2>1
<1> QED
  BY <1>2, <1>3, <1>4, <1>5

LEMMA LoadedLeaves ==
  ASSUME NEW h, NEW s, NEW page
  PROVE  Loaded(h, s, page).at \notin UnderLease
<1>1. CASE row[s].status = "QUEUED" /\ row[s].scanner = NoId
  BY <1>1 DEF Loaded, Idle
<1>2. CASE row[s].status \in ActiveStatus /\ row[s].scanner # NoId
  BY <1>2 DEF Loaded, Idle, Dispatching
<1>3. CASE /\ ~(row[s].status = "QUEUED" /\ row[s].scanner = NoId)
           /\ ~(row[s].status \in ActiveStatus /\ row[s].scanner # NoId)
  BY <1>3 DEF Loaded, Idle, Dispatching
<1> QED
  BY <1>1, <1>2, <1>3

LEMMA ReturnedFields ==
  ASSUME NEW h
  PROVE  Returned(h).at \notin UnderLease /\ Returned(h).code = NoCode
<1>1. Idle(strand[h].page).at \notin UnderLease /\ Idle(strand[h].page).code = NoCode
  BY DEF Idle, Dispatching
<1>2. Moved(h, "reload").at \notin UnderLease /\ Moved(h, "reload").code = NoCode
  BY DEF Moved, Idle, Dispatching
<1> QED
  BY <1>1, <1>2 DEF Returned

LEMMA ReturnLeaves ==
  ASSUME IInv, NEW h \in Strands, Return(h)
  PROVE  /\ strand'[h].at \notin UnderLease
         /\ \A g \in Strands \ {h} : strand'[g] = strand[g]
BY ReturnedFields DEF Return, Continue, IInv, TypeOK

LEMMA FinishLeaves ==
  ASSUME IInv, NEW h \in Strands, Finish(h)
  PROVE  /\ strand'[h].at \notin UnderLease
         /\ \A g \in Strands \ {h} : strand'[g] = strand[g]
<1>1. Idle(strand[h].page).at \notin UnderLease
  BY DEF Idle, Dispatching
<1> QED
  BY <1>1 DEF Finish, Continue, IInv, TypeOK

(* A strand's step moves no other strand.                                  *)
LEMMA OthersStay ==
  ASSUME IInv, NEW h \in Strands, StrandStep(h)
  PROVE  \A g \in Strands \ {h} : strand'[g] = strand[g]
<1>1. ASSUME NEW w, Continue(h, w)
      PROVE  \A g \in Strands \ {h} : strand'[g] = strand[g]
  BY <1>1 DEF Continue, IInv, TypeOK
<1>2. CASE Return(h) \/ Finish(h)
  BY <1>2, ReturnLeaves, FinishLeaves
<1>3. CASE InsertQueued(h) \/ InsertBlocked(h)
  BY <1>1, <1>2, <1>3 DEF InsertQueued, InsertBlocked
<1>4. CASE Claim(h) \/ Authorize(h) \/ Attach(h)
  BY <1>1, <1>2, <1>4 DEF Claim, Authorize, Attach
<1>5. CASE Post(h)
  BY <1>1, <1>2, <1>5 DEF Post
<1>6. CASE MarkDispatched(h) \/ MarkUndispatched(h)
  BY <1>2, <1>6 DEF MarkDispatched, MarkUndispatched
<1>7. CASE Reload(h) \/ Get(h) \/ Fail(h) \/ Complete(h)
  BY <1>1, <1>2, <1>7 DEF Reload, Get, Fail, Complete
<1> QED
  BY <1>3, <1>4, <1>5, <1>6, <1>7 DEF StrandStep

(* A statement of strand h changes a row that is new, or whose lease is    *)
(* nobody's, has run out, or is its own; or it leaves the lease alone.     *)
LEMMA LeaseColumns ==
  ASSUME IInv, NEW h \in Strands, StrandStep(h)
  PROVE  \A s \in Scans :
           \/ row'[s] = row[s]
           \/ row'[s].lease = row[s].lease /\ row'[s].expired = row[s].expired
           \/ row[s].lease \in {h, NoStrand} \/ row[s].expired
<1>1. row \in [Scans -> ScanJob]
  BY DEF IInv, TypeOK, RecordsTypeOK
<1>2. CASE row' = row
  BY <1>2
<1>3. ASSUME NEW t, NEW j, row' = [row EXCEPT ![t] = j],
             t \in Scans =>
               \/ row[t].lease \in {h, NoStrand} \/ row[t].expired
               \/ j.lease = row[t].lease /\ j.expired = row[t].expired
      PROVE  \A s \in Scans :
               \/ row'[s] = row[s]
               \/ row'[s].lease = row[s].lease /\ row'[s].expired = row[s].expired
               \/ row[s].lease \in {h, NoStrand} \/ row[s].expired
  BY <1>1, <1>3
<1>4. \A t \in Scans : row[t].status = "NONE" => row[t].lease = NoStrand
  BY DEF IInv, RowsOK, RowOK, RowShape, NoRow
<1>5. CASE InsertQueued(h) \/ InsertBlocked(h)
  <2>1. row' = row \/ \E t \in Scans : \E j : row[t].status = "NONE" /\ row' = [row EXCEPT ![t] = j]
    BY <1>5 DEF InsertQueued, InsertBlocked, insertQueuedScan, insertBlockedScan, NextScan, records
  <2> QED
    BY <1>2, <1>3, <1>4, <2>1
<1>6. CASE Claim(h)
  <2>1. row' = row \/ \E j : Claimable(Scan(h)) /\ row' = [row EXCEPT ![Scan(h)] = j]
    BY <1>6 DEF Claim, claimScanDispatch, records
  <2> QED
    BY <1>2, <1>3, <2>1 DEF Claimable
<1>7. CASE Attach(h) \/ MarkDispatched(h) \/ MarkUndispatched(h)
  <2>1. row' = row \/ \E j : Leased(Scan(h), h) /\ row' = [row EXCEPT ![Scan(h)] = j]
    BY <1>7 DEF Attach, attachAllowedTargetToDispatch, MarkDispatched, markScanDispatched,
                MarkUndispatched, markScanDispatchFailed, records
  <2> QED
    BY <1>2, <1>3, <2>1, SMTT(20) DEF Leased
<1>8. CASE Fail(h) \/ Complete(h)
  <2>1. Scan(h) \in Scans /\ row[Scan(h)].scanner # NoId
    BY <1>8, AtStep DEF Fail, Complete, At, Polling, WorkOK, Scan
  <2>2. Scan(h) \in ActiveScans => row[Scan(h)].lease = NoStrand
    BY <2>1, RunningRow DEF IInv, TypeOK
  <2>3. row' = row \/ \E j : Scan(h) \in ActiveScans /\ row' = [row EXCEPT ![Scan(h)] = j]
    BY <1>8 DEF Fail, markScanSynchronizationFailed, Complete, CompleteScanJob, records
  <2> QED
    BY <1>2, <1>3, <2>2, <2>3
<1>9. CASE Authorize(h) \/ Post(h) \/ Reload(h) \/ Get(h)
  BY <1>2, <1>9 DEF Authorize, Post, Reload, Get
<1> QED
  BY <1>5, <1>6, <1>7, <1>8, <1>9 DEF StrandStep

(* So another strand's lease in force stays so.                            *)
LEMMA OthersKeepTheirs ==
  ASSUME IInv, NEW h \in Strands, StrandStep(h), NEW g \in Strands \ {h},
         Scan(g) \in Scans, HoldsLease(g)
  PROVE  HoldsLease(g)'
<1>1. strand'[g] = strand[g]
  BY OthersStay
<1>2. row[Scan(g)].lease = g /\ ~row[Scan(g)].expired /\ g # NoStrand
  BY RecordsAssumption DEF HoldsLease, RecordsAssumption
<1> QED
  BY <1>1, <1>2, LeaseColumns DEF HoldsLease, Scan

(* A set within a finite one and one element more.                         *)
LEMMA OneMoreElement ==
  ASSUME NEW S, IsFiniteSet(S), NEW x, NEW T, T \subseteq S \cup {x}
  PROVE  IsFiniteSet(T) /\ Cardinality(T) \in Nat /\ Cardinality(T) <= Cardinality(S) + 1
<1>1. Cardinality(S) \in Nat
  BY FS_CardinalityType
<1>2. /\ IsFiniteSet(S \cup {x}) /\ Cardinality(S \cup {x}) \in Nat
      /\ Cardinality(S \cup {x}) <= Cardinality(S) + 1
  BY <1>1, FS_AddElement
<1>3. IsFiniteSet(T) /\ Cardinality(T) \in Nat /\ Cardinality(T) <= Cardinality(S \cup {x})
  BY <1>2, FS_Subset, FS_CardinalityType
<1> QED
  BY <1>1, <1>2, <1>3

(* A strand under a lease has just claimed, or goes on under the lease it  *)
(* had, and no step leads back to the POST.                                *)
LEMMA WayOfADispatch ==
  ASSUME IInv, NEW h \in Strands, StrandStep(h), strand'[h].at \in UnderLease
  PROVE  \/ HoldsLease(h)'
         \/ /\ strand[h].at \in UnderLease /\ strand'[h].scan = Scan(h)
            /\ row'[Scan(h)].lease = row[Scan(h)].lease
            /\ row'[Scan(h)].expired = row[Scan(h)].expired
            /\ strand'[h].at \in BeforePost => strand[h].at \in BeforePost
<1>1. ~Return(h) /\ ~Finish(h)
  BY ReturnLeaves, FinishLeaves
<1>2. row \in [Scans -> ScanJob]
  BY DEF IInv, TypeOK, RecordsTypeOK
<1>3. ASSUME NEW w, w.at \notin UnderLease, Continue(h, w) PROVE FALSE
  BY <1>3 DEF Continue, IInv, TypeOK
<1>4. CASE Claim(h)
  <2>1. Scan(h) \in Scans
    BY <1>4, AtStep DEF Claim, At, Dispatching
  <2>2. /\ Continue(h, Moved(h, "authorize"))
        /\ row' = [row EXCEPT ![Scan(h)].lease = h, ![Scan(h)].expired = FALSE]
    BY <1>1, <1>4 DEF Claim, claimScanDispatch
  <2>3. strand'[h].scan = Scan(h)
    BY <2>2, KeptScan DEF GoesTo
  <2>4. row'[Scan(h)].lease = h /\ ~row'[Scan(h)].expired
    BY <1>2, <2>1, <2>2 DEF ScanJob
  <2> QED
    BY <2>3, <2>4 DEF HoldsLease, Scan
<1>5. CASE Authorize(h)
  <2>1. strand[h].at = "authorize" /\ row' = row
    BY <1>5 DEF Authorize, At
  <2>2. strand'[h].scan = Scan(h)
    BY <1>5, KeptScan DEF Authorize, GoesTo
  <2> QED
    BY <2>1, <2>2 DEF BeforePost, Dispatching
<1>6. CASE Attach(h)
  <2>1. strand[h].at = "attach" /\ Scan(h) \in Scans
    BY <1>6, AtStep DEF Attach, At, Dispatching
  <2>2. strand'[h].scan = Scan(h)
    BY <1>6, KeptScan DEF Attach, GoesTo
  <2>3. row' = row \/ row' = [row EXCEPT ![Scan(h)].rule = strand[h].rule]
    BY <1>6 DEF Attach, attachAllowedTargetToDispatch, records
  <2>4. /\ row'[Scan(h)].lease = row[Scan(h)].lease
        /\ row'[Scan(h)].expired = row[Scan(h)].expired
    BY <1>2, <2>1, <2>3 DEF ScanJob
  <2> QED
    BY <2>1, <2>2, <2>4 DEF BeforePost, Dispatching
<1>7. CASE Post(h)
  <2>1. strand[h].at = "post" /\ row' = row
    BY <1>7 DEF Post, At
  <2>2. strand'[h].scan = Scan(h)
    BY <1>1, <1>7, KeptScan DEF Post, GoesTo
  <2> QED
    BY <2>1, <2>2 DEF BeforePost, Dispatching
<1>8. ~InsertQueued(h)
  <2>1. \A s : [Idle(<<>>) EXCEPT !.at = "claim", !.scan = s].at \notin UnderLease
    BY DEF Idle
  <2> QED
    BY <1>1, <1>3, <2>1 DEF InsertQueued
<1>9. ~Reload(h)
  <2>1. \A i : [Moved(h, "get") EXCEPT !.then = "return", !.scanner = i].at \notin UnderLease
    BY DEF Moved, Idle, Dispatching
  <2> QED
    BY <1>1, <1>3, <2>1 DEF Reload
<1>10. ~Get(h)
  <2>1. /\ \A c : [Moved(h, "fail") EXCEPT !.code = c].at \notin UnderLease
        /\ Moved(h, "complete").at \notin UnderLease
    BY MovedFields DEF Dispatching
  <2> QED
    BY <1>1, <1>3, <2>1 DEF Get, Answered, Finish
<1> QED
  BY <1>1, <1>4, <1>5, <1>6, <1>7, <1>8, <1>9, <1>10
  DEF StrandStep, InsertBlocked, MarkDispatched, MarkUndispatched, Fail, Complete

-----------------------------------------------------------------------------
(* What a failure does to strands and to the counts                        *)

(* An unreadable answer is recorded.                                       *)
LEMMA UnreadableFields ==
  ASSUME NEW h
  PROVE  /\ Unreadable(h).code = "INTERNAL_ERROR" /\ Unreadable(h).scan = Scan(h)
         /\ Unreadable(h).at = IF At(h, "get") THEN "fail" ELSE "undispatched"
BY DEF Unreadable, Moved, Idle

(* A failure leaves a strand where it is, ends its dispatch, or has it     *)
(* record an unreadable answer.                                            *)
LEMMA FailureMoves ==
  ASSUME IInv, Failure, NEW h \in Strands
  PROVE  \/ strand'[h] = strand[h]
         \/ /\ strand'[h].code # "SCAN_NOT_FOUND"
            /\ \/ strand'[h].at \notin UnderLease
               \/ /\ strand[h].at = "dispatched"
                  /\ strand'[h].at = "undispatched" /\ strand'[h].scan = Scan(h)
<1> DEFINE Fine(w) ==
      \/ w = strand[h]
      \/ /\ w.code # "SCAN_NOT_FOUND"
         /\ \/ w.at \notin UnderLease
            \/ strand[h].at = "dispatched" /\ w.at = "undispatched" /\ w.scan = Scan(h)
<1>1. /\ Fine(strand[h]) /\ Fine(Returned(h))
      /\ \A page : Fine(Idle(page))
      /\ At(h, "dispatched") \/ At(h, "get") => Fine(Unreadable(h))
  <2>1. \A page : Idle(page).at \notin UnderLease /\ Idle(page).code = NoCode
    BY DEF Idle, Dispatching
  <2>2. At(h, "dispatched") \/ At(h, "get") => Fine(Unreadable(h))
    BY UnreadableFields DEF At, Dispatching
  <2> QED
    BY <2>1, <2>2, ReturnedFields DEF NoCode
<1> SUFFICES Fine(strand'[h])
  OBVIOUS
<1> HIDE DEF Fine
<1>2. ASSUME NEW g \in Strands, NEW w, Continue(g, w), g = h => Fine(w)
      PROVE  Fine(strand'[h])
  <2>1. strand'[h] = IF g = h THEN w ELSE strand[h]
    BY <1>2 DEF Continue, IInv, TypeOK
  <2> QED
    BY <1>1, <1>2, <2>1
<1>3. ASSUME NEW g \in Strands,
             PostUnanswered(g) \/ AnswerLost(g) \/ StatusUnreadable(g) \/ GiveUp(g)
      PROVE  Fine(strand'[h])
  <2>1. CASE Return(g) \/ Finish(g)
    BY <1>1, <1>2, <2>1 DEF Return, Finish
  <2>2. CASE Continue(g, Unreadable(g)) /\ (At(g, "dispatched") \/ At(g, "get"))
    BY <1>1, <1>2, <2>2
  <2> QED
    BY <1>3, <2>1, <2>2 DEF PostUnanswered, AnswerLost, StatusUnreadable, GiveUp
<1>4. CASE ApiCrash
  BY <1>1, <1>4 DEF ApiCrash
<1>5. CASE ScannerRestart
  <2>1. PICK cut \in SUBSET Exchanging,
             halved \in SUBSET (Exchanging \ {g \in Strands : At(g, "post")}) :
          /\ strand' = [g \in Strands |-> CASE g \in cut    -> Returned(g)
                                            [] g \in halved -> Unreadable(g)
                                            [] OTHER        -> strand[g]]
          /\ cut \cap halved = {}
    BY <1>5 DEF ScannerRestart
  <2>2. CASE h \in cut
    <3>1. strand'[h] = Returned(h)
      BY <2>1, <2>2
    <3> QED
      BY <1>1, <3>1
  <2>3. CASE h \in halved /\ h \notin cut
    <3>1. strand'[h] = Unreadable(h)
      BY <2>1, <2>3
    <3> QED
      BY <1>1, <2>3, <3>1 DEF Exchanging, At
  <2>4. CASE h \notin cut \cup halved
    BY <1>1, <2>1, <2>4
  <2> QED
    BY <2>2, <2>3, <2>4
<1> QED
  BY <1>1, <1>3, <1>4, <1>5 DEF Failure, LeaseOverrun

(* A restart is counted as one that cut off the answer to an accepted      *)
(* submission, unless it left every strand alone that had such an answer.  *)
LEMMA RestartKinds ==
  ASSUME ScannerRestart
  PROVE  \/ Fault("cut")
         \/ /\ Fault("restart")
            /\ \A h \in Strands : strand[h].at = "dispatched" => strand'[h] = strand[h]
<1>1. PICK cut \in SUBSET Exchanging,
           halved \in SUBSET (Exchanging \ {g \in Strands : At(g, "post")}) :
        /\ Fault(IF \E h \in cut \cup halved : At(h, "dispatched") THEN "cut" ELSE "restart")
        /\ strand' = [g \in Strands |-> CASE g \in cut    -> Returned(g)
                                          [] g \in halved -> Unreadable(g)
                                          [] OTHER        -> strand[g]]
  BY DEF ScannerRestart
<1>2. CASE \E h \in cut \cup halved : At(h, "dispatched")
  BY <1>1, <1>2
<1>3. CASE ~\E h \in cut \cup halved : At(h, "dispatched")
  <2>1. Fault("restart")
    BY <1>1, <1>3
  <2>2. ASSUME NEW h \in Strands, strand[h].at = "dispatched"
        PROVE  strand'[h] = strand[h]
    <3>1. h \notin cut /\ h \notin halved
      BY <1>3, <2>2 DEF At
    <3> QED
      BY <1>1, <3>1
  <2> QED
    BY <2>1, <2>2
<1> QED
  BY <1>2, <1>3

LEMMA FaultCounts ==
  ASSUME IInv
  PROVE  /\ \A kind \in FaultKind : faults[kind] \in Nat
         /\ Losses \in Nat /\ Restarts \in Nat
         /\ \A kind \in FaultKind : Fault(kind) =>
              /\ faults'["overrun"] = faults["overrun"] + (IF kind = "overrun" THEN 1 ELSE 0)
              /\ Losses' = Losses + (IF kind = "restart" THEN 0 ELSE 1)
              /\ Restarts' = Restarts + (IF kind \in {"restart", "cut"} THEN 1 ELSE 0)
<1>1. faults \in [FaultKind -> Nat]
  BY DispatchAssumption DEF IInv, TypeOK, DispatchAssumption
<1>2. Losses \in Nat /\ Restarts \in Nat
  BY <1>1 DEF Losses, Restarts, FaultKind
<1>3. ASSUME NEW kind \in FaultKind, Fault(kind)
      PROVE  /\ faults'["overrun"] = faults["overrun"] + (IF kind = "overrun" THEN 1 ELSE 0)
             /\ Losses' = Losses + (IF kind = "restart" THEN 0 ELSE 1)
             /\ Restarts' = Restarts + (IF kind \in {"restart", "cut"} THEN 1 ELSE 0)
  <2>1. faults' = [faults EXCEPT ![kind] = @ + 1]
    BY <1>3 DEF Fault
  <2>2. /\ faults'["overrun"] = faults["overrun"] + (IF kind = "overrun" THEN 1 ELSE 0)
        /\ faults'["restart"] = faults["restart"] + (IF kind = "restart" THEN 1 ELSE 0)
        /\ faults'["cut"] = faults["cut"] + (IF kind = "cut" THEN 1 ELSE 0)
        /\ faults'["other"] = faults["other"] + (IF kind = "other" THEN 1 ELSE 0)
    BY <1>1, <2>1 DEF FaultKind
  <2>3. /\ faults["overrun"] \in Nat /\ faults["restart"] \in Nat
        /\ faults["cut"] \in Nat /\ faults["other"] \in Nat
    BY <1>1 DEF FaultKind
  <2> QED
    BY <2>2, <2>3 DEF Losses, Restarts, FaultKind
<1> QED
  BY <1>1, <1>2, <1>3

(* What a failure adds to the counts.                                      *)
LEMMA FailureCounts ==
  ASSUME IInv, Failure
  PROVE  /\ faults'["overrun"] >= faults["overrun"]
         /\ Losses' = Losses + 1 \/ Losses' = Losses
         /\ Restarts' = Restarts + 1 \/ Restarts' = Restarts
         /\ \A s \in Scans : LeaseOverrun(s) => faults'["overrun"] = faults["overrun"] + 1
         /\ ScannerRestart => Restarts' = Restarts + 1
         /\ \/ Losses' = Losses + 1
            \/ /\ ScannerRestart
               /\ \A h \in Strands : strand[h].at = "dispatched" => strand'[h] = strand[h]
<1>1. PICK kind \in FaultKind : Fault(kind)
  BY RestartKinds
  DEF Failure, LeaseOverrun, PostUnanswered, AnswerLost, StatusUnreadable, GiveUp, ApiCrash,
      FaultKind
<1>2. /\ faults["overrun"] \in Nat /\ Losses \in Nat /\ Restarts \in Nat
      /\ Fault("overrun") => faults'["overrun"] = faults["overrun"] + 1
      /\ Fault("restart") => Restarts' = Restarts + 1
      /\ Fault("cut") => Restarts' = Restarts + 1 /\ Losses' = Losses + 1
      /\ Fault("overrun") \/ Fault("other") => Losses' = Losses + 1
  BY FaultCounts DEF FaultKind
<1>3. /\ faults'["overrun"] >= faults["overrun"]
      /\ Losses' = Losses + 1 \/ Losses' = Losses
      /\ Restarts' = Restarts + 1 \/ Restarts' = Restarts
  BY <1>1, <1>2, FaultCounts
<1>4. ScannerRestart \/ Fault("overrun") \/ Fault("other")
  BY DEF Failure, LeaseOverrun, PostUnanswered, AnswerLost, StatusUnreadable, GiveUp, ApiCrash
<1> QED
  BY <1>2, <1>3, <1>4, RestartKinds DEF LeaseOverrun

(* Nothing but a failure is counted, and what is counted never falls.      *)
LEMMA OnlyFailuresCount ==
  ASSUME IInv, [Next]_vars
  PROVE  /\ ~Failure => faults' = faults
         /\ faults'["overrun"] >= faults["overrun"]
         /\ Losses' >= Losses /\ Restarts' >= Restarts
<1>1. ~Failure => faults' = faults
  <2>1. ASSUME NEW h \in Strands, StrandStep(h) PROVE faults' = faults
    BY <2>1 DEF StrandStep, InsertQueued, InsertBlocked, Claim, Authorize, Attach, Post,
                MarkDispatched, MarkUndispatched, Reload, Get, Fail, Complete
  <2> QED
    BY <2>1 DEF Next, vars, ReceiveCreate, Poll, ReconcilerLoads, ReconcilerPolls, RunScan,
                HandleOrphan, AbandonedLeaseExpires, Administrate
<1>2. /\ faults["overrun"] \in Nat /\ Losses \in Nat /\ Restarts \in Nat
  BY FaultCounts DEF FaultKind
<1>3. CASE faults' = faults
  BY <1>2, <1>3 DEF Losses, Restarts
<1>4. CASE Failure
  BY <1>1, <1>2, <1>4, FailureCounts
<1> QED
  BY <1>1, <1>3, <1>4, Zenon

-----------------------------------------------------------------------------
(* The lease                                                               *)

LEMMA StrandsLoseNone ==
  ASSUME IInv, NEW h \in Strands, StrandStep(h)
  PROVE  Lost' \subseteq Lost
<1> SUFFICES ASSUME NEW g \in Strands, strand'[g].at \in UnderLease, ~HoldsLease(g)'
             PROVE  strand[g].at \in UnderLease /\ ~HoldsLease(g)
  BY DEF Lost
<1>1. CASE g # h
  <2>1. strand'[g] = strand[g]
    BY <1>1, OthersStay
  <2>2. Scan(g) \in Scans
    BY <2>1, AtStep
  <2> QED
    BY <1>1, <2>1, <2>2, OthersKeepTheirs
<1>2. CASE g = h
  BY <1>2, WayOfADispatch DEF HoldsLease, Scan
<1> QED
  BY <1>1, <1>2

(* As long as no row is written, a strand loses its lease only by dying.   *)
LEMMA QuietLost ==
  ASSUME UNCHANGED row,
         \A g \in Strands :
           \/ strand'[g] = strand[g]
           \/ strand'[g].at \notin UnderLease
           \/ strand[g].at \in UnderLease /\ strand'[g].scan = Scan(g)
  PROVE  Lost' \subseteq Lost
  BY DEF Lost, HoldsLease, Scan

LEMMA RequestsLoseNone ==
  ASSUME IInv,
         \/ \E h \in Strands, o \in Owners : ReceiveCreate(h, o)
         \/ \E h \in Strands, s \in Scans : Poll(h, s)
         \/ ReconcilerLoads \/ ReconcilerPolls
  PROVE  Lost' \subseteq Lost
<1>1. ASSUME NEW h \in Strands, NEW w, w.at \notin UnderLease, Continue(h, w), UNCHANGED row
      PROVE  Lost' \subseteq Lost
  <2>1. \A g \in Strands : strand'[g] = strand[g] \/ strand'[g].at \notin UnderLease
    BY <1>1 DEF Continue, IInv, TypeOK
  <2> QED
    BY <1>1, <2>1, QuietLost, Zenon
<1>2. ASSUME NEW h \in Strands, NEW o \in Owners, ReceiveCreate(h, o)
      PROVE  Lost' \subseteq Lost
  <2>1. PICK r : \/ Continue(h, [Idle(<<>>) EXCEPT !.at = "insert", !.owner = o, !.rule = r])
                 \/ Continue(h, [Idle(<<>>) EXCEPT !.at = "deny", !.owner = o, !.rule = r])
    BY <1>2 DEF ReceiveCreate
  <2> DEFINE w(loc) == [Idle(<<>>) EXCEPT !.at = loc, !.owner = o, !.rule = r]
  <2>2. \A loc : w(loc).at = loc
    BY DEF Idle
  <2>3. Continue(h, w("insert")) \/ Continue(h, w("deny"))
    BY <2>1
  <2> HIDE DEF w
  <2>4. PICK v : v.at \notin UnderLease /\ Continue(h, v)
    BY <2>2, <2>3, SMTT(20) DEF Dispatching
  <2> QED
    BY <1>1, <1>2, <2>4, ZenonT(40) DEF ReceiveCreate
<1>3. ASSUME NEW h \in Strands, NEW s \in Scans, Poll(h, s)
      PROVE  Lost' \subseteq Lost
  BY <1>1, <1>3, LoadedLeaves DEF Poll
<1>4. CASE ReconcilerLoads \/ ReconcilerPolls
  <2>1. \A page : Idle(page).at \notin UnderLease
    BY DEF Idle, Dispatching
  <2> QED
    BY <1>1, <1>4, <2>1, LoadedLeaves, DispatchAssumption
    DEF ReconcilerLoads, ReconcilerPolls, DispatchAssumption
<1> QED
  BY <1>2, <1>3, <1>4

(* A lease that runs out takes from the one strand it names, if any.       *)
LEMMA ExpiryLoses ==
  ASSUME IInv, NEW s \in Scans, LeaseExpires(s), UNCHANGED strand
  PROVE  /\ Lost' \subseteq Lost \cup {row[s].lease}
         /\ ~Held(s) => Lost' \subseteq Lost
<1>1. /\ row'[s].lease = row[s].lease /\ \A t \in Scans \ {s} : row'[t] = row[t]
  BY DEF LeaseExpires, IInv, TypeOK, RecordsTypeOK, ScanJob
<1>2. ASSUME NEW g \in Lost', g \notin Lost
      PROVE  g \in Strands /\ strand[g].at \in UnderLease /\ Scan(g) = s /\ row[s].lease = g
  <2>1. g \in Strands /\ strand[g].at \in UnderLease /\ ~HoldsLease(g)' /\ HoldsLease(g)
    BY <1>2 DEF Lost
  <2>2. Scan(g) \in Scans
    BY <2>1, AtStep
  <2> QED
    BY <1>1, <2>1, <2>2 DEF HoldsLease, Scan
<1> QED
  BY <1>2 DEF Held

(* Only a dispatch that outruns its lease is under way without one.        *)
LEMMA NextLoses ==
  ASSUME IInv, [Next]_vars
  PROVE  \/ Lost' \subseteq Lost
         \/ \E s \in Scans : LeaseOverrun(s) /\ Lost' \subseteq Lost \cup {row[s].lease}
<1>1. ASSUME UNCHANGED <<row, strand>> PROVE Lost' \subseteq Lost
  BY <1>1 DEF Lost, HoldsLease, Scan
<1>2. ASSUME NEW i \in Ids, RunScan(i) PROVE Lost' \subseteq Lost
  BY <1>1, <1>2 DEF RunScan
<1>3. ASSUME NEW s \in Scans, HandleOrphan(s) PROVE Lost' \subseteq Lost
  BY <1>1, <1>3 DEF HandleOrphan
<1>4. ASSUME NEW r \in Rules, Administrate(r) PROVE Lost' \subseteq Lost
  BY <1>1, <1>4 DEF Administrate, insertAllowedTarget, disableAllowedTarget
<1>5. ASSUME NEW s \in Scans, AbandonedLeaseExpires(s) PROVE Lost' \subseteq Lost
  BY <1>5, ExpiryLoses DEF AbandonedLeaseExpires
<1>6. ASSUME NEW s \in Scans, LeaseOverrun(s) PROVE Lost' \subseteq Lost \cup {row[s].lease}
  BY <1>6, ExpiryLoses DEF LeaseOverrun
<1>7. CASE Failure /\ \A s \in Scans : ~LeaseOverrun(s)
  <2>1. row' = row
    BY <1>7
    DEF Failure, PostUnanswered, AnswerLost, StatusUnreadable, GiveUp, ApiCrash, ScannerRestart
  <2>2. \A g \in Strands :
          \/ strand'[g] = strand[g]
          \/ strand'[g].at \notin UnderLease
          \/ strand[g].at \in UnderLease /\ strand'[g].scan = Scan(g)
    BY <1>7, FailureMoves DEF Dispatching
  <2> QED
    BY <2>1, <2>2, QuietLost
<1>8. CASE UNCHANGED vars
  BY <1>1, <1>8 DEF vars
<1> QED
  BY <1>2, <1>3, <1>4, <1>5, <1>6, <1>7, <1>8, StrandsLoseNone, RequestsLoseNone
  DEF Next, Failure

(* Every strand that is under way without its lease had a dispatch outrun  *)
(* that lease.                                                             *)
LostToOverruns == Cardinality(Lost) <= faults["overrun"]

LEMMA NextKeepsAccountOfLost ==
  ASSUME IInv, LostToOverruns, [Next]_vars
  PROVE  LostToOverruns'
<1>1. IsFiniteSet(Lost) /\ Cardinality(Lost) \in Nat /\ faults["overrun"] \in Nat
  BY DispatchAssumption, FaultCounts, FS_Subset, FS_CardinalityType
  DEF DispatchAssumption, Lost, FaultKind
<1>2. CASE Lost' \subseteq Lost
  <2>1. Cardinality(Lost') \in Nat /\ Cardinality(Lost') <= Cardinality(Lost)
    BY <1>1, <1>2, FS_Subset, FS_CardinalityType
  <2>2. faults'["overrun"] >= faults["overrun"] /\ faults'["overrun"] \in Int
    <3>1. faults'["overrun"] \in Int
      BY <1>1, NextIInv DEF IInv, TypeOK, FaultKind
    <3> QED
      BY <3>1, OnlyFailuresCount
  <2> QED
    BY <1>1, <2>1, <2>2 DEF LostToOverruns
<1>3. ASSUME NEW s \in Scans, LeaseOverrun(s), Lost' \subseteq Lost \cup {row[s].lease}
      PROVE  LostToOverruns'
  <2>1. faults'["overrun"] = faults["overrun"] + 1
    BY <1>3, FailureCounts DEF Failure
  <2>2. Cardinality(Lost') \in Nat /\ Cardinality(Lost') <= Cardinality(Lost) + 1
    BY <1>1, <1>3, OneMoreElement
  <2> QED
    BY <1>1, <2>1, <2>2 DEF LostToOverruns
<1> QED
  BY <1>2, <1>3, NextLoses

(* Two strands stand at the POST of one scan only if a dispatch outran its *)
(* lease, and each further one takes another such dispatch: claimScanDispatch *)
(* lets one dispatcher in at a time, although dispatchers give up, crash,  *)
(* lose their answers and are followed by others.                          *)
THEOREM LeaseExcludes == Spec => []OneDispatcherPerLease
<1>1. Init => LostToOverruns
  <2> SUFFICES ASSUME Init PROVE LostToOverruns
    OBVIOUS
  <2>1. Lost = {}
    BY DEF Init, Lost, Idle, Dispatching
  <2> QED
    BY <2>1, FS_EmptySet DEF Init, LostToOverruns, FaultKind
<1>2. IInv /\ LostToOverruns /\ [Next]_vars => LostToOverruns'
  BY NextKeepsAccountOfLost
<1>3. IInv /\ LostToOverruns => OneDispatcherPerLease
  <2> SUFFICES ASSUME IInv, LostToOverruns, NEW s \in Scans
               PROVE  Cardinality({h \in Strands : At(h, "post") /\ Scan(h) = s})
                        <= 1 + faults["overrun"]
    BY DEF OneDispatcherPerLease
  <2> DEFINE P == {h \in Strands : At(h, "post") /\ Scan(h) = s}
  <2>1. P \subseteq Lost \cup {row[s].lease}
    BY DEF Lost, HoldsLease, At, Dispatching
  <2>2. IsFiniteSet(Lost) /\ Cardinality(Lost) \in Nat /\ faults["overrun"] \in Nat
    BY DispatchAssumption, FaultCounts, FS_Subset, FS_CardinalityType
    DEF DispatchAssumption, Lost, FaultKind
  <2> HIDE DEF P
  <2>3. Cardinality(P) \in Nat /\ Cardinality(P) <= Cardinality(Lost) + 1
    BY <2>1, <2>2, OneMoreElement
  <2> QED
    BY <2>2, <2>3 DEF LostToOverruns, P
<1> QED
  BY <1>1, <1>2, <1>3, Invariance, PTL DEF Spec

-----------------------------------------------------------------------------
(* What a restart of the engine loses, and nothing else does               *)

(* Besides restarts, the engine's store changes when a submission arrives  *)
(* and when a scan goes on.                                                *)
LEMMA EngineMoves ==
  ASSUME IInv, [Next]_vars
  PROVE  \/ ScannerRestart
         \/ UNCHANGED engine
         \/ \E s \in Scans, id \in Ids : ScannerAccepts(s, id)
         \/ \E s \in Scans : Go!admitRefused(s)
         \/ \E i \in Ids : RunScan(i)
<1>1. ASSUME NEW h \in Strands, Post(h) PROVE Scan(h) \in Scans
  BY <1>1, AtStep DEF Post, At, Dispatching
<1>2. ASSUME NEW h \in Strands, StrandStep(h), ~Post(h) PROVE UNCHANGED engine
  BY <1>2
  DEF StrandStep, InsertQueued, InsertBlocked, Claim, Authorize, Attach, MarkDispatched,
      MarkUndispatched, Reload, Get, Fail, Complete
<1>3. CASE Failure
  BY <1>3
  DEF Failure, LeaseOverrun, PostUnanswered, AnswerLost, StatusUnreadable, GiveUp, ApiCrash
<1>4. ASSUME NEW h \in Strands, Post(h)
      PROVE  \/ UNCHANGED engine
             \/ \E s \in Scans, id \in Ids : ScannerAccepts(s, id)
             \/ \E s \in Scans : Go!admitRefused(s)
  BY <1>1, <1>4 DEF Post
<1> QED
  BY <1>2, <1>3, <1>4
  DEF Next, vars, engine, ReceiveCreate, Poll, ReconcilerLoads, ReconcilerPolls, HandleOrphan,
      AbandonedLeaseExpires, Administrate

(* The engine has forgotten nothing: every job it admitted is in its store *)
(* and is what its key leads to, so a submission sent again is a replay.   *)
NothingForgotten ==
  \A i \in Ids : history[i].end # "none" =>
    history[i].key \in Scans /\ keys[history[i].key] = i /\ jobs[i].status # "none"

LEMMA ForgottenNothing ==
  ASSUME IInv, NothingForgotten
  PROVE  OneScannerJobPerScan
<1> SUFFICES ASSUME NEW i \in Ids, NEW j \in Ids, history[i].key = history[j].key,
                    history[i].key # NoScan
             PROVE  i = j
  BY DEF OneScannerJobPerScan
<1>1. history[i].end # "none" /\ history[j].end # "none"
  BY DEF IInv, EngineOK
<1> QED
  BY <1>1 DEF NothingForgotten

(* A job of a scan that was not admitted before is the first of its key.   *)
LEMMA AcceptForgetsNothing ==
  ASSUME IInv, NothingForgotten, NEW s \in Scans, NEW id, ScannerAccepts(s, id)
  PROVE  NothingForgotten'
<1>1. CASE UNCHANGED engine
  BY <1>1 DEF engine, NothingForgotten
<1>2. CASE id = FreshId /\ Go!admitNew(id, s, s)
  <2>1. /\ id \in Ids /\ ~Go!Retained(s)
        /\ jobs' = [jobs EXCEPT ![id] = Go!newScanJob(s)]
        /\ keys' = [keys EXCEPT ![s] = id]
        /\ history' = [history EXCEPT ![id] = [key |-> s, end |-> "open"]]
    BY <1>2, DispatchAssumption DEF Go!admitNew, Go!Unused, DispatchAssumption
  <2>2. ASSUME NEW i \in Ids, i # id, history'[i].end # "none"
        PROVE  history'[i].key \in Scans /\ keys'[history'[i].key] = i
               /\ jobs'[i].status # "none"
    <3>1. history'[i] = history[i] /\ jobs'[i] = jobs[i]
      BY <2>1, <2>2 DEF IInv, TypeOK, Go!TypeOK
    <3>2. history[i].key \in Scans /\ keys[history[i].key] = i /\ jobs[i].status # "none"
      BY <2>2, <3>1 DEF NothingForgotten
    <3>3. history[i].key # s
      BY <2>1, <3>2, DispatchAssumption DEF Go!Retained, Go!Present, DispatchAssumption
    <3> QED
      BY <2>1, <3>1, <3>2, <3>3 DEF IInv, TypeOK, Go!TypeOK
  <2>3. /\ history'[id].key = s /\ keys'[s] = id /\ jobs'[id].status # "none"
    BY <2>1 DEF Go!newScanJob, IInv, TypeOK, Go!TypeOK
  <2> QED
    BY <2>2, <2>3 DEF NothingForgotten
<1> QED
  BY <1>1, <1>2 DEF ScannerAccepts, Go!admitReplay, Go!store, engine

LEMMA RefusalForgetsNothing ==
  ASSUME IInv, NothingForgotten, NEW s \in Scans, Go!admitRefused(s)
  PROVE  NothingForgotten'
<1>1. /\ ~Go!Retained(s) /\ jobs' = jobs /\ history' = history
      /\ keys' = [keys EXCEPT ![s] = NoId]
  BY DispatchAssumption DEF Go!admitRefused, Go!WithoutDangling, DispatchAssumption
<1>2. ASSUME NEW i \in Ids, history[i].end # "none"
      PROVE  history[i].key \in Scans /\ keys'[history[i].key] = i /\ jobs[i].status # "none"
  <2>1. history[i].key \in Scans /\ keys[history[i].key] = i /\ jobs[i].status # "none"
    BY <1>2 DEF NothingForgotten
  <2>2. history[i].key # s
    BY <1>1, <2>1, DispatchAssumption DEF Go!Retained, Go!Present, DispatchAssumption
  <2> QED
    BY <1>1, <2>1, <2>2 DEF IInv, TypeOK, Go!TypeOK
<1> QED
  BY <1>1, <1>2 DEF NothingForgotten

(* A job in the store is what its key leads to.                            *)
KeysLead ==
  \A i \in Ids : jobs[i].status # "none" =>
    history[i].key \in Scans /\ keys[history[i].key] = i

LEMMA ForgottenLead ==
  ASSUME IInv, NothingForgotten
  PROVE  KeysLead
<1> SUFFICES ASSUME NEW i \in Ids, jobs[i].status # "none"
             PROVE  history[i].key \in Scans /\ keys[history[i].key] = i
  BY DEF KeysLead
<1>1. jobs[i].status \in Go!ActiveStatus \cup Go!TerminalStatus
  BY DEF IInv, TypeOK, Go!TypeOK, Go!Job
<1>2. history[i].end # "none"
  BY <1>1 DEF IInv, EngineOK
<1> QED
  BY <1>2 DEF NothingForgotten

(* With room for a finished job of every scan, retention evicts nothing:   *)
(* the keys tell the jobs of the store apart.                              *)
LEMMA NothingExpires ==
  ASSUME IInv, KeysLead, Cardinality(Scans) <= MaxRetained,
         NEW m \in [Ids -> Go!Job],
         \A i \in Ids : m[i].status # "none" => jobs[i].status # "none"
  PROVE  Go!Expired(m) = {}
<1> DEFINE T == Go!TerminalIn(m)
           key == [i \in T |-> history[i].key]
<1>1. \A i \in T : i \in Ids /\ history[i].key \in Scans /\ keys[history[i].key] = i
  <2> SUFFICES ASSUME NEW i \in Ids, m[i].status \in Go!TerminalStatus
               PROVE  history[i].key \in Scans /\ keys[history[i].key] = i
    BY DEF Go!TerminalIn
  <2>1. jobs[i].status # "none"
    BY DEF Go!TerminalStatus
  <2> QED
    BY <2>1 DEF KeysLead
<1>2. key \in Injection(T, Scans)
  BY <1>1 DEF Injection, IsInjective
<1>3. IsFiniteSet(Scans) /\ Cardinality(Scans) \in Nat /\ MaxRetained \in Nat
  BY RecordsAssumption, DispatchAssumption, FS_CardinalityType
  DEF RecordsAssumption, DispatchAssumption
<1>4. IsFiniteSet(T) /\ Cardinality(T) <= Cardinality(Scans)
  BY <1>2, <1>3, FS_Injection
<1>5. ASSUME NEW i \in T
      PROVE  Cardinality({j \in T : Go!Before(m, i, j)}) < MaxRetained
  <2> DEFINE later == {j \in T : Go!Before(m, i, j)}
  <2>1. ~Go!Before(m, i, i)
    <3>1. i \in Int /\ m[i].updatedAt \in Nat
      BY <1>1, DispatchAssumption DEF DispatchAssumption, Go!Job
    <3> QED
      BY <3>1 DEF Go!Before
  <2>2. later \subseteq T \ {i}
    BY <2>1
  <2>3. IsFiniteSet(T \ {i}) /\ Cardinality(T \ {i}) = Cardinality(T) - 1
    BY <1>4, FS_RemoveElement
  <2>4. Cardinality(later) \in Nat /\ Cardinality(later) <= Cardinality(T) - 1
        /\ Cardinality(T) \in Nat
    BY <1>4, <2>2, <2>3, FS_Subset, FS_CardinalityType
  <2> HIDE DEF later, T
  <2> QED
    BY <1>3, <1>4, <2>4 DEF later
<1>6. \A S : Go!Cardinality(S) = Cardinality(S)
  BY DEF Go!Cardinality, Cardinality
<1>7. \A i \in T : Cardinality({j \in T : Go!Before(m, i, j)}) \in Nat
  <2>1. \A i : {j \in T : Go!Before(m, i, j)} \subseteq T
    OBVIOUS
  <2> QED
    BY <1>4, <2>1, FS_Subset, FS_CardinalityType
<1> QED
  BY <1>3, <1>5, <1>6, <1>7 DEF Go!Expired

LEMMA UpdateEvictsNothing ==
  ASSUME IInv, KeysLead, Cardinality(Scans) <= MaxRetained, NEW i \in Ids, RunScan(i)
  PROVE  /\ \A j \in Ids : jobs'[j].status # "none" <=> jobs[j].status # "none"
         /\ \A s \in Scans : keys'[s] = keys[s]
         /\ \A j \in Ids : /\ history'[j].key = history[j].key
                           /\ history'[j].end # "none" => history[j].end # "none"
<1>1. PICK status \in {"running", "completed", "failed"}, now \in Nat : Go!update(i, status, now)
  BY NowType DEF RunScan, Go!markRunning, Go!markCompleted, Go!markFailed
<1> DEFINE m == [jobs EXCEPT ![i].status = status, ![i].updatedAt = now]
<1>2. /\ m \in [Ids -> Go!Job] /\ jobs[i].status # "none"
      /\ \A j \in Ids : m[j].status # "none" <=> jobs[j].status # "none"
  BY <1>1 DEF Go!update, Go!Present, Go!Job, Go!ActiveStatus, Go!TerminalStatus,
              IInv, TypeOK, Go!TypeOK
<1>3. Go!enforceRetentionLocked(m)
  BY <1>1 DEF Go!update
<1> HIDE DEF m
<1>4. Go!Expired(m) = {}
  BY <1>2, NothingExpires
<1>5. \A j \in Ids : jobs'[j].status # "none" <=> jobs[j].status # "none"
  BY <1>2, <1>3, <1>4 DEF Go!enforceRetentionLocked
<1>6. \A s \in Scans : keys'[s] = keys[s]
  BY <1>3, <1>4 DEF Go!enforceRetentionLocked
<1>7. \A j \in Ids : /\ history'[j].key = history[j].key
                     /\ history'[j].end # "none" => history[j].end # "none"
  <2>1. history[i].end # "none"
    BY <1>2 DEF IInv, EngineOK, TypeOK, Go!TypeOK, Go!Job, Go!ActiveStatus, Go!TerminalStatus
  <2>2. history' = history \/ \E end : history' = [history EXCEPT ![i].end = end]
    BY SMTT(20) DEF RunScan, Go!markRunning, Go!markCompleted, Go!markFailed
  <2> QED
    BY <2>1, <2>2 DEF IInv, TypeOK, Go!TypeOK, Go!Admission
<1> QED
  BY <1>5, <1>6, <1>7

LEMMA UpdateForgetsNothing ==
  ASSUME IInv, NothingForgotten, Cardinality(Scans) <= MaxRetained, NEW i \in Ids, RunScan(i)
  PROVE  NothingForgotten'
<1>1. KeysLead
  BY ForgottenLead, Zenon
<1> QED
  BY <1>1, UpdateEvictsNothing, SMTT(20) DEF NothingForgotten

(* Only a restart makes the engine forget, if it retains enough.           *)
LEMMA OnlyRestartsForget ==
  ASSUME Cardinality(Scans) <= MaxRetained, IInv, NothingForgotten,
         [Next]_vars, ~ScannerRestart
  PROVE  NothingForgotten'
<1>1. CASE UNCHANGED engine
  BY <1>1 DEF engine, NothingForgotten
<1> QED
  BY <1>1, EngineMoves, AcceptForgetsNothing, RefusalForgetsNothing, UpdateForgetsNothing

(* A step after which the engine has never restarted is none of its restarts. *)
LEMMA NeverRestarted ==
  ASSUME IInv, [Next]_vars, Restarts' = 0
  PROVE  Restarts = 0 /\ ~ScannerRestart
<1>1. Restarts \in Nat /\ Restarts' >= Restarts
  BY FaultCounts, OnlyFailuresCount
<1>2. ASSUME ScannerRestart PROVE FALSE
  BY <1>1, <1>2, FailureCounts DEF Failure
<1> QED
  BY <1>1, <1>2

LEMMA NextForgetsNothing ==
  ASSUME Cardinality(Scans) <= MaxRetained, IInv, Restarts = 0 => NothingForgotten,
         [Next]_vars
  PROVE  (Restarts = 0 => NothingForgotten)'
BY OnlyRestartsForget, NeverRestarted

(* Any number of crashes, lost answers, late requests and outrun leases    *)
(* start no second job of a scan, as long as the engine's process lives    *)
(* and retains as many finished jobs as there are scans: the idempotency   *)
(* key makes every submission after the first a replay (jobStore.admit).   *)
THEOREM RetriesFindTheirJob ==
  ASSUME Cardinality(Scans) <= MaxRetained
  PROVE  Spec => [](Restarts = 0 => OneScannerJobPerScan)
<1>1. Init => (Restarts = 0 => NothingForgotten)
  BY DEF Init, Go!Init, NothingForgotten
<1>2. IInv /\ (Restarts = 0 => NothingForgotten) /\ [Next]_vars
        => (Restarts = 0 => NothingForgotten)'
  BY NextForgetsNothing
<1>3. IInv /\ (Restarts = 0 => NothingForgotten) => (Restarts = 0 => OneScannerJobPerScan)
  BY ForgottenNothing
<1> QED
  BY <1>1, <1>2, <1>3, Invariance, PTL DEF Spec

-----------------------------------------------------------------------------
(* What a poller is told as long as the engine forgets nothing.            *)

(* No poller was told that the engine does not know the job, and no row    *)
(* says so.                                                                *)
AllFound ==
  /\ \A h \in Strands : strand[h].code # "SCAN_NOT_FOUND"
  /\ \A s \in Scans : row[s].failure # "SCAN_NOT_FOUND"

LEMMA FoundMove ==
  ASSUME IInv, AllFound, NEW h \in Strands, NEW w, Continue(h, w),
         w.code # "SCAN_NOT_FOUND",
         \A s \in Scans :
           row'[s].failure \in {row[s].failure, strand[h].code, "BLOCKED_TARGET", NoCode}
  PROVE  AllFound'
<1>1. \A g \in Strands : strand'[g] = strand[g] \/ strand'[g] = w
  BY DEF Continue, IInv, TypeOK
<1> QED
  BY <1>1 DEF AllFound, NoCode

LEMMA CodesOfWork ==
  /\ \A page : Idle(page).code # "SCAN_NOT_FOUND"
  /\ \A h, loc : /\ Moved(h, loc).code # "SCAN_NOT_FOUND"
                 /\ \A r : [Moved(h, loc) EXCEPT !.rule = r].code # "SCAN_NOT_FOUND"
                 /\ \A i : [Moved(h, loc) EXCEPT !.scanner = i].code # "SCAN_NOT_FOUND"
                 /\ \A c : [Moved(h, loc) EXCEPT !.code = c].code = c
BY DEF Idle, Moved, NoCode

(* Strand h goes on without having been told so.                           *)
GoesOn(h) == \E w : Continue(h, w) /\ w.code # "SCAN_NOT_FOUND"

LEMMA WorkGoesOn ==
  ASSUME NEW h, NEW loc, NEW x,
         \/ Finish(h) \/ Return(h) \/ Continue(h, Moved(h, loc))
         \/ Continue(h, [Moved(h, loc) EXCEPT !.rule = x])
         \/ Continue(h, [Moved(h, loc) EXCEPT !.scanner = x])
         \/ x # "SCAN_NOT_FOUND" /\ Continue(h, [Moved(h, loc) EXCEPT !.code = x])
  PROVE  GoesOn(h)
<1>1. ASSUME NEW w, w.code # "SCAN_NOT_FOUND", Continue(h, w) PROVE GoesOn(h)
  BY <1>1 DEF GoesOn
<1>2. CASE Finish(h) \/ Return(h) \/ Continue(h, Moved(h, loc))
  BY <1>1, <1>2, CodesOfWork, ReturnedFields DEF Finish, Return, NoCode
<1>3. CASE Continue(h, [Moved(h, loc) EXCEPT !.rule = x])
  <2> DEFINE w == [Moved(h, loc) EXCEPT !.rule = x]
  <2>1. w.code # "SCAN_NOT_FOUND" /\ Continue(h, w)
    BY <1>3, CodesOfWork
  <2> HIDE DEF w
  <2> QED
    BY <1>1, <2>1
<1>4. CASE Continue(h, [Moved(h, loc) EXCEPT !.scanner = x])
  <2> DEFINE w == [Moved(h, loc) EXCEPT !.scanner = x]
  <2>1. w.code # "SCAN_NOT_FOUND" /\ Continue(h, w)
    BY <1>4, CodesOfWork
  <2> HIDE DEF w
  <2> QED
    BY <1>1, <2>1
<1>5. CASE x # "SCAN_NOT_FOUND" /\ Continue(h, [Moved(h, loc) EXCEPT !.code = x])
  <2> DEFINE w == [Moved(h, loc) EXCEPT !.code = x]
  <2>1. w.code # "SCAN_NOT_FOUND" /\ Continue(h, w)
    BY <1>5, CodesOfWork
  <2> HIDE DEF w
  <2> QED
    BY <1>1, <2>1
<1> QED
  BY <1>2, <1>3, <1>4, <1>5

(* A statement writes the code its strand carries, or a refusal's.         *)
LEMMA StepFailures ==
  ASSUME IInv, NEW h \in Strands, StrandStep(h)
  PROVE  \A s \in Scans :
           row'[s].failure \in {row[s].failure, strand[h].code, "BLOCKED_TARGET", NoCode}
<1>1. row \in [Scans -> ScanJob]
  BY DEF IInv, TypeOK, RecordsTypeOK
<1>2. NoRow.failure = NoCode /\ NoRow \in [DOMAIN NoRow -> {NoRow[x] : x \in DOMAIN NoRow}]
  BY DEF NoRow
<1>3. CASE InsertQueued(h)
  BY <1>1, <1>3 DEF InsertQueued, insertQueuedScan, NoRow, records
<1>4. CASE InsertBlocked(h)
  BY <1>1, <1>4 DEF InsertBlocked, insertBlockedScan, NoRow
<1>5. CASE Claim(h)
  BY <1>1, <1>5 DEF Claim, claimScanDispatch, ScanJob, records
<1>6. CASE Attach(h)
  BY <1>1, <1>6 DEF Attach, attachAllowedTargetToDispatch, ScanJob, records
<1>7. CASE MarkDispatched(h)
  BY <1>1, <1>7 DEF MarkDispatched, markScanDispatched, ScanJob, records
<1>8. CASE MarkUndispatched(h)
  BY <1>1, <1>8 DEF MarkUndispatched, markScanDispatchFailed, ScanJob, records
<1>9. CASE Fail(h)
  BY <1>1, <1>9 DEF Fail, markScanSynchronizationFailed, ScanJob, records
<1>10. CASE Complete(h)
  BY <1>1, <1>10 DEF Complete, CompleteScanJob, ScanJob, records
<1>11. CASE Authorize(h) \/ Post(h) \/ Reload(h) \/ Get(h)
  BY <1>11 DEF Authorize, Post, Reload, Get
<1> QED
  BY <1>3, <1>4, <1>5, <1>6, <1>7, <1>8, <1>9, <1>10, <1>11 DEF StrandStep

(* What a strand goes on with: the code of a job the engine does not know  *)
(* is only met by a poller whose job is gone.                              *)
LEMMA StepWork ==
  ASSUME IInv, NothingForgotten, NEW h \in Strands, StrandStep(h)
  PROVE  GoesOn(h)
<1>1. CASE InsertQueued(h)
  <2>1. \A s : [Idle(<<>>) EXCEPT !.at = "claim", !.scan = s].code # "SCAN_NOT_FOUND"
    BY DEF Idle, NoCode
  <2> QED
    BY <1>1, <2>1, WorkGoesOn DEF InsertQueued, GoesOn
<1>2. CASE Claim(h) \/ Attach(h)
  BY <1>2, WorkGoesOn DEF Claim, Attach
<1>3. CASE Authorize(h)
  BY <1>3, WorkGoesOn DEF Authorize
<1>4. CASE Post(h)
  BY <1>4, WorkGoesOn DEF Post
<1>5. CASE InsertBlocked(h) \/ MarkDispatched(h) \/ MarkUndispatched(h) \/ Fail(h) \/ Complete(h)
  BY <1>5, WorkGoesOn DEF InsertBlocked, MarkDispatched, MarkUndispatched, Fail, Complete
<1>6. CASE Reload(h)
  <2>1. \A i : [Moved(h, "get") EXCEPT !.then = "return", !.scanner = i].code # "SCAN_NOT_FOUND"
    BY DEF Moved, Idle, NoCode
  <2> QED
    BY <1>6, <2>1, WorkGoesOn DEF Reload, GoesOn
<1>7. CASE Get(h)
  <2>1. /\ Scan(h) \in Scans /\ strand[h].scanner = row[Scan(h)].scanner
        /\ row[Scan(h)].scanner # NoId
    <3>1. strand[h].at = "get" /\ Scan(h) \in Scans /\ WorkOK(strand[h], row, history)
      BY <1>7, AtStep DEF Get, At, Polling
    <3> QED
      BY <3>1 DEF WorkOK, Scan
  <2>2. row[Scan(h)].scanner \in Ids \cup {NoId} /\ RowOK(Scan(h))
    BY <2>1 DEF IInv, TypeOK, RecordsTypeOK, ScanJob, RowsOK
  <2>3. strand[h].scanner \in Ids /\ history[strand[h].scanner].key = Scan(h)
    BY <2>1, <2>2 DEF RowOK
  <2>4. jobs[strand[h].scanner].status # "none"
    <3>1. history[strand[h].scanner].key # NoScan
      BY <2>1, <2>3, DispatchAssumption DEF DispatchAssumption
    <3>2. history[strand[h].scanner].end # "none"
      BY <2>3, <3>1 DEF IInv, EngineOK
    <3> QED
      BY <2>3, <3>2 DEF NothingForgotten
  <2>5. \/ Continue(h, [Moved(h, "fail") EXCEPT !.code = "SCANNER_FAILED"])
        \/ Continue(h, Moved(h, "complete"))
        \/ Finish(h)
    BY <1>7, <2>4 DEF Get, Answered, Finish
  <2> QED
    BY <2>5, WorkGoesOn
<1> QED
  BY <1>1, <1>2, <1>3, <1>4, <1>5, <1>6, <1>7 DEF StrandStep

LEMMA NextStaysFound ==
  ASSUME IInv, NothingForgotten, AllFound, [Next]_vars
  PROVE  AllFound'
<1>1. ASSUME NEW h \in Strands, StrandStep(h) PROVE AllFound'
  BY <1>1, StepFailures, StepWork, FoundMove DEF GoesOn
<1>2. ASSUME NEW h \in Strands, NEW w, Continue(h, w), w.code # "SCAN_NOT_FOUND", row' = row
      PROVE  AllFound'
  BY <1>2, FoundMove
<1>3. ASSUME NEW h \in Strands, NEW o \in Owners, ReceiveCreate(h, o) PROVE AllFound'
  <2>1. /\ \A l, r : [Idle(<<>>) EXCEPT !.at = l, !.owner = o, !.rule = r].code = NoCode
    BY DEF Idle
  <2> QED
    BY <1>2, <1>3, <2>1 DEF ReceiveCreate, NoCode
<1>4. \A h, s, page : Loaded(h, s, page).code # "SCAN_NOT_FOUND"
  <2>1. /\ \A s, page : /\ [Idle(page) EXCEPT !.at = "claim", !.scan = s, !.then = "reload"].code = NoCode
                        /\ \A i : [Idle(page) EXCEPT !.at = "get", !.scan = s, !.scanner = i].code = NoCode
    BY DEF Idle
  <2> QED
    BY <2>1, CodesOfWork DEF Loaded, NoCode
<1>5. ASSUME NEW h \in Strands, NEW s \in Scans, Poll(h, s) PROVE AllFound'
  BY <1>2, <1>4, <1>5 DEF Poll
<1>6. CASE ReconcilerLoads \/ ReconcilerPolls
  BY <1>2, <1>4, <1>6, CodesOfWork, DispatchAssumption
  DEF ReconcilerLoads, ReconcilerPolls, DispatchAssumption
<1>7. ASSUME NEW s \in Scans, row' = [row EXCEPT ![s].expired = TRUE], strand' = strand
      PROVE  AllFound'
  BY <1>7 DEF AllFound, IInv, TypeOK, RecordsTypeOK, ScanJob
<1>8. CASE UNCHANGED <<row, strand>>
  BY <1>8 DEF AllFound
<1>9. CASE Failure
  <2>1. \A h \in Strands : strand'[h].code # "SCAN_NOT_FOUND"
    BY <1>9, FailureMoves DEF AllFound
  <2>2. CASE row' = row
    BY <2>1, <2>2 DEF AllFound
  <2> QED
    BY <1>7, <1>9, <2>2
    DEF Failure, LeaseOverrun, LeaseExpires, PostUnanswered, AnswerLost, StatusUnreadable,
        GiveUp, ApiCrash, ScannerRestart
<1>10. CASE UNCHANGED vars
  BY <1>8, <1>10 DEF vars
<1> QED
  BY <1>1, <1>3, <1>5, <1>6, <1>7, <1>8, <1>9, <1>10
  DEF Next, RunScan, HandleOrphan, AbandonedLeaseExpires, LeaseExpires, Administrate,
      insertAllowedTarget, disableAllowedTarget

(* As long as the engine's process lives and retains enough jobs, no scan  *)
(* fails because the engine does not know its job: a poller that comes     *)
(* late finds it, however many jobs finished in between (synchronizeScan,  *)
(* enforceRetentionLocked).                                                *)
THEOREM RetainedJobsAreFound ==
  ASSUME Cardinality(Scans) <= MaxRetained
  PROVE  Spec => [](Restarts = 0 => \A s \in Scans : row[s].failure # "SCAN_NOT_FOUND")
<1> DEFINE Found == Restarts = 0 => NothingForgotten /\ AllFound
<1>1. Init => Found
  BY DEF Init, RecordsInit, NoRow, Idle, NoCode, Go!Init, NothingForgotten, AllFound
<1>2. IInv /\ Found /\ [Next]_vars => Found'
  BY NextForgetsNothing, NextStaysFound, NeverRestarted
<1>3. Found => (Restarts = 0 => \A s \in Scans : row[s].failure # "SCAN_NOT_FOUND")
  BY DEF AllFound
<1> QED
  BY <1>1, <1>2, <1>3, Invariance, PTL DEF Spec

-----------------------------------------------------------------------------
(* The other way to be safe: restarts, but no loss.                        *)

(* Strand h has been answered the id i and will store it.                  *)
Correlating(h, i) ==
  strand[h].at = "dispatched" /\ Scan(h) = history[i].key /\ strand[h].scanner = i

(* Every job ever admitted is the one of its scan's row, or is about to be.*)
JobsKnown ==
  \A i \in Ids : history[i].key # NoScan =>
    row[history[i].key].scanner = i \/ \E h \in Strands : Correlating(h, i)

(* No submission is under way behind the back of a strand, every           *)
(* dispatcher has its lease, and every job is known.                       *)
Undisturbed ==
  /\ orphans = [s \in Scans |-> 0]
  /\ Lost = {}
  /\ JobsKnown

(* A leased row is queued and not correlated.                              *)
LEMMA LeasedRow ==
  ASSUME IInv, Lost = {}, NEW h \in Strands, strand[h].at \in UnderLease
  PROVE  /\ Scan(h) \in Scans /\ Leased(Scan(h), h)
         /\ row[Scan(h)].lease = h /\ row[Scan(h)].scanner = NoId
<1>1. Scan(h) \in Scans /\ row[Scan(h)].lease = h /\ ~row[Scan(h)].expired
  BY AtStep DEF Lost, HoldsLease
<1>2. RowShape(row[Scan(h)]) /\ h # NoStrand
  BY <1>1, RecordsAssumption DEF RecordsAssumption, IInv, RowsOK, RowOK
<1> QED
  BY <1>1, <1>2 DEF RowShape, NoRow, Leased

LEMMA KnownOnce ==
  ASSUME IInv, Undisturbed
  PROVE  OneScannerJobPerScan /\ BlockedNeverReachedScanner
<1>1. ASSUME NEW i \in Ids, NEW h \in Strands, Correlating(h, i)
      PROVE  row[history[i].key].scanner = NoId /\ row[history[i].key].lease = h
             /\ row[history[i].key].status = "QUEUED"
  BY <1>1, LeasedRow DEF Correlating, Undisturbed, Dispatching, Leased
<1>2. OneScannerJobPerScan
  <2> SUFFICES ASSUME NEW i \in Ids, NEW j \in Ids, history[i].key = history[j].key,
                      history[i].key # NoScan
               PROVE  i = j
    BY DEF OneScannerJobPerScan
  <2>1. i # NoId /\ j # NoId
    BY RecordsAssumption DEF RecordsAssumption
  <2>2. ASSUME NEW g \in Strands, NEW h \in Strands, Correlating(g, i), Correlating(h, j)
        PROVE  i = j
    <3>1. g = h
      BY <1>1, <2>2
    <3> QED
      BY <2>2, <3>1 DEF Correlating
  <2> QED
    BY <1>1, <2>1, <2>2 DEF Undisturbed, JobsKnown
<1>3. BlockedNeverReachedScanner
  <2> SUFFICES ASSUME NEW i \in Ids, history[i].key \in Scans,
                      row[history[i].key].status = "BLOCKED"
               PROVE  FALSE
    BY DEF BlockedNeverReachedScanner
  <2>1. history[i].key # NoScan /\ i # NoId
    BY RecordsAssumption, DispatchAssumption DEF RecordsAssumption, DispatchAssumption
  <2>2. row[history[i].key].scanner = NoId
    BY DEF IInv, RowsOK, RowOK, RowShape, NoRow
  <2> QED
    BY <1>1, <2>1, <2>2 DEF Undisturbed, JobsKnown
<1> QED
  BY <1>2, <1>3

(* A job stays known unless its strand goes on without having stored it.   *)
LEMMA StayKnown ==
  ASSUME IInv, JobsKnown, RecordsStep,
         NEW i \in Ids, history[i].key # NoScan, history'[i].key = history[i].key,
         \A h \in Strands : Correlating(h, i) =>
           strand'[h] = strand[h] \/ row'[Scan(h)].scanner = i
  PROVE  row'[history'[i].key].scanner = i \/ \E h \in Strands : Correlating(h, i)'
<1>1. history[i].key \in Scans /\ i # NoId
  BY RecordsAssumption DEF RecordsAssumption, IInv, TypeOK, Go!TypeOK, Go!Admission
<1>2. CASE row[history[i].key].scanner = i
  BY <1>1, <1>2, ScannerStays
<1>3. ASSUME NEW h \in Strands, Correlating(h, i)
      PROVE  row'[history'[i].key].scanner = i \/ Correlating(h, i)'
  BY <1>3 DEF Correlating, Scan
<1> QED
  BY <1>2, <1>3 DEF JobsKnown

(* The job a submission is answered with is known by the strand that       *)
(* submitted; the lease kept every other strand from submitting.           *)
LEMMA PostKnows ==
  ASSUME IInv, Undisturbed, RecordsStep, NEW h \in Strands, Post(h)
  PROVE  JobsKnown'
<1>1. strand[h].at = "post" /\ \A g \in Strands \ {h} : strand'[g] = strand[g]
  BY OthersStay DEF Post, At, StrandStep
<1>2. ASSUME NEW i \in Ids, history[i].key # NoScan, history'[i].key = history[i].key
      PROVE  row'[history'[i].key].scanner = i \/ \E g \in Strands : Correlating(g, i)'
  BY <1>1, <1>2, StayKnown DEF Undisturbed, Correlating
<1>3. CASE history' = history
  BY <1>2, <1>3 DEF JobsKnown
<1>4. ASSUME NEW id \in Ids, Go!admitNew(id, Scan(h), Scan(h)),
             Continue(h, [Moved(h, "dispatched") EXCEPT !.scanner = id])
      PROVE  JobsKnown'
  <2>1. /\ history'[id].key = Scan(h)
        /\ \A i \in Ids \ {id} : history'[i] = history[i]
    BY <1>4 DEF Go!admitNew, IInv, TypeOK, Go!TypeOK
  <2>2. strand'[h] = [Moved(h, "dispatched") EXCEPT !.scanner = id]
    BY <1>4 DEF Continue, IInv, TypeOK
  <2>3. Correlating(h, id)'
    BY <2>1, <2>2, MovedFields DEF Correlating, Scan
  <2> QED
    BY <1>2, <2>1, <2>3 DEF JobsKnown
<1> QED
  BY <1>3, <1>4
  DEF Post, ScannerAccepts, Go!admitReplay, Go!admitRefused, Go!store, engine

(* The strand that was answered an id has its lease and stores it.         *)
LEMMA MarkKnows ==
  ASSUME IInv, Undisturbed, RecordsStep, NEW h \in Strands, MarkDispatched(h)
  PROVE  JobsKnown'
<1>1. /\ strand[h].at = "dispatched" /\ \A g \in Strands \ {h} : strand'[g] = strand[g]
      /\ history' = history
  BY OthersStay DEF MarkDispatched, At, StrandStep, engine
<1>2. Scan(h) \in Scans /\ Leased(Scan(h), h)
  BY <1>1, LeasedRow DEF Dispatching, Undisturbed
<1>3. row'[Scan(h)].scanner = strand[h].scanner
  BY <1>2 DEF MarkDispatched, markScanDispatched, IInv, TypeOK, RecordsTypeOK, ScanJob
<1> QED
  BY <1>1, <1>3, StayKnown DEF Undisturbed, Correlating, JobsKnown

LEMMA NextStaysUndisturbed ==
  ASSUME IInv, Undisturbed, [Next]_vars, Losses' = Losses
  PROVE  Undisturbed'
<1>0. /\ Losses \in Nat
      /\ Failure => /\ ScannerRestart
                    /\ \A h \in Strands : strand[h].at = "dispatched" => strand'[h] = strand[h]
  BY FaultCounts, FailureCounts
<1>1. Lost' = {}
  <2>1. \A s \in Scans : ~LeaseOverrun(s)
    BY <1>0, FailureCounts, FaultCounts DEF Failure, LeaseOverrun, FaultKind
  <2> QED
    BY <2>1, NextLoses DEF Undisturbed
<1>2. RecordsStep
  BY NextIInv
<1>3. \A s \in Scans : ~HandleOrphan(s)
  BY DEF HandleOrphan, Undisturbed
<1>4. ASSUME UNCHANGED orphans, JobsKnown' PROVE Undisturbed'
  BY <1>1, <1>4 DEF Undisturbed
<1>5. ASSUME \A i \in Ids : history'[i].key = history[i].key,
             \A h \in Strands : strand[h].at = "dispatched" => strand'[h] = strand[h]
      PROVE  JobsKnown'
  BY <1>2, <1>5, StayKnown DEF Undisturbed, Correlating, JobsKnown
<1>6. ASSUME NEW h \in Strands, StrandStep(h) PROVE Undisturbed'
  <2>1. orphans' = orphans
    BY <1>6 DEF StrandStep, InsertQueued, InsertBlocked, Claim, Authorize, Attach, Post,
                MarkDispatched, MarkUndispatched, Reload, Get, Fail, Complete
  <2>2. CASE Post(h) \/ MarkDispatched(h)
    BY <1>2, <1>4, <2>1, <2>2, PostKnows, MarkKnows
  <2>3. CASE ~(Post(h) \/ MarkDispatched(h))
    <3>1. history' = history
      BY <1>6, <2>3
      DEF StrandStep, InsertQueued, InsertBlocked, Claim, Authorize, Attach,
          MarkUndispatched, Reload, Get, Fail, Complete, engine
    <3>2. strand[h].at # "dispatched"
      BY <1>6, <2>3
      DEF StrandStep, InsertQueued, InsertBlocked, Claim, Authorize, Attach,
          MarkUndispatched, Reload, Get, Fail, Complete, At
    <3> QED
      BY <1>4, <1>5, <1>6, <2>1, <3>1, <3>2, OthersStay
  <2> QED
    BY <2>2, <2>3
<1>7. ASSUME NEW h \in Strands, NEW w, strand[h].at = "idle", Continue(h, w),
             UNCHANGED <<history, orphans>>
      PROVE  Undisturbed'
  <2>1. \A g \in Strands \ {h} : strand'[g] = strand[g]
    BY <1>7 DEF Continue, IInv, TypeOK
  <2> QED
    BY <1>4, <1>5, <1>7, <2>1
<1>8. ASSUME NEW h \in Strands, NEW o \in Owners, ReceiveCreate(h, o) PROVE Undisturbed'
  BY <1>7, <1>8 DEF ReceiveCreate, At, engine
<1>9. ASSUME NEW h \in Strands, NEW s \in Scans, Poll(h, s) PROVE Undisturbed'
  BY <1>7, <1>9 DEF Poll, At, engine
<1>10. CASE ReconcilerLoads \/ ReconcilerPolls
  BY <1>7, <1>10, DispatchAssumption
  DEF ReconcilerLoads, ReconcilerPolls, At, engine, DispatchAssumption
<1>11. ASSUME NEW i \in Ids, RunScan(i) PROVE Undisturbed'
  <2>1. \A j \in Ids : history'[j].key = history[j].key
    BY <1>11, SMTT(20) DEF RunScan, Go!markRunning, Go!markCompleted, Go!markFailed,
                 IInv, TypeOK, Go!TypeOK, Go!Admission
  <2> QED
    BY <1>4, <1>5, <1>11, <2>1 DEF RunScan
<1>12. ASSUME NEW s \in Scans, AbandonedLeaseExpires(s) PROVE Undisturbed'
  BY <1>4, <1>5, <1>12 DEF AbandonedLeaseExpires, engine
<1>13. ASSUME NEW r \in Rules, Administrate(r) PROVE Undisturbed'
  BY <1>4, <1>5, <1>13 DEF Administrate, engine
<1>14. CASE Failure
  <2>1. UNCHANGED history /\ orphans' = [s \in Scans |-> 0]
    BY <1>0, <1>14 DEF ScannerRestart, Go!restart
  <2> QED
    BY <1>0, <1>1, <1>5, <1>14, <2>1 DEF Undisturbed
<1>15. CASE UNCHANGED vars
  BY <1>4, <1>5, <1>15 DEF vars, engine
<1> QED
  BY <1>3, <1>6, <1>8, <1>9, <1>10, <1>11, <1>12, <1>13, <1>14, <1>15 DEF Next

(* As long as the engine accepts nothing whose answer is lost to the API,  *)
(* no dispatch outruns its lease and the API does not fail, a scan has one *)
(* job and no submitted scan is blocked, however often the engine restarts *)
(* and forgets its keys: the lease lets a scan be submitted once, and the  *)
(* answered id is stored before the lease ends (claimScanDispatch,         *)
(* markScanDispatched).  With nothing failing at all, in particular, what  *)
(* V006 and the documents say of both holds.                               *)
THEOREM OnlyLossesStartSecondJobs ==
  Spec => [](Losses = 0 => OneScannerJobPerScan /\ BlockedNeverReachedScanner)
<1>1. Init => (Losses = 0 => Undisturbed)
  <2>1. Init => Lost = {}
    BY DEF Init, Lost, Idle, Dispatching
  <2> QED
    BY <2>1 DEF Init, Undisturbed, JobsKnown, Go!Init
<1>2. IInv /\ (Losses = 0 => Undisturbed) /\ [Next]_vars => (Losses = 0 => Undisturbed)'
  <2> SUFFICES ASSUME IInv, Losses = 0 => Undisturbed, [Next]_vars, Losses' = 0
               PROVE  Undisturbed'
    OBVIOUS
  <2>1. Losses = 0
    BY FaultCounts, OnlyFailuresCount
  <2> QED
    BY <2>1, NextStaysUndisturbed
<1>3. IInv /\ Undisturbed => OneScannerJobPerScan /\ BlockedNeverReachedScanner
  BY KnownOnce
<1> QED
  BY <1>1, <1>2, <1>3, Invariance, PTL DEF Spec

-----------------------------------------------------------------------------
(* How many jobs a scan can have                                           *)

One(b) == IF b THEN 1 ELSE 0

(* Strands that may still submit s although their lease is not in force.   *)
Strays(s) ==
  {h \in Strands : strand[h].at \in BeforePost /\ Scan(h) = s /\ ~HoldsLease(h)}

(* Scan s may yet be submitted in the regular way: it waits for a          *)
(* dispatcher, and none is about to store the answer under its lease.      *)
Storing(s) ==
  \E h \in Strands : strand[h].at = "dispatched" /\ Scan(h) = s /\ HoldsLease(h)
Open(s) == row[s].status \in {"NONE", "QUEUED"} /\ ~Storing(s)

(* The submissions of s that are still possible as things stand.           *)
Chances(s) == One(Open(s)) + orphans[s] + Cardinality(Strays(s))

(* The API's side of the account: a job takes a chance, and only a loss    *)
(* gives one.  The engine's side: a job takes a key that is not known, and *)
(* only a restart forgets one.                                             *)
ApiBudget    == \A s \in Scans : Cardinality(JobsOf(s)) + Chances(s) <= 1 + Losses
EngineBudget ==
  \A s \in Scans : Cardinality(JobsOf(s)) + One(~Go!Retained(s)) <= 1 + Restarts

LEMMA CountsType ==
  ASSUME IInv, NEW s \in Scans
  PROVE  /\ IsFiniteSet(JobsOf(s)) /\ Cardinality(JobsOf(s)) \in Nat
         /\ IsFiniteSet(Strays(s)) /\ Cardinality(Strays(s)) \in Nat
         /\ orphans[s] \in Nat
         /\ One(Open(s)) \in {0, 1} /\ One(~Go!Retained(s)) \in {0, 1}
         /\ Chances(s) \in Nat
<1>1. IsFiniteSet(JobsOf(s)) /\ IsFiniteSet(Strays(s))
  BY DispatchAssumption, FS_Subset DEF DispatchAssumption, JobsOf, Strays
<1>2. Cardinality(JobsOf(s)) \in Nat /\ Cardinality(Strays(s)) \in Nat
  BY <1>1, FS_CardinalityType
<1>3. orphans[s] \in Nat
  BY DEF IInv, TypeOK
<1>4. One(Open(s)) \in {0, 1} /\ One(~Go!Retained(s)) \in {0, 1}
  BY DEF One
<1> QED
  BY <1>1, <1>2, <1>3, <1>4 DEF Chances

LEMMA CountsNext ==
  ASSUME IInv, IInv', NEW s \in Scans
  PROVE  /\ Cardinality(JobsOf(s)') \in Nat /\ Chances(s)' \in Nat
         /\ One(~Go!Retained(s))' \in {0, 1}
<1>1. IsFiniteSet(JobsOf(s)') /\ IsFiniteSet(Strays(s)')
  BY DispatchAssumption, FS_Subset DEF DispatchAssumption, JobsOf, Strays
<1>2. Cardinality(JobsOf(s)') \in Nat /\ Cardinality(Strays(s)') \in Nat
  BY <1>1, FS_CardinalityType
<1>3. orphans'[s] \in Nat
  BY DEF IInv, TypeOK
<1>4. One(Open(s))' \in {0, 1} /\ One(~Go!Retained(s))' \in {0, 1}
  BY DEF One
<1>5. Chances(s)' = One(Open(s))' + orphans'[s] + Cardinality(Strays(s)')
  BY DEF Chances
<1> QED
  BY <1>2, <1>3, <1>4, <1>5

-----------------------------------------------------------------------------
(* The engine's side                                                       *)

(* A submission of s adds a job of s at most, and none without taking up   *)
(* an unknown key.                                                         *)
LEMMA AcceptCounts ==
  ASSUME IInv, NEW s \in Scans, NEW id \in Ids, ScannerAccepts(s, id), NEW t \in Scans
  PROVE  /\ t # s => JobsOf(t)' = JobsOf(t)
         /\ Cardinality(JobsOf(t)') <= Cardinality(JobsOf(t)) + 1
         /\ Cardinality(JobsOf(t)') + One(~Go!Retained(t))'
              <= Cardinality(JobsOf(t)) + One(~Go!Retained(t))
<1>1. Cardinality(JobsOf(t)) \in Nat /\ One(~Go!Retained(t)) \in {0, 1}
  BY CountsType
<1>2. ASSUME JobsOf(t)' = JobsOf(t), Go!Retained(t) => Go!Retained(t)'
      PROVE  /\ Cardinality(JobsOf(t)') <= Cardinality(JobsOf(t)) + 1
             /\ Cardinality(JobsOf(t)') + One(~Go!Retained(t))'
                  <= Cardinality(JobsOf(t)) + One(~Go!Retained(t))
  <2>1. One(~Go!Retained(t))' <= One(~Go!Retained(t)) /\ One(~Go!Retained(t))' \in {0, 1}
    BY <1>2 DEF One
  <2> QED
    BY <1>1, <1>2, <2>1
<1>3. CASE UNCHANGED engine
  <2>1. JobsOf(t)' = JobsOf(t) /\ (Go!Retained(t) => Go!Retained(t)')
    BY <1>3 DEF engine, JobsOf, Go!Retained, Go!Present
  <2> QED
    BY <1>2, <2>1
<1>4. CASE id = FreshId /\ Go!admitNew(id, s, s)
  <2>1. /\ history[id].end = "none" /\ ~Go!Retained(s) /\ s # NoScan
        /\ jobs' = [jobs EXCEPT ![id] = Go!newScanJob(s)]
        /\ keys' = [keys EXCEPT ![s] = id]
        /\ history' = [history EXCEPT ![id] = [key |-> s, end |-> "open"]]
    BY <1>4, DispatchAssumption DEF Go!admitNew, Go!Unused, DispatchAssumption
  <2>2. history[id].key = NoScan
    BY <2>1 DEF IInv, EngineOK
  <2>3. /\ history'[id].key = s /\ keys'[s] = id /\ jobs'[id].status # "none"
        /\ \A i \in Ids \ {id} : history'[i] = history[i] /\ jobs'[i] = jobs[i]
        /\ \A u \in Scans \ {s} : keys'[u] = keys[u]
    BY <2>1 DEF Go!newScanJob, IInv, TypeOK, Go!TypeOK
  <2>4. CASE t = s
    <3>1. JobsOf(t)' = JobsOf(t) \cup {id} /\ id \notin JobsOf(t)
      BY <2>1, <2>2, <2>3, <2>4 DEF JobsOf
    <3>2. Cardinality(JobsOf(t)') = Cardinality(JobsOf(t)) + 1
      BY <3>1, CountsType, FS_AddElement
    <3>3. One(~Go!Retained(t)) = 1 /\ One(~Go!Retained(t))' = 0
      BY <2>1, <2>3, <2>4 DEF One, Go!Retained, Go!Present
    <3> QED
      BY <1>1, <2>4, <3>2, <3>3
  <2>5. CASE t # s
    <3>1. JobsOf(t)' = JobsOf(t)
      <4>1. history[id].key # t /\ history'[id].key # t
        BY <2>2, <2>3, <2>5, DispatchAssumption DEF DispatchAssumption
      <4>2. \A i \in Ids : history'[i].key = t <=> history[i].key = t
        BY <2>3, <4>1
      <4> QED
        BY <4>2 DEF JobsOf
    <3>2. Go!Retained(t) => Go!Retained(t)'
      BY <2>3, <2>5 DEF Go!Retained, Go!Present
    <3> QED
      BY <1>2, <3>1, <3>2
  <2> QED
    BY <2>4, <2>5
<1> QED
  BY <1>3, <1>4 DEF ScannerAccepts, Go!admitReplay, Go!store, engine, JobsOf

(* Nothing else adds a job to a scan.                                      *)
LEMMA SameJobs ==
  ASSUME IInv, NEW s \in Scans,
         \/ UNCHANGED engine \/ Go!restart
         \/ \E t \in Scans : Go!admitRefused(t)
         \/ \E i \in Ids : RunScan(i)
  PROVE  JobsOf(s)' = JobsOf(s)
<1> SUFFICES \A i \in Ids : history'[i].key = history[i].key
  BY DEF JobsOf
<1>1. CASE \E i \in Ids : RunScan(i)
  BY <1>1 DEF RunScan, Go!markRunning, Go!markCompleted, Go!markFailed,
              IInv, TypeOK, Go!TypeOK, Go!Admission
<1>2. CASE history' = history
  BY <1>2
<1> QED
  BY <1>1, <1>2 DEF engine, Go!restart, Go!admitRefused

(* What lives in the store was admitted under the key of a scan.           *)
Keyed == \A i \in Ids : jobs[i].status # "none" => history[i].key # NoScan

LEMMA NextStaysKeyed ==
  ASSUME IInv, IInv', Keyed, [Next]_vars
  PROVE  Keyed'
<1> SUFFICES ASSUME NEW i \in Ids, jobs'[i].status # "none"
             PROVE  history'[i].key # NoScan
  BY DEF Keyed
<1>1. EngineStep
  BY NextEngineStep
<1>2. HistoryGrows
  BY <1>1, EngineStaysOK DEF IInv, TypeOK
<1>3. CASE jobs[i].status # "none"
  BY <1>2, <1>3 DEF Keyed, HistoryGrows
<1>4. CASE jobs[i].status = "none"
  <2>1. ASSUME NEW s \in Scans, NEW id \in Ids, ScannerAccepts(s, id)
        PROVE  history'[i].key # NoScan
    BY <1>4, <2>1, AcceptEffect, DispatchAssumption
    DEF engine, DispatchAssumption, IInv, TypeOK, Go!TypeOK
  <2>2. ASSUME NEW j \in Ids, NEW status \in {"running", "completed", "failed"}, NEW now \in Nat,
               Go!update(j, status, now)
        PROVE  FALSE
    <3>1. i # j
      BY <1>4, <2>2 DEF Go!update, Go!Present, Go!ActiveStatus, Go!TerminalStatus
    <3> QED
      BY <1>4, <2>2, <3>1, UpdateEffect DEF IInv, TypeOK
  <2>3. ASSUME NEW j \in Ids, Go!markRunning(j) \/ Go!markCompleted(j, Now) \/ Go!markFailed(j, Now)
        PROVE  FALSE
    BY <2>2, <2>3, NowType DEF Go!markRunning, Go!markCompleted, Go!markFailed
  <2>4. ~UNCHANGED engine /\ (\A s \in Scans : ~Go!admitRefused(s)) /\ ~Go!restart
    BY <1>4 DEF engine, Go!admitRefused, Go!restart, Go!NoJob
  <2> QED
    BY <1>1, <2>1, <2>3, <2>4 DEF EngineStep
<1> QED
  BY <1>3, <1>4

LEMMA KeyedLead ==
  ASSUME IInv, Keyed, Go!KeysAgree
  PROVE  KeysLead
<1> SUFFICES ASSUME NEW i \in Ids, jobs[i].status # "none"
             PROVE  history[i].key \in Scans /\ keys[history[i].key] = i
  BY DEF KeysLead
<1>1. history[i].key \in Scans /\ history[i].key # NoScan
  BY DEF Keyed, IInv, TypeOK, Go!TypeOK, Go!Admission
<1>2. i \in Go!Present
  BY DEF Go!Present, IInv, TypeOK, Go!TypeOK, Go!Job, Go!ActiveStatus, Go!TerminalStatus
<1> QED
  BY <1>1, <1>2 DEF Go!KeysAgree

LEMMA NextKeepsEngineBudget ==
  ASSUME Cardinality(Scans) <= MaxRetained, IInv, Keyed, Go!KeysAgree, EngineBudget,
         [Next]_vars
  PROVE  EngineBudget'
<1>1. SUFFICES ASSUME NEW s \in Scans
               PROVE  Cardinality(JobsOf(s)') + One(~Go!Retained(s))' <= 1 + Restarts'
  BY DEF EngineBudget
<1>2. /\ Cardinality(JobsOf(s)) \in Nat /\ One(~Go!Retained(s)) \in {0, 1}
      /\ Cardinality(JobsOf(s)') \in Nat /\ One(~Go!Retained(s))' \in {0, 1}
      /\ Restarts \in Nat /\ Restarts' >= Restarts
      /\ Restarts' = Restarts \/ Restarts' = Restarts + 1
      /\ Cardinality(JobsOf(s)) + One(~Go!Retained(s)) <= 1 + Restarts
  <2>1. Restarts \in Nat /\ Restarts' >= Restarts
    BY FaultCounts, OnlyFailuresCount
  <2>2. Restarts' = Restarts \/ Restarts' = Restarts + 1
    <3>1. CASE Failure
      BY <3>1, FailureCounts
    <3>2. CASE ~Failure
      BY <3>2, OnlyFailuresCount DEF Restarts
    <3> QED
      BY <3>1, <3>2
  <2> QED
    BY <2>1, <2>2, NextIInv, CountsType, CountsNext DEF EngineBudget
<1>3. ASSUME NEW t \in Scans, NEW id \in Ids, ScannerAccepts(t, id)
      PROVE  Cardinality(JobsOf(s)') + One(~Go!Retained(s))' <= 1 + Restarts'
  <2>1. Cardinality(JobsOf(s)') + One(~Go!Retained(s))'
          <= Cardinality(JobsOf(s)) + One(~Go!Retained(s))
    BY <1>3, AcceptCounts
  <2> QED
    BY <1>2, <2>1
<1>4. ASSUME JobsOf(s)' = JobsOf(s), Go!Retained(s) => Go!Retained(s)'
      PROVE  Cardinality(JobsOf(s)') + One(~Go!Retained(s))' <= 1 + Restarts'
  <2>1. One(~Go!Retained(s))' <= One(~Go!Retained(s))
    BY <1>4 DEF One
  <2> QED
    BY <1>2, <1>4, <2>1
<1>5. CASE UNCHANGED engine
  BY <1>4, <1>5, SameJobs DEF engine, Go!Retained, Go!Present
<1>6. ASSUME NEW t \in Scans, Go!admitRefused(t)
      PROVE  Cardinality(JobsOf(s)') + One(~Go!Retained(s))' <= 1 + Restarts'
  <2>1. /\ ~Go!Retained(t) /\ jobs' = jobs /\ keys' = [keys EXCEPT ![t] = NoId]
    BY <1>6, DispatchAssumption DEF Go!admitRefused, Go!WithoutDangling, DispatchAssumption
  <2>2. Go!Retained(s) => Go!Retained(s)'
    BY <2>1 DEF Go!Retained, Go!Present, IInv, TypeOK, Go!TypeOK
  <2> QED
    BY <1>4, <1>6, <2>2, SameJobs
<1>7. ASSUME NEW i \in Ids, RunScan(i)
      PROVE  Cardinality(JobsOf(s)') + One(~Go!Retained(s))' <= 1 + Restarts'
  <2>1. Go!Retained(s) => Go!Retained(s)'
    BY <1>7, KeyedLead, UpdateEvictsNothing DEF Go!Retained, Go!Present
  <2> QED
    BY <1>4, <1>7, <2>1, SameJobs
<1>8. CASE ScannerRestart
  <2>1. Restarts' = Restarts + 1
    BY <1>8, FailureCounts DEF Failure
  <2>2. JobsOf(s)' = JobsOf(s)
    BY <1>8, SameJobs DEF ScannerRestart
  <2>3. Cardinality(JobsOf(s)) <= 1 + Restarts
    BY <1>2
  <2> QED
    BY <1>2, <2>1, <2>2, <2>3
<1> QED
  BY <1>3, <1>5, <1>6, <1>7, <1>8, EngineMoves

-----------------------------------------------------------------------------
(* The API's side of the account                                           *)

(* The API's side falls or stays when no strand strays anew, no POST gets  *)
(* orphaned and no scan opens; it rises by one at most if a scan opens.    *)
LEMMA LoadOf ==
  ASSUME IInv, NEW s \in Scans, Strays(s)' \subseteq Strays(s),
         orphans'[s] \in Nat, orphans'[s] <= orphans[s]
  PROVE  /\ (Open(s)' => Open(s)) => Chances(s)' <= Chances(s)
         /\ Chances(s)' <= Chances(s) + 1
<1>1. Cardinality(Strays(s)') \in Nat /\ Cardinality(Strays(s)') <= Cardinality(Strays(s))
  BY CountsType, FS_Subset, FS_CardinalityType
<1>2. One(Open(s))' \in {0, 1} /\ One(Open(s)) \in {0, 1}
      /\ ((Open(s)' => Open(s)) => One(Open(s))' <= One(Open(s)))
  BY DEF One
<1>3. orphans[s] \in Nat /\ Cardinality(Strays(s)) \in Nat
  BY CountsType
<1>4. Chances(s)' = One(Open(s))' + orphans'[s] + Cardinality(Strays(s)')
      /\ Chances(s) = One(Open(s)) + orphans[s] + Cardinality(Strays(s))
  BY DEF Chances
<1> QED
  BY <1>1, <1>2, <1>3, <1>4

(* A scan is open if it was, unless the strand that was to store the       *)
(* answer goes on without having done so.                                  *)
LEMMA OpensBy ==
  ASSUME IInv, RecordsStep, NEW s \in Scans, Open(s)',
         \A h \in Strands : strand[h].at = "dispatched" /\ Scan(h) = s /\ HoldsLease(h) =>
           strand'[h] = strand[h] /\ HoldsLease(h)'
  PROVE  Open(s)
<1>1. row'[s].status \in {"NONE", "QUEUED"} /\ ~Storing(s)'
  BY DEF Open
<1>2. row[s].status \in {"NONE", "QUEUED"}
  <2>1. ASSUME NEW t \in Scans, NEW j, RowStep(t, j) PROVE row[s].status \in {"NONE", "QUEUED"}
    <3>1. Moves(row[t], j) /\ row' = [row EXCEPT ![t] = j]
      BY <2>1 DEF RowStep
    <3>2. IF t = s THEN row'[s] = j ELSE row'[s] = row[s]
      BY <3>1 DEF IInv, TypeOK, RecordsTypeOK
    <3> QED
      BY <1>1, <3>1, <3>2 DEF Moves
  <2> QED
    BY <1>1, <2>1 DEF RecordsStep
<1>3. ~Storing(s)
  BY <1>1 DEF Storing, Scan
<1> QED
  BY <1>2, <1>3 DEF Open

(* A strand's own step adds nothing.                                       *)
LEMMA StrandLoad ==
  ASSUME IInv, RecordsStep, NEW h \in Strands, StrandStep(h), NEW s \in Scans
  PROVE  Strays(s)' \subseteq Strays(s) /\ (Open(s)' => Open(s))
<1>1. \A g \in Strands \ {h} : strand'[g] = strand[g]
  BY OthersStay
<1>2. ASSUME NEW g \in Strays(s)' PROVE g \in Strays(s)
  <2>1. g \in Strands /\ strand'[g].at \in BeforePost /\ strand'[g].scan = s /\ ~HoldsLease(g)'
    BY <1>2 DEF Strays, Scan
  <2>2. CASE g # h
    <3>1. strand[g].at \in BeforePost /\ Scan(g) = s
      BY <1>1, <2>1, <2>2 DEF Scan
    <3>2. ~HoldsLease(g)
      BY <2>1, <2>2, <3>1, OthersKeepTheirs
    <3> QED
      BY <2>1, <3>1, <3>2 DEF Strays
  <2>3. CASE g = h
    <3>1. /\ strand[h].at \in BeforePost /\ strand'[h].scan = Scan(h)
          /\ row'[Scan(h)].lease = row[Scan(h)].lease
          /\ row'[Scan(h)].expired = row[Scan(h)].expired
      BY <2>1, <2>3, WayOfADispatch DEF BeforePost, Dispatching
    <3>2. ~HoldsLease(h)
      BY <2>1, <2>3, <3>1 DEF HoldsLease, Scan
    <3> QED
      BY <2>1, <2>3, <3>1, <3>2 DEF Strays
  <2> QED
    BY <2>2, <2>3
<1>3. ASSUME Open(s)' PROVE Open(s)
  <2>1. ASSUME NEW g \in Strands, strand[g].at = "dispatched", Scan(g) = s, HoldsLease(g)
        PROVE  strand'[g] = strand[g] /\ HoldsLease(g)'
    <3>1. CASE g # h
      BY <1>1, <2>1, <3>1, OthersKeepTheirs
    <3>2. CASE g = h
      <4>1. MarkDispatched(h)
        <5>1. \A loc : At(h, loc) => loc = "dispatched"
          BY <2>1, <3>2 DEF At
        <5>2. ~InsertQueued(h) /\ ~InsertBlocked(h) /\ ~Claim(h) /\ ~Authorize(h) /\ ~Attach(h)
          BY <5>1 DEF InsertQueued, InsertBlocked, Claim, Authorize, Attach
        <5>3. ~Post(h) /\ ~MarkUndispatched(h)
          BY <5>1 DEF Post, MarkUndispatched
        <5>4. ~Reload(h) /\ ~Get(h) /\ ~Fail(h) /\ ~Complete(h)
          BY <5>1 DEF Reload, Get, Fail, Complete
        <5> QED
          BY <5>2, <5>3, <5>4 DEF StrandStep
      <4>2. row[s].lease = h /\ h # NoStrand /\ RowShape(row[s]) /\ row[s] \in ScanJob
        BY <2>1, <3>2, RecordsAssumption
        DEF HoldsLease, RecordsAssumption, IInv, RowsOK, RowOK, TypeOK, RecordsTypeOK
      <4>3. Leased(s, h)
        BY <4>2 DEF RowShape, NoRow, Leased
      <4>4. row'[s].status = "RUNNING"
        BY <2>1, <3>2, <4>1, <4>3
        DEF MarkDispatched, markScanDispatched, IInv, TypeOK, RecordsTypeOK, ScanJob
      <4> QED
        BY <1>3, <4>4 DEF Open
    <3> QED
      BY <3>1, <3>2
  <2> QED
    BY <1>3, <2>1, OpensBy
<1> QED
  BY <1>2, <1>3

(* The admission a strand is answered was one of its scan's chances: the   *)
(* regular one, if it has its lease, or its own.                           *)
LEMMA AnswerPays ==
  ASSUME IInv, NEW h \in Strands, strand[h].at = "post", strand'[h].at = "dispatched",
         NEW s \in Scans, Scan(h) = s, strand'[h].scan = s, UNCHANGED <<row, orphans>>,
         Strays(s)' \subseteq Strays(s), Open(s)' => Open(s)
  PROVE  Chances(s)' + 1 <= Chances(s)
<1>1. /\ Chances(s)' = One(Open(s))' + orphans[s] + Cardinality(Strays(s)')
      /\ Chances(s) = One(Open(s)) + orphans[s] + Cardinality(Strays(s))
  BY DEF Chances
<1>2. /\ One(Open(s))' \in {0, 1} /\ One(Open(s)) \in {0, 1}
      /\ orphans[s] \in Nat /\ Cardinality(Strays(s)) \in Nat
  BY CountsType DEF One
<1>3. Cardinality(Strays(s)') \in Nat /\ Cardinality(Strays(s)') <= Cardinality(Strays(s))
  BY CountsType, FS_Subset, FS_CardinalityType
<1>4. CASE HoldsLease(h)
  <2>1. row[s].lease = h /\ h # NoStrand /\ RowShape(row[s])
    BY <1>4, RecordsAssumption
    DEF HoldsLease, RecordsAssumption, IInv, RowsOK, RowOK
  <2>2. Open(s)
    BY <2>1 DEF RowShape, NoRow, Open, Storing, HoldsLease
  <2>3. ~Open(s)'
    BY <1>4 DEF Open, Storing, HoldsLease, Scan
  <2>4. One(Open(s))' = 0 /\ One(Open(s)) = 1
    BY <2>2, <2>3 DEF One
  <2> QED
    BY <1>1, <1>2, <1>3, <2>4
<1>5. CASE ~HoldsLease(h)
  <2>1. h \in Strays(s) /\ h \notin Strays(s)'
    BY <1>5 DEF Strays, BeforePost
  <2>2. Cardinality(Strays(s) \ {h}) = Cardinality(Strays(s)) - 1
        /\ IsFiniteSet(Strays(s) \ {h}) /\ Strays(s)' \subseteq Strays(s) \ {h}
    BY <2>1, CountsType, FS_RemoveElement
  <2>3. Cardinality(Strays(s)') <= Cardinality(Strays(s)) - 1
    BY <2>2, FS_Subset
  <2>4. One(Open(s))' <= One(Open(s))
    BY DEF One
  <2> QED
    BY <1>1, <1>2, <1>3, <2>3, <2>4
<1> QED
  BY <1>4, <1>5

(* A strand that turns to something else than submitting adds nothing,     *)
(* unless it drops an answer.                                              *)
LEMMA QuietLoad ==
  ASSUME IInv, RecordsStep, UNCHANGED row, NEW h \in Strands,
         strand'[h].at \notin BeforePost,
         \A g \in Strands \ {h} : strand'[g] = strand[g], NEW s \in Scans
  PROVE  /\ Strays(s)' \subseteq Strays(s)
         /\ strand[h].at # "dispatched" => (Open(s)' => Open(s))
<1>1. Strays(s)' \subseteq Strays(s)
  BY DEF Strays, HoldsLease, Scan
<1>2. ASSUME strand[h].at # "dispatched", Open(s)' PROVE Open(s)
  BY <1>2, OpensBy DEF HoldsLease, Scan
<1> QED
  BY <1>1, <1>2

(* A lease that runs out makes its holder stray, or opens the scan whose   *)
(* answer it was to store; an abandoned one has no holder.                 *)
LEMMA ExpiryLoad ==
  ASSUME IInv, RecordsStep, NEW t \in Scans, LeaseExpires(t), UNCHANGED <<strand, orphans>>,
         NEW s \in Scans
  PROVE  /\ Chances(s)' <= Chances(s) + 1
         /\ ~Held(t) => Chances(s)' <= Chances(s)
<1>1. /\ row[t].lease # NoStrand /\ ~row[t].expired
      /\ row'[t].lease = row[t].lease /\ row'[t].expired
      /\ \A u \in Scans \ {t} : row'[u] = row[u]
  BY DEF LeaseExpires, IInv, TypeOK, RecordsTypeOK, ScanJob
<1>2. ASSUME NEW g \in Strands, Scan(g) \in Scans, Scan(g) = t => row[t].lease # g
      PROVE  HoldsLease(g)' <=> HoldsLease(g)
  BY <1>1, <1>2 DEF HoldsLease, Scan
<1>3. ASSUME \A g \in Strands :
               strand[g].at = "dispatched" /\ Scan(g) = t => row[t].lease # g
      PROVE  Open(s)' => Open(s)
  BY <1>2, <1>3, OpensBy
<1>4. ASSUME \A g \in Strands :
               strand[g].at \in BeforePost /\ Scan(g) = t => row[t].lease # g
      PROVE  Strays(s)' \subseteq Strays(s)
  BY <1>2, <1>4 DEF Strays, Scan
<1>5. orphans'[s] \in Nat /\ orphans'[s] <= orphans[s]
  BY CountsType
<1>6. CASE ~Held(t)
  <2>1. \A g \in Strands :
          strand[g].at \in BeforePost \cup {"dispatched"} /\ Scan(g) = t => row[t].lease # g
    BY <1>6 DEF Held, BeforePost, Dispatching
  <2>2. Chances(s)' <= Chances(s)
    BY <1>3, <1>4, <1>5, <2>1, LoadOf
  <2>3. Chances(s) \in Nat /\ Chances(s)' <= Chances(s) + 1
    BY <1>4, <1>5, <2>1, LoadOf, CountsType
  <2> QED
    BY <2>2, <2>3
<1>7. CASE Held(t)
  <2>1. PICK h \in Strands : row[t].lease = h /\ Scan(h) = t
    BY <1>7 DEF Held
  <2>2. CASE strand[h].at \in BeforePost
    <3>1. Open(s)' => Open(s)
      BY <1>3, <2>1, <2>2 DEF BeforePost
    <3>2. Strays(s)' \subseteq Strays(s) \cup {h}
      BY <1>2, <2>1 DEF Strays, Scan
    <3>3. /\ Cardinality(Strays(s)') \in Nat
          /\ Cardinality(Strays(s)') <= Cardinality(Strays(s)) + 1
      BY <3>2, OneMoreElement, CountsType
    <3>4. One(Open(s))' <= One(Open(s)) /\ One(Open(s))' \in {0, 1}
      BY <3>1 DEF One
    <3>5. Chances(s)' = One(Open(s))' + orphans[s] + Cardinality(Strays(s)')
      BY DEF Chances
    <3> QED
      BY <1>7, <3>3, <3>4, <3>5, CountsType DEF Chances
  <2>3. CASE strand[h].at \notin BeforePost
    BY <1>4, <1>5, <1>7, <2>1, <2>3, LoadOf
  <2> QED
    BY <2>2, <2>3
<1> QED
  BY <1>6, <1>7

(* A crash ends every dispatch. Of the POSTs on their way to the engine,   *)
(* at most one was sent under the lease of its scan.                       *)
LEMMA CrashLoad ==
  ASSUME IInv, RecordsStep, ApiCrash, NEW s \in Scans
  PROVE  Chances(s)' <= Chances(s) + 1
<1>1. PICK sent \in SUBSET {h \in Strands : At(h, "post")} :
        orphans' = [u \in Scans |-> orphans[u] + Cardinality({h \in sent : Scan(h) = u})]
  BY DEF ApiCrash
<1> DEFINE S == {h \in sent : Scan(h) = s}
<1>2. orphans'[s] = orphans[s] + Cardinality(S)
  BY <1>1
<1>3. \A h \in S : h \in Strands /\ strand[h].at = "post" /\ Scan(h) = s
  BY <1>1 DEF At
<1>4. Chances(s)' = One(Open(s))' + orphans'[s] /\ One(Open(s))' \in {0, 1}
  <2>1. Strays(s)' = {}
    BY DEF ApiCrash, Strays, Idle, BeforePost
  <2>2. Cardinality(Strays(s)') = 0
    BY <2>1, FS_EmptySet
  <2>3. orphans'[s] \in Nat
    BY <1>2, <1>3, CountsType, FS_Subset, FS_CardinalityType, DispatchAssumption
    DEF DispatchAssumption
  <2>4. Chances(s)' = One(Open(s))' + orphans'[s] + Cardinality(Strays(s)')
    BY DEF Chances
  <2>5. One(Open(s))' \in {0, 1}
    BY DEF One
  <2> QED
    BY <2>2, <2>3, <2>4, <2>5
<1> HIDE DEF S
<1>5. CASE S \subseteq Strays(s)
  <2>1. Cardinality(S) \in Nat /\ Cardinality(S) <= Cardinality(Strays(s))
    BY <1>5, CountsType, FS_Subset, FS_CardinalityType
  <2> QED
    BY <1>2, <1>4, <2>1, CountsType DEF Chances
<1>6. ASSUME NEW h \in S, h \notin Strays(s) PROVE Chances(s)' <= Chances(s) + 1
  <2>1. HoldsLease(h)
    BY <1>3, <1>6 DEF Strays, BeforePost
  <2>2. \A g \in Strands : Scan(g) = s /\ HoldsLease(g) => g = h
    BY <1>3, <1>6, <2>1 DEF HoldsLease
  <2>3. Open(s)' => Open(s)
    BY <1>3, <1>6, <2>2, OpensBy
  <2>4. S \subseteq Strays(s) \cup {h}
    BY <1>3, <2>2 DEF Strays, BeforePost
  <2>5. Cardinality(S) \in Nat /\ Cardinality(S) <= Cardinality(Strays(s)) + 1
    BY <2>4, OneMoreElement, CountsType
  <2>6. One(Open(s))' <= One(Open(s))
    BY <2>3 DEF One
  <2> QED
    BY <1>2, <1>4, <2>5, <2>6, CountsType DEF Chances
<1> QED
  BY <1>5, <1>6

(* A failure adds one chance to a scan at most.                            *)
LEMMA FailureLoad ==
  ASSUME IInv, RecordsStep, Failure, NEW s \in Scans
  PROVE  Chances(s)' <= Chances(s) + 1
<1>1. ASSUME UNCHANGED row PROVE Strays(s)' \subseteq Strays(s)
  <2>1. \A h \in Strands : strand'[h].at \in BeforePost => strand'[h] = strand[h]
    BY FailureMoves DEF BeforePost, Dispatching
  <2> QED
    BY <1>1, <2>1 DEF Strays, HoldsLease, Scan
<1>2. ASSUME UNCHANGED row, orphans'[s] \in Nat, orphans'[s] <= orphans[s]
      PROVE  Chances(s)' <= Chances(s) + 1
  BY <1>1, <1>2, LoadOf
<1>3. orphans[s] \in Nat
  BY CountsType
<1>4. ASSUME NEW t \in Scans, LeaseOverrun(t) PROVE Chances(s)' <= Chances(s) + 1
  BY <1>4, ExpiryLoad DEF LeaseOverrun
<1>5. ASSUME NEW h \in Strands, PostUnanswered(h) PROVE Chances(s)' <= Chances(s) + 1
  <2>1. /\ strand'[h].at \notin UnderLease
        /\ \A g \in Strands \ {h} : strand'[g] = strand[g]
    BY <1>5, ReturnLeaves DEF PostUnanswered
  <2>2. Strays(s)' \subseteq Strays(s) /\ (Open(s)' => Open(s))
    BY <1>5, <2>1, QuietLoad DEF PostUnanswered, At, BeforePost, Dispatching
  <2>3. orphans'[s] \in Nat /\ orphans'[s] <= orphans[s] + 1
    BY <1>5 DEF PostUnanswered, IInv, TypeOK
  <2>4. Cardinality(Strays(s)') \in Nat /\ Cardinality(Strays(s)') <= Cardinality(Strays(s))
    BY <2>2, CountsType, FS_Subset, FS_CardinalityType
  <2>5. One(Open(s))' <= One(Open(s)) /\ One(Open(s))' \in {0, 1}
    BY <2>2 DEF One
  <2>6. Chances(s)' = One(Open(s))' + orphans'[s] + Cardinality(Strays(s)')
    BY DEF Chances
  <2> QED
    BY <2>3, <2>4, <2>5, <2>6, CountsType DEF Chances
<1>6. CASE ScannerRestart
  <2>1. row' = row /\ orphans'[s] = 0
    BY <1>6 DEF ScannerRestart
  <2> QED
    BY <1>2, <1>3, <2>1
<1>7. ASSUME NEW h \in Strands, AnswerLost(h) \/ StatusUnreadable(h) \/ GiveUp(h)
      PROVE  Chances(s)' <= Chances(s) + 1
  BY <1>2, <1>3, <1>7 DEF AnswerLost, StatusUnreadable, GiveUp
<1> QED
  BY <1>4, <1>5, <1>6, <1>7, CrashLoad DEF Failure

(* A restart adds none if it leaves every strand alone that has an answer  *)
(* to store.                                                               *)
LEMMA QuietRestartLoad ==
  ASSUME IInv, RecordsStep, ScannerRestart, NEW s \in Scans,
         \A h \in Strands : strand[h].at = "dispatched" => strand'[h] = strand[h]
  PROVE  Chances(s)' <= Chances(s)
<1>1. row' = row /\ orphans'[s] = 0 /\ orphans[s] \in Nat
  BY CountsType DEF ScannerRestart
<1>2. Strays(s)' \subseteq Strays(s)
  <2>1. \A h \in Strands : strand'[h].at \in BeforePost => strand'[h] = strand[h]
    BY FailureMoves DEF Failure, BeforePost, Dispatching
  <2> QED
    BY <1>1, <2>1 DEF Strays, HoldsLease, Scan
<1>3. Open(s)' => Open(s)
  BY <1>1, OpensBy DEF HoldsLease, Scan
<1> QED
  BY <1>1, <1>2, <1>3, LoadOf

(* A submission that the engine accepts is paid with a chance.             *)
LEMMA PostBalance ==
  ASSUME IInv, IInv', RecordsStep, NEW h \in Strands, Post(h), NEW s \in Scans
  PROVE  Cardinality(JobsOf(s)') + Chances(s)' <= Cardinality(JobsOf(s)) + Chances(s)
<1> DEFINE t == Scan(h)
<1>1. /\ Strays(s)' \subseteq Strays(s) /\ (Open(s)' => Open(s))
      /\ UNCHANGED <<row, orphans>> /\ strand[h].at = "post" /\ t \in Scans
  BY StrandLoad, AtStep DEF Post, StrandStep, At, Dispatching
<1>2. orphans'[s] \in Nat /\ orphans'[s] <= orphans[s]
  BY <1>1, CountsType
<1>3. /\ Chances(s)' <= Chances(s)
      /\ Chances(s) \in Nat /\ Cardinality(JobsOf(s)) \in Nat
      /\ Chances(s)' \in Nat /\ Cardinality(JobsOf(s)') \in Nat
  BY <1>1, <1>2, LoadOf, CountsType, CountsNext
<1>4. CASE JobsOf(s)' = JobsOf(s)
  BY <1>3, <1>4
<1>5. ASSUME NEW id \in Ids, ScannerAccepts(t, id),
             Continue(h, [Moved(h, "dispatched") EXCEPT !.scanner = id])
      PROVE  Cardinality(JobsOf(s)') + Chances(s)' <= Cardinality(JobsOf(s)) + Chances(s)
  <2>1. CASE s # t
    <3>1. JobsOf(s)' = JobsOf(s)
      <4> HIDE DEF t
      <4> QED
        BY <1>1, <1>5, <2>1, AcceptCounts
    <3> QED
      BY <1>4, <3>1
  <2>2. CASE s = t
    <3>1. Cardinality(JobsOf(s)') <= Cardinality(JobsOf(s)) + 1
      BY <1>5, <2>2, AcceptCounts
    <3>2. strand'[h].at = "dispatched" /\ strand'[h].scan = s
      BY <1>5, <2>2, KeptScan DEF GoesTo
    <3>3. Chances(s)' + 1 <= Chances(s)
      BY <1>1, <2>2, <3>2, AnswerPays
    <3> QED
      BY <1>3, <3>1, <3>3
  <2> QED
    BY <2>1, <2>2
<1>6. CASE Go!admitRefused(t) \/ UNCHANGED engine
  <2> HIDE DEF t
  <2> QED
    BY <1>1, <1>4, <1>6, SameJobs
<1> QED
  BY <1>5, <1>6 DEF Post

LEMMA OrphanBalance ==
  ASSUME IInv, IInv', RecordsStep, NEW t \in Scans, HandleOrphan(t), NEW s \in Scans
  PROVE  Cardinality(JobsOf(s)') + Chances(s)' <= Cardinality(JobsOf(s)) + Chances(s)
<1>1. /\ UNCHANGED <<row, strand>>
      /\ orphans[t] \in Nat /\ orphans[t] > 0
      /\ orphans' = [orphans EXCEPT ![t] = @ - 1]
  BY CountsType DEF HandleOrphan
<1>2. /\ s = t => orphans'[s] = orphans[s] - 1
      /\ s # t => orphans'[s] = orphans[s]
  BY <1>1 DEF IInv, TypeOK
<1>3. /\ Chances(s)' = One(Open(s)) + orphans'[s] + Cardinality(Strays(s))
      /\ Chances(s) = One(Open(s)) + orphans[s] + Cardinality(Strays(s))
  BY <1>1 DEF Chances, Open, Storing, Strays, HoldsLease, Scan
<1>4. /\ One(Open(s)) \in {0, 1} /\ Cardinality(Strays(s)) \in Nat /\ orphans[s] \in Nat
      /\ Cardinality(JobsOf(s)) \in Nat /\ Cardinality(JobsOf(s)') \in Nat
  BY CountsType, CountsNext
<1>5. ASSUME NEW id \in Ids, ScannerAccepts(t, id)
      PROVE  /\ s = t => Cardinality(JobsOf(s)') <= Cardinality(JobsOf(s)) + 1
             /\ s # t => JobsOf(s)' = JobsOf(s)
  <2>1. CASE s = t
    BY <1>5, <2>1, AcceptCounts
  <2>2. CASE s # t
    BY <1>5, <2>2, AcceptCounts
  <2> QED
    BY <2>1, <2>2
<1>6. CASE Go!admitRefused(t) \/ UNCHANGED engine
  BY <1>2, <1>3, <1>4, <1>6, SameJobs
<1> QED
  BY <1>2, <1>3, <1>4, <1>5, <1>6 DEF HandleOrphan

(* A strand that takes up or hears of something else stays as it is.       *)
LEMMA RequestLoad ==
  ASSUME IInv, RecordsStep, NEW s \in Scans,
         \/ \E h \in Strands, o \in Owners : ReceiveCreate(h, o)
         \/ \E h \in Strands, t \in Scans : Poll(h, t)
         \/ ReconcilerLoads \/ ReconcilerPolls
  PROVE  Chances(s)' <= Chances(s)
<1>1. ASSUME NEW h \in Strands, strand[h].at = "idle", NEW w, w.at \notin BeforePost,
             Continue(h, w), UNCHANGED <<row, orphans>>
      PROVE  Chances(s)' <= Chances(s)
  <2>1. strand'[h] = w /\ \A g \in Strands \ {h} : strand'[g] = strand[g]
    BY <1>1 DEF Continue, IInv, TypeOK
  <2>2. Strays(s)' \subseteq Strays(s) /\ (Open(s)' => Open(s))
    BY <1>1, <2>1, QuietLoad
  <2> QED
    BY <1>1, <2>2, LoadOf, CountsType
<1>2. \A h, t, page : Loaded(h, t, page).at \notin BeforePost
  BY LoadedLeaves, SMTT(20) DEF BeforePost, Dispatching
<1>3. ASSUME NEW h \in Strands, NEW o \in Owners, ReceiveCreate(h, o)
      PROVE  Chances(s)' <= Chances(s)
  <2>1. PICK r : \/ Continue(h, [Idle(<<>>) EXCEPT !.at = "insert", !.owner = o, !.rule = r])
                 \/ Continue(h, [Idle(<<>>) EXCEPT !.at = "deny", !.owner = o, !.rule = r])
    BY <1>3 DEF ReceiveCreate
  <2> DEFINE w(loc) == [Idle(<<>>) EXCEPT !.at = loc, !.owner = o, !.rule = r]
  <2>2. \A loc : w(loc).at = loc
    BY DEF Idle
  <2>3. Continue(h, w("insert")) \/ Continue(h, w("deny"))
    BY <2>1
  <2> HIDE DEF w
  <2>4. PICK v : v.at \notin BeforePost /\ Continue(h, v)
    BY <2>2, <2>3, SMTT(20) DEF BeforePost
  <2>5. strand[h].at = "idle" /\ UNCHANGED <<row, orphans>>
    BY <1>3 DEF ReceiveCreate, At
  <2> QED
    BY <1>1, <2>4, <2>5, ZenonT(40)
<1>4. ASSUME NEW h \in Strands, NEW t \in Scans, Poll(h, t)
      PROVE  Chances(s)' <= Chances(s)
  BY <1>1, <1>2, <1>4 DEF Poll, At
<1>5. CASE ReconcilerLoads
  <2>1. \A page : Idle(page).at \notin BeforePost
    BY DEF Idle, BeforePost
  <2> QED
    BY <1>1, <1>5, <2>1, DispatchAssumption DEF ReconcilerLoads, At, DispatchAssumption
<1>6. CASE ReconcilerPolls
  BY <1>1, <1>2, <1>6, DispatchAssumption DEF ReconcilerPolls, At, DispatchAssumption
<1> QED
  BY <1>3, <1>4, <1>5, <1>6

(* Nothing but a loss makes the API's side grow, and a loss by one.        *)
LEMMA NextKeepsApiBudget ==
  ASSUME IInv, ApiBudget, [Next]_vars
  PROVE  ApiBudget'
<1>1. IInv' /\ RecordsStep
  BY NextIInv
<1>2. SUFFICES ASSUME NEW s \in Scans
               PROVE  Cardinality(JobsOf(s)') + Chances(s)' <= 1 + Losses'
  BY DEF ApiBudget
<1>3. /\ Cardinality(JobsOf(s)) + Chances(s) <= 1 + Losses
      /\ Losses \in Nat /\ Losses' >= Losses /\ Losses' \in Nat
      /\ Cardinality(JobsOf(s)) \in Nat /\ Cardinality(JobsOf(s)') \in Nat
      /\ Chances(s) \in Nat /\ Chances(s)' \in Nat
  <2>1. Losses' \in Nat
    <3>1. CASE Failure
      BY <3>1, FaultCounts, FailureCounts
    <3>2. CASE ~Failure
      BY <3>2, FaultCounts, OnlyFailuresCount DEF Losses
    <3> QED
      BY <3>1, <3>2
  <2> QED
    BY <1>1, <2>1, FaultCounts, OnlyFailuresCount, CountsType, CountsNext DEF ApiBudget
<1>4. ASSUME Cardinality(JobsOf(s)') + Chances(s)' <= Cardinality(JobsOf(s)) + Chances(s)
      PROVE  Cardinality(JobsOf(s)') + Chances(s)' <= 1 + Losses'
  BY <1>3, <1>4
<1>5. ASSUME JobsOf(s)' = JobsOf(s), Chances(s)' <= Chances(s)
      PROVE  Cardinality(JobsOf(s)') + Chances(s)' <= 1 + Losses'
  BY <1>3, <1>5
<1>6. UNCHANGED engine => JobsOf(s)' = JobsOf(s)
  BY SameJobs
<1>7. UNCHANGED <<row, strand, orphans>> => Chances(s)' = Chances(s)
  BY DEF Chances, Open, Storing, Strays, HoldsLease, Scan
<1>8. ASSUME NEW h \in Strands, StrandStep(h)
      PROVE  Cardinality(JobsOf(s)') + Chances(s)' <= 1 + Losses'
  <2>1. CASE Post(h)
    BY <1>1, <1>4, <2>1, PostBalance
  <2>2. CASE ~Post(h)
    <3>1. UNCHANGED <<engine, orphans>>
      BY <1>8, <2>2
      DEF StrandStep, InsertQueued, InsertBlocked, Claim, Authorize, Attach,
          MarkDispatched, MarkUndispatched, Reload, Get, Fail, Complete
    <3>2. Strays(s)' \subseteq Strays(s) /\ (Open(s)' => Open(s))
      BY <1>1, <1>8, StrandLoad
    <3>3. Chances(s)' <= Chances(s)
      BY <3>1, <3>2, LoadOf, CountsType
    <3> QED
      BY <1>5, <1>6, <3>1, <3>3
  <2> QED
    BY <2>1, <2>2
<1>9. CASE \/ \E h \in Strands, o \in Owners : ReceiveCreate(h, o)
           \/ \E h \in Strands, t \in Scans : Poll(h, t)
           \/ ReconcilerLoads \/ ReconcilerPolls
  <2>1. UNCHANGED engine
    BY <1>9 DEF ReceiveCreate, Poll, ReconcilerLoads, ReconcilerPolls
  <2> QED
    BY <1>1, <1>5, <1>6, <1>9, <2>1, RequestLoad, SMTT(20)
<1>10. ASSUME NEW i \in Ids, RunScan(i)
       PROVE  Cardinality(JobsOf(s)') + Chances(s)' <= 1 + Losses'
  BY <1>3, <1>5, <1>7, <1>10, SameJobs DEF RunScan
<1>11. ASSUME NEW t \in Scans, HandleOrphan(t)
       PROVE  Cardinality(JobsOf(s)') + Chances(s)' <= 1 + Losses'
  BY <1>1, <1>4, <1>11, OrphanBalance
<1>12. ASSUME NEW t \in Scans, AbandonedLeaseExpires(t)
       PROVE  Cardinality(JobsOf(s)') + Chances(s)' <= 1 + Losses'
  BY <1>1, <1>5, <1>6, <1>12, ExpiryLoad DEF AbandonedLeaseExpires
<1>13. ASSUME UNCHANGED vars \/ \E r \in Rules : Administrate(r)
       PROVE  Cardinality(JobsOf(s)') + Chances(s)' <= 1 + Losses'
  <2>1. UNCHANGED <<row, strand, orphans, engine>>
    BY <1>13
    DEF vars, engine, Administrate, insertAllowedTarget, disableAllowedTarget
  <2> QED
    BY <1>3, <1>5, <1>6, <1>7, <2>1
<1>14. CASE Failure
  <2>1. JobsOf(s)' = JobsOf(s)
    BY <1>14, SameJobs
    DEF Failure, LeaseOverrun, PostUnanswered, AnswerLost, StatusUnreadable, GiveUp, ApiCrash,
        ScannerRestart
  <2>2. Chances(s)' <= Chances(s) + 1
    BY <1>1, <1>14, FailureLoad
  <2>3. CASE Losses' = Losses + 1
    BY <1>3, <2>1, <2>2, <2>3
  <2>4. CASE /\ ScannerRestart
             /\ \A h \in Strands : strand[h].at = "dispatched" => strand'[h] = strand[h]
    BY <1>1, <1>5, <2>1, <2>4, QuietRestartLoad
  <2> QED
    BY <1>14, <2>3, <2>4, FailureCounts
<1> QED
  BY <1>8, <1>9, <1>10, <1>11, <1>12, <1>13, <1>14 DEF Next

LEMMA InitInBudget == Init => ApiBudget /\ EngineBudget /\ Keyed
<1> SUFFICES ASSUME Init PROVE ApiBudget /\ EngineBudget /\ Keyed
  OBVIOUS
<1>1. Keyed
  BY DEF Init, Go!Init, Go!NoJob, Keyed
<1>2. ASSUME NEW s \in Scans
      PROVE  /\ Cardinality(JobsOf(s)) + Chances(s) <= 1 + Losses
             /\ Cardinality(JobsOf(s)) + One(~Go!Retained(s)) <= 1 + Restarts
  <2>1. JobsOf(s) = {} /\ Strays(s) = {}
    BY DispatchAssumption
    DEF Init, Go!Init, JobsOf, Strays, Idle, BeforePost, DispatchAssumption
  <2>2. Cardinality(JobsOf(s)) = 0 /\ Cardinality(Strays(s)) = 0
    BY <2>1, FS_EmptySet
  <2>3. One(Open(s)) \in {0, 1} /\ One(~Go!Retained(s)) \in {0, 1}
    BY DEF One
  <2>4. orphans[s] = 0 /\ Losses = 0 /\ Restarts = 0
    BY DEF Init, Losses, Restarts, FaultKind
  <2> QED
    BY <2>2, <2>3, <2>4 DEF Chances
<1> QED
  BY <1>1, <1>2 DEF ApiBudget, EngineBudget

(* However the failures are chosen and however the submissions they cause  *)
(* are ordered, every further job of a scan takes a loss of its own, which *)
(* makes the API submit the scan again, and a restart of its own, which    *)
(* makes the engine forget the key, as long as the engine retains a job    *)
(* for every scan; a restart that cuts off an answer is both               *)
(* (dispatchQueuedScan, jobStore.admit, enforceRetentionLocked).           *)
THEOREM EveryFurtherJobTakesItsFailures == Spec => []JobsTakeFailures
<1>1. IInv /\ ApiBudget /\ [Next]_vars => ApiBudget'
  BY NextKeepsApiBudget
<1> DEFINE Engine == Cardinality(Scans) <= MaxRetained => EngineBudget
<1>2. IInv /\ Keyed /\ [Next]_vars => Keyed'
  BY NextIInv, NextStaysKeyed
<1>3. IInv /\ Keyed /\ Go!KeysAgree /\ Engine /\ [Next]_vars => Engine'
  BY NextKeepsEngineBudget
<1>4. IInv /\ ApiBudget /\ Engine => JobsTakeFailures
  <2> SUFFICES ASSUME IInv, ApiBudget, Engine, NEW s \in Scans
               PROVE  /\ Cardinality(JobsOf(s)) <= 1 + Losses
                      /\ Cardinality(Scans) <= MaxRetained
                            => Cardinality(JobsOf(s)) <= 1 + Restarts
    BY DEF JobsTakeFailures
  <2> QED
    BY CountsType, FaultCounts DEF ApiBudget, EngineBudget
<1>5. Init => Keyed /\ ApiBudget /\ Engine
  BY InitInBudget
<1> HIDE DEF Engine
<1> QED
  BY <1>1, <1>2, <1>3, <1>4, <1>5, EngineKeepsItsPromises, Invariance, PTL DEF Spec
=============================================================================
