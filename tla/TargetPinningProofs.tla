------------------------ MODULE TargetPinningProofs ------------------------
(***************************************************************************)
(* What is proved of TargetPinning, for all addresses, lists and limits.   *)
(* The induction needs to know what the pins of the API's requests are at  *)
(* every place after the authorization.                                    *)
(***************************************************************************)
EXTENDS TargetPinning, FiniteSetTheorems, FunctionTheorems, TLAPS

(* Where a request of the API can be, and what its pins are there.         *)
RouteOK == route = "api" => at # "request"
PinsOK ==
  route = "api" /\ at \notin {"authorize", "denied"} =>
    /\ pins # <<>>
    /\ \A a \in Elements(pins) : addressIsSafe(a)
    /\ target # Host => Elements(pins) = {target}

(* What was dialed passed isBlockedIP, and for the API it was the pins.    *)
DialedOK ==
  /\ \A a \in dialed : ~isBlockedIP(a)
  /\ route = "api" /\ at = "dialed" => dialed = Elements(pins)

(* What the engine accepted it would accept again.                         *)
AcceptedOK ==
  route = "api" => at # "failed" /\ (at = "run" => ValidatePinnedTarget = "none")

IInv == TypeOK /\ RouteOK /\ PinsOK /\ DialedOK /\ AcceptedOK

(* A list that is not empty has elements.                                  *)
LEMMA SomeElement ==
  ASSUME NEW S, NEW p \in Seq(S)
  PROVE  (p = <<>> <=> Elements(p) = {}) /\ Elements(p) \subseteq S
<1>1. DOMAIN p = 1..Len(p) /\ \A i \in 1..Len(p) : p[i] \in S
  OBVIOUS
<1>2. Elements(p) \subseteq S
  BY <1>1 DEF Elements
<1>3. CASE p = <<>>
  <2>1. DOMAIN p = {}
    BY <1>1, <1>3
  <2> QED BY <1>2, <1>3, <2>1 DEF Elements
<1>4. CASE p # <<>>
  <2>1. 1 \in DOMAIN p
    BY <1>1, <1>4
  <2>2. p[1] \in Elements(p)
    BY <2>1 DEF Elements
  <2> QED BY <1>2, <1>4, <2>2
<1> QED BY <1>3, <1>4

(* The engine accepts nothing that is blocked.                             *)
LEMMA PinnedVerdict ==
  ValidatePinnedTarget = "none" => \A a \in Elements(pins) : ~isBlockedIP(a)
  BY DEF ValidatePinnedTarget

LEMMA ResolvedVerdict ==
  ValidateTarget = "none" => \A a \in Elements(Candidates) : ~isBlockedIP(a)
  BY DEF ValidateTarget

(* Verdicts are causes.                                                    *)
LEMMA VerdictType == createScanVerdict \in Causes
  BY DEF createScanVerdict, ValidatePinnedTarget, VerifyCurrentResolution, ValidateTarget, Causes

(* The verdict on pins depends on nothing that DNS or a handler changes.    *)
LEMMA SameVerdict ==
  UNCHANGED <<target, config, pins>> => (ValidatePinnedTarget' = ValidatePinnedTarget)
  BY DEF ValidatePinnedTarget, isBlockedIP, NoRepeats, Elements

(* It holds initially.                                                     *)
LEMMA InitHolds == Init => IInv
  BY PinningAssumption DEF Init, IInv, TypeOK, RouteOK, PinsOK, DialedOK, AcceptedOK, Causes

(* Every step keeps it.                                                    *)
LEMMA StepHolds == IInv /\ [Next]_vars => IInv'
<1> SUFFICES ASSUME IInv, [Next]_vars PROVE IInv'
  OBVIOUS
<1> USE DEF IInv
<1>1. ASSUME NEW l \in Lists, DnsChanges(l) PROVE IInv'
  BY <1>1, SameVerdict DEF DnsChanges, AcceptedOK, TypeOK, RouteOK, PinsOK, DialedOK, addressIsSafe, isBlockedIP
<1>2. ASSUME NEW l \in Lists, Request(l) PROVE IInv'
  BY <1>2 DEF Request, AcceptedOK, TypeOK, RouteOK, PinsOK, DialedOK, addressIsSafe, isBlockedIP
<1>3. CASE Authorize
  <2> USE <1>3 DEF Authorize
  <2>1. PICK p \in Lists : Elements(p) = Resolved /\ pins' = p
    OBVIOUS
  <2>2. TypeOK' /\ RouteOK' /\ DialedOK' /\ AcceptedOK'
    BY <2>1 DEF TypeOK, RouteOK, DialedOK, AcceptedOK, isBlockedIP
  <2>3. p # <<>> /\ \A a \in Elements(p) : addressIsSafe(a)
    BY <2>1, SomeElement, PinningAssumption DEF allAddressesSafe
  <2>4. target # Host => Elements(p) = {target}
    BY <2>1 DEF Resolved
  <2>5. PinsOK'
    BY <2>1, <2>3, <2>4 DEF PinsOK, addressIsSafe
  <2> QED BY <2>2, <2>5
<1>4. CASE Deny
  BY <1>4 DEF Deny, AcceptedOK, TypeOK, RouteOK, PinsOK, DialedOK, isBlockedIP
<1>5. CASE createScan
  <2>1. TypeOK' /\ RouteOK' /\ PinsOK' /\ DialedOK'
    BY <1>5, VerdictType
    DEF createScan, TypeOK, RouteOK, PinsOK, DialedOK, addressIsSafe, isBlockedIP
  <2>2. route = "api" /\ createScanVerdict = "none" => ValidatePinnedTarget = "none"
    BY <1>5 DEF createScan, PinsOK, createScanVerdict
  <2>3. AcceptedOK'
    BY <1>5, <2>2, SameVerdict DEF createScan, AcceptedOK
  <2> QED BY <2>1, <2>3
<1>6. CASE Scan
  <2> USE <1>6 DEF Scan
  <2>1. RouteOK' /\ PinsOK'
    BY DEF RouteOK, PinsOK, addressIsSafe
  <2>0. AcceptedOK'
    BY DEF AcceptedOK, PinsOK, ScanVerdict
  <2>2. CASE ScanVerdict = "none" /\ pins # <<>>
    <3>1. dialed' = Elements(pins) /\ at' = "dialed"
      BY <2>2
    <3>2. \A a \in Elements(pins) : ~isBlockedIP(a)
      BY <2>2, PinnedVerdict DEF ScanVerdict
    <3>3. DialedOK'
      BY <3>1, <3>2 DEF DialedOK, isBlockedIP
    <3>4. Elements(pins) \subseteq Addresses
      BY SomeElement, PinningAssumption DEF TypeOK
    <3>5. TypeOK'
      BY <3>1, <3>4 DEF TypeOK
    <3> QED BY <2>0, <2>1, <3>3, <3>5
  <2>3. CASE ScanVerdict = "none" /\ pins = <<>>
    <3>1. dialed' = Elements(Candidates) /\ at' = "dialed"
      BY <2>3
    <3>2. \A a \in Elements(Candidates) : ~isBlockedIP(a)
      BY <2>3, ResolvedVerdict DEF ScanVerdict
    <3>3. route # "api"
      BY <2>3 DEF PinsOK
    <3>4. DialedOK'
      BY <3>1, <3>2, <3>3 DEF DialedOK, isBlockedIP
    <3>5. Candidates \in Seq(Addresses)
      BY PinningAssumption DEF TypeOK, Candidates
    <3>6. TypeOK'
      BY <3>1, <3>5, SomeElement DEF TypeOK
    <3> QED BY <2>0, <2>1, <3>4, <3>6
  <2>4. CASE ScanVerdict # "none"
    BY <2>0, <2>1, <2>4 DEF TypeOK, DialedOK, isBlockedIP
  <2> QED BY <2>2, <2>3, <2>4
<1>7. CASE UNCHANGED vars
  BY <1>7, SameVerdict DEF vars, AcceptedOK, TypeOK, RouteOK, PinsOK, DialedOK, addressIsSafe, isBlockedIP
<1> QED BY <1>1, <1>2, <1>3, <1>4, <1>5, <1>6, <1>7 DEF Next

(* IInv holds always.                                                      *)
THEOREM PinningInvariant == Spec => []IInv
  BY InitHolds, StepHolds, PTL DEF Spec

(* The state of a request always has its types.                            *)
THEOREM PinningTypeCorrect == Spec => []TypeOK
<1>1. IInv => TypeOK
  BY DEF IInv
<1> QED BY <1>1, PinningInvariant, PTL

(* Whatever DNS answers between the steps, a scan of the API dials exactly *)
(* the addresses the API authorized (authorizeScanTarget, scanner.Scan).   *)
THEOREM PinsAreWhatIsDialed == Spec => []DialsWhatWasAuthorized
<1>1. IInv => DialsWhatWasAuthorized
  BY DEF IInv, PinsOK, DialedOK, DialsWhatWasAuthorized
<1> QED BY <1>1, PinningInvariant, PTL

(* No request of any client makes the engine dial an address that          *)
(* isBlockedIP blocks.                                                     *)
THEOREM BlockedIsNeverDialed == Spec => []DialsNothingBlocked
<1>1. IInv => DialsNothingBlocked
  BY DEF IInv, DialedOK, DialsNothingBlocked
<1> QED BY <1>1, PinningInvariant, PTL

(* A scan the API submitted and the engine accepted never fails for its    *)
(* target, although DNS may change before its goroutine runs.              *)
THEOREM AcceptedTargetsStay == Spec => []AcceptedIsScanned
<1>1. IInv => AcceptedIsScanned
  BY DEF IInv, AcceptedOK, AcceptedIsScanned
<1> QED BY <1>1, PinningInvariant, PTL

-----------------------------------------------------------------------------
(* Refusals                                                                *)

(* A list that repeats nothing is as long as it has elements.              *)
LEMMA DistinctLength ==
  ASSUME NEW S, NEW p \in Seq(S), NoRepeats(p)
  PROVE  Cardinality(Elements(p)) = Len(p)
<1>1. Len(p) \in Nat /\ DOMAIN p = 1..Len(p) OBVIOUS
<1>2. p \in [1..Len(p) -> Elements(p)] BY <1>1 DEF Elements
<1>3. p \in Bijection(1..Len(p), Elements(p))
  BY <1>1, <1>2, Fun_IsBij DEF NoRepeats, Elements
<1>4. ExistsBijection(1..Len(p), Elements(p)) BY <1>3, Fun_ExistsBij
<1> QED BY <1>1, <1>4, FS_CountingElements

(* What the API posts, and, as long as DNS answers the same, that it is    *)
(* what the name resolves to.                                              *)
PostedOK ==
  route = "api" /\ at = "post" =>
    /\ NoRepeats(pins) /\ Len(pins) <= MaximumAddresses
    /\ target # Host => pins = <<target>>
    /\ ~change /\ target = Host => Elements(pins) = Elements(dns)

LEMMA AuthorizePosts == ASSUME IInv, Authorize PROVE PostedOK'
<1>1. PICK p \in Lists : NoRepeats(p) /\ Elements(p) = Resolved /\ pins' = p
  BY DEF Authorize
<1>2. p \in Seq(Addresses) /\ Len(p) \in Nat BY PinningAssumption
<1>3. Len(p) <= MaximumAddresses
  BY <1>1, <1>2, DistinctLength DEF Authorize, allAddressesSafe
<1>4. ASSUME target # Host PROVE p = <<target>>
  <2>1. Elements(p) = {target} BY <1>1, <1>4 DEF Resolved
  <2>2. Len(p) = 1 BY <1>1, <1>2, <2>1, DistinctLength, FS_Singleton
  <2>3. p[1] = target BY <1>2, <2>1, <2>2 DEF Elements
  <2> QED BY <1>2, <2>2, <2>3
<1>5. target = Host => Elements(p) = Elements(dns) BY <1>1 DEF Resolved
<1> QED BY <1>1, <1>3, <1>4, <1>5, SMTT(20) DEF Authorize, PostedOK, NoRepeats, Elements

(* Why the engine refuses what the API posts.                              *)
LEMMA RefusalCause ==
  ASSUME IInv, PostedOK, createScan, route = "api" PROVE RefusedForCause'
<1>1. /\ at = "post" /\ cause' = createScanVerdict
      /\ at' = "refused" => createScanVerdict # "none"
      /\ UNCHANGED <<dns, target, config, route, pins, change>>
  BY DEF createScan
<1>2. /\ pins # <<>> /\ \A a \in Elements(pins) : addressIsSafe(a)
      /\ pins \in Seq(Addresses) /\ dns \in Seq(Addresses)
  BY <1>1, PinningAssumption DEF IInv, PinsOK, TypeOK
<1>3. /\ NoRepeats(pins) /\ Len(pins) <= MaximumAddresses
      /\ target # Host => pins = <<target>>
      /\ ~change /\ target = Host => Elements(pins) = Elements(dns)
  BY <1>1 DEF PostedOK
<1>4. /\ ValidatePinnedTarget \in {"none", "not listed", "blocked"}
      /\ ValidatePinnedTarget = "not listed" => ~config.listed
      /\ ValidatePinnedTarget = "blocked" => \E a \in Elements(pins) : isBlockedIP(a)
  BY <1>2, <1>3, PinningAssumption DEF ValidatePinnedTarget
<1>5. ASSUME NEW a \in Elements(pins), isBlockedIP(a) PROVE a[1] = "special"
  BY <1>2, <1>5 DEF isBlockedIP, addressIsSafe
<1>6. /\ VerifyCurrentResolution \in {"none", "unresolved", "changed"}
      /\ VerifyCurrentResolution # "none" => change \/ ~NoRepeats(dns)
  <2> SUFFICES ASSUME target = Host, ~change, NoRepeats(dns)
               PROVE  VerifyCurrentResolution = "none"
    BY DEF VerifyCurrentResolution
  <2>1. Elements(pins) = Elements(dns) BY <1>3
  <2>2. Cardinality(Elements(pins)) = Len(pins) /\ Cardinality(Elements(dns)) = Len(dns)
    BY <1>2, <1>3, DistinctLength
  <2>3. sameIPSet(pins, dns) BY <1>3, <2>1, <2>2 DEF sameIPSet
  <2>4. dns # <<>> BY <1>2, <2>1, SomeElement
  <2> QED BY <2>3, <2>4 DEF VerifyCurrentResolution
<1>7. createScanVerdict =
        IF ValidatePinnedTarget # "none" THEN ValidatePinnedTarget ELSE VerifyCurrentResolution
  BY <1>2 DEF createScanVerdict
<1>8. at' = "refused" =>
        \/ createScanVerdict = "not listed" /\ ~config.listed
        \/ createScanVerdict = "blocked" /\ \E a \in Elements(pins) : a[1] = "special"
        \/ createScanVerdict \in {"changed", "unresolved"} /\ (change \/ ~NoRepeats(dns))
  BY <1>1, <1>4, <1>5, <1>6, <1>7
<1> QED BY <1>1, <1>8 DEF RefusedForCause, NoRepeats, Elements

(* The engine refuses what the API authorized for known causes only: its    *)
(* allowlist, a special-use range, or an answer of DNS that is not the one  *)
(* the API had (createScanHandler, VerifyCurrentResolution).               *)
THEOREM RefusalsHaveCauses == Spec => []RefusedForCause
<1>1. Init => PostedOK /\ RefusedForCause BY DEF Init, PostedOK, RefusedForCause
<1>2. IInv /\ PostedOK /\ RefusedForCause /\ [Next]_vars => (PostedOK /\ RefusedForCause)'
  <2> SUFFICES ASSUME IInv, PostedOK, RefusedForCause, [Next]_vars
               PROVE  PostedOK' /\ RefusedForCause'
    OBVIOUS
  <2>1. ASSUME NEW l \in Lists, DnsChanges(l) PROVE PostedOK' /\ RefusedForCause'
    <3>1. RefusedForCause' BY <2>1 DEF DnsChanges, RefusedForCause
    <3>2. change' /\ UNCHANGED <<target, route, at, pins>> BY <2>1 DEF DnsChanges
    <3>3. PostedOK' BY <3>2 DEF PostedOK, NoRepeats
    <3> QED BY <3>1, <3>3
  <2>2. ASSUME NEW l \in Lists, Request(l) PROVE PostedOK' /\ RefusedForCause'
    BY <2>2 DEF Request, PostedOK, RefusedForCause, IInv, RouteOK
  <2>3. CASE Authorize
    BY <2>3, AuthorizePosts DEF Authorize, RefusedForCause
  <2>4. CASE Deny BY <2>4 DEF Deny, PostedOK, RefusedForCause
  <2>5. CASE createScan
    <3>1. PostedOK' BY <2>5 DEF createScan, PostedOK
    <3>2. route # "api" => RefusedForCause' BY <2>5 DEF createScan, RefusedForCause
    <3> QED BY <2>5, <3>1, <3>2, RefusalCause
  <2>6. CASE Scan BY <2>6 DEF Scan, PostedOK, RefusedForCause
  <2>7. CASE UNCHANGED vars
    <3>1. Elements(pins)' = Elements(pins) /\ Elements(dns)' = Elements(dns)
          /\ NoRepeats(pins)' = NoRepeats(pins) /\ NoRepeats(dns)' = NoRepeats(dns)
      BY <2>7 DEF vars, NoRepeats, Elements
    <3>2. PostedOK' BY <2>7, <3>1 DEF vars, PostedOK
    <3>3. RefusedForCause' BY <2>7, <3>1 DEF vars, RefusedForCause
    <3> QED BY <3>2, <3>3
  <2> QED BY <2>1, <2>2, <2>3, <2>4, <2>5, <2>6, <2>7 DEF Next
<1> QED BY <1>1, <1>2, PinningInvariant, PTL DEF Spec

=============================================================================
