--------------------------- MODULE TargetPinning ---------------------------
(***************************************************************************)
(* From the authorization of a scan target to the addresses that are       *)
(* dialed: the API resolves and checks a target and sends the addresses as *)
(* pins (ballerina-api/target_authorization.bal), the engine checks them,  *)
(* compares them with what it resolves itself and dials the pins           *)
(* (internal/validation/validation.go).  A development client may post     *)
(* without pins, or with pins of its own.  DNS answers change at any time. *)
(*                                                                         *)
(* An address is its class in both services' classifications and a number. *)
(* Lists of addresses may repeat an address; their order is of no          *)
(* importance to anything below.                                           *)
(***************************************************************************)
EXTENDS Naturals, Sequences, FiniteSets

CONSTANTS
  Addresses,       \* pairs of a class and a number
  Lists,           \* lists of addresses a DNS answer or a request may hold
  Host,            \* a host name
  MaximumAddresses \* 16 in both services

Classes == {"public", "special", "private", "uniqueLocal", "siteLocal",
            "loopback", "linkLocal", "multicast", "unspecified", "metadata"}

ASSUME PinningAssumption ==
  /\ Addresses \subseteq Classes \X Nat
  /\ Lists \subseteq Seq(Addresses) /\ <<>> \in Lists
  /\ \A a \in Addresses : <<a>> \in Lists
  /\ Host \notin Addresses
  /\ MaximumAddresses \in Nat \ {0}

VARIABLES
  dns,    \* what the name resolves to; <<>>: resolution fails
  target, \* what is to be scanned: an address or Host
  config, \* the engine's configuration, and whether its allowlist has target
  route,  \* who posts: the API, or a client in development
  at,     \* where the request is
  pins,   \* authorizedAddresses of the request
  dialed, \* the addresses connections were made to
  cause,  \* observer: why the engine refused
  change  \* observer: dns changed since the API resolved it

vars == <<dns, target, config, route, at, pins, dialed, cause, change>>

Elements(s)  == {s[i] : i \in DOMAIN s}
NoRepeats(s) == \A i, j \in DOMAIN s : s[i] = s[j] => i = j

(* Load refuses to allow private targets outside of isolated development.  *)
Config == {c \in [isolatedDevelopment: BOOLEAN, allowPrivate: BOOLEAN, listed: BOOLEAN] :
             c.allowPrivate => c.isolatedDevelopment}

Init ==
  /\ dns \in Lists
  /\ target \in Addresses \cup {Host}
  /\ config \in Config
  /\ route \in {"api", "client"}
  /\ at = IF route = "api" THEN "authorize" ELSE "request"
  /\ pins = <<>>
  /\ dialed = {}
  /\ cause = "none"
  /\ change = FALSE

DnsChanges(answer) ==
  /\ at \notin {"denied", "refused", "failed", "dialed"}
  /\ answer # dns
  /\ dns' = answer
  /\ change' = TRUE
  /\ UNCHANGED <<target, config, route, at, pins, dialed, cause>>

-----------------------------------------------------------------------------
(* The API                                                                 *)

(* Java's classification of addresses and the explicit prefixes; it knows  *)
(* no special-use ranges.                                                  *)
addressIsSafe(a) ==
  a[1] \notin {"unspecified", "loopback", "linkLocal", "private", "siteLocal",
               "multicast", "uniqueLocal", "metadata"}

allAddressesSafe(as) ==
  as # {} /\ Cardinality(as) <= MaximumAddresses /\ \A a \in as : addressIsSafe(a)

(* resolveAllAddresses drops repetitions.                                  *)
Resolved == IF target = Host THEN Elements(dns) ELSE {target}

(* authorizeScanTarget, when a rule was found for the target.              *)
Authorize ==
  /\ at = "authorize"
  /\ allAddressesSafe(Resolved)
  /\ \E p \in Lists : NoRepeats(p) /\ Elements(p) = Resolved /\ pins' = p
  /\ at' = "post"
  /\ change' = FALSE
  /\ UNCHANGED <<dns, target, config, route, dialed, cause>>

(* No rule, no answer, too many addresses or an unsafe one.                *)
Deny ==
  /\ at = "authorize"
  /\ at' = "denied"
  /\ UNCHANGED <<dns, target, config, route, pins, dialed, cause, change>>

(* A client of the engine's own interface sends what it likes.             *)
Request(p) ==
  /\ at = "request"
  /\ pins' = p
  /\ at' = "post"
  /\ UNCHANGED <<dns, target, config, route, dialed, cause, change>>

-----------------------------------------------------------------------------
(* The engine                                                              *)

(* Private means RFC 1918 and fc00::/7; the deprecated fec0::/10 passes.   *)
isBlockedIP(a) ==
  \/ a[1] \in {"unspecified", "loopback", "linkLocal", "multicast", "metadata", "special"}
  \/ a[1] \in {"private", "uniqueLocal"} /\ ~config.allowPrivate

(* ValidatePinnedTarget: no resolution.  "none" accepts.                   *)
ValidatePinnedTarget ==
  IF ~config.listed THEN "not listed"
  ELSE IF Len(pins) > MaximumAddresses THEN "too many"
  ELSE IF \E a \in Elements(pins) : isBlockedIP(a) THEN "blocked"
  ELSE IF ~NoRepeats(pins) THEN "repeats"
  ELSE IF target # Host /\ pins # <<target>> THEN "not the target"
  ELSE "none"

(* sameIPSet: equal sets, and neither list repeats an address.             *)
sameIPSetInOrder(left, right) == left = right \* mutant
sameIPSet(left, right) ==
  /\ Len(left) = Len(right) /\ NoRepeats(left)
  /\ Elements(right) \subseteq Elements(left)
  /\ Cardinality(Elements(right)) = Len(right)

VerifyCurrentResolution ==
  IF target # Host THEN "none"
  ELSE IF dns = <<>> THEN "unresolved"
  ELSE IF ~sameIPSet(pins, dns) THEN "changed"
  ELSE "none"

(* ValidateTarget: resolves, and accepts what may be dialed.               *)
Candidates == IF target = Host THEN dns ELSE <<target>>
ValidateTargetLiteralOnly == \* mutant
  IF ~config.listed THEN "not listed"
  ELSE IF target # Host /\ isBlockedIP(target) THEN "blocked"
  ELSE IF Candidates = <<>> THEN "unresolved"
  ELSE "none"
ValidateTarget ==
  IF ~config.listed THEN "not listed"
  ELSE IF Candidates = <<>> THEN "unresolved"
  ELSE IF Len(Candidates) > MaximumAddresses THEN "too many"
  ELSE IF \E a \in Elements(Candidates) : isBlockedIP(a) THEN "blocked"
  ELSE "none"

(* createScanHandler up to the admission.                                  *)
createScanVerdict ==
  IF pins # <<>>
    THEN IF ValidatePinnedTarget # "none" THEN ValidatePinnedTarget
                                          ELSE VerifyCurrentResolution
    ELSE IF config.isolatedDevelopment THEN ValidateTarget ELSE "no pins"

createScan ==
  /\ at = "post"
  /\ cause' = createScanVerdict
  /\ at' = IF createScanVerdict = "none" THEN "run" ELSE "refused"
  /\ UNCHANGED <<dns, target, config, route, pins, dialed, change>>

(* Scan, later, in the job's goroutine: validates again and dials the pins *)
(* or, without pins, what the name resolves to now.                        *)
ScanResolvesAgain == IF pins # <<>> THEN VerifyCurrentResolution ELSE ValidateTarget \* mutant
ScanVerdict == IF pins # <<>> THEN ValidatePinnedTarget ELSE ValidateTarget

ScanDialsCurrent == \* mutant
  /\ at = "run"
  /\ IF ScanVerdict = "none"
       THEN at' = "dialed" /\ dialed' = Elements(Candidates)
       ELSE at' = "failed" /\ UNCHANGED dialed
  /\ UNCHANGED <<dns, target, config, route, pins, cause, change>>
ScanDialsTheName == \* mutant
  /\ at = "run"
  /\ IF ScanVerdict = "none"
       THEN at' = "dialed" /\ dialed' = IF pins # <<>> THEN Elements(pins) ELSE {target}
       ELSE at' = "failed" /\ UNCHANGED dialed
  /\ UNCHANGED <<dns, target, config, route, pins, cause, change>>
Scan ==
  /\ at = "run"
  /\ IF ScanVerdict = "none"
       THEN /\ at' = "dialed"
            /\ dialed' = Elements(IF pins # <<>> THEN pins ELSE Candidates)
       ELSE at' = "failed" /\ UNCHANGED dialed
  /\ UNCHANGED <<dns, target, config, route, pins, cause, change>>

-----------------------------------------------------------------------------

Next ==
  \/ \E l \in Lists : DnsChanges(l) \/ Request(l)
  \/ Authorize \/ Deny \/ createScan \/ Scan

Spec == Init /\ [][Next]_vars

-----------------------------------------------------------------------------
(* Properties                                                              *)

Causes == {"none", "not listed", "too many", "blocked", "repeats", "not the target",
           "unresolved", "changed", "no pins"}

TypeOK ==
  /\ dns \in Lists
  /\ target \in Addresses \cup {Host}
  /\ config \in Config
  /\ route \in {"api", "client"}
  /\ at \in {"authorize", "denied", "request", "post", "refused", "run", "failed", "dialed"}
  /\ pins \in Lists
  /\ dialed \subseteq Addresses
  /\ cause \in Causes
  /\ change \in BOOLEAN

(* What a scan of the API dials is exactly what the API authorized and     *)
(* both services consider safe, however DNS answers change meanwhile.      *)
DialsWhatWasAuthorized ==
  route = "api" /\ at = "dialed" =>
    /\ dialed = Elements(pins)
    /\ \A a \in dialed : addressIsSafe(a) /\ ~isBlockedIP(a)
    /\ target # Host => dialed = {target}

(* Nobody gets the engine to dial a blocked address: the last resolution   *)
(* before the dial is the one that was checked.                            *)
DialsNothingBlocked == \A a \in dialed : ~isBlockedIP(a)

(* What the API authorized is refused for three reasons only: the engine's *)
(* own allowlist, a special-use range that the API does not know, or a DNS *)
(* answer that changed, failed or repeats an address.                      *)
RefusedForCause ==
  route = "api" /\ at = "refused" =>
    \/ cause = "not listed" /\ ~config.listed
    \/ cause = "blocked" /\ \E a \in Elements(pins) : a[1] = "special"
    \/ cause \in {"changed", "unresolved"} /\ (change \/ ~NoRepeats(dns))

(* A scan that the engine accepted from the API never fails for its target *)
(* afterwards.                                                             *)
AcceptedIsScanned == route = "api" => at # "failed"

=============================================================================
