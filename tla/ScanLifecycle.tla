--------------------------- MODULE ScanLifecycle ---------------------------
(***************************************************************************)
(* What the API promises of a scan, with dispatchers, leases, pollers, the *)
(* scanner engine and every failure left out: a request is denied or       *)
(* queued, an owner has a limited number of scans under way, a scan is     *)
(* dispatched at most once and ends at most once, and each of these steps  *)
(* is told to the audit trail when it is taken. ScanDispatch implements    *)
(* this specification.                                                     *)
(***************************************************************************)
EXTENDS Integers, FiniteSets, Sequences

CONSTANTS Scans, Owners, NoOwner, MaxActiveScansPerOwner

VARIABLES
  status,  \* of each scan, as persistedPublicStatus shows it
  owner,   \* of each scan
  events   \* its audit events, oldest first

life == <<status, owner, events>>

Init ==
  /\ status = [s \in Scans |-> "NONE"]
  /\ owner = [s \in Scans |-> NoOwner]
  /\ events = [s \in Scans |-> <<>>]

UnderWay(o) == {s \in Scans : status[s] \in {"QUEUED", "RUNNING"} /\ owner[s] = o}

Enter(s, o, st) ==
  /\ status[s] = "NONE"
  /\ status' = [status EXCEPT ![s] = st]
  /\ owner' = [owner EXCEPT ![s] = o]

Request(s, o) ==
  /\ Cardinality(UnderWay(o)) < MaxActiveScansPerOwner
  /\ Enter(s, o, "QUEUED")
  /\ events' = [events EXCEPT ![s] = <<"SCAN_REQUESTED">>]

Deny(s, o) ==
  /\ Enter(s, o, "BLOCKED")
  /\ events' = [events EXCEPT ![s] = <<"SCAN_REQUESTED", "SCAN_BLOCKED">>]

Move(s, from, to, event) ==
  /\ status[s] \in from
  /\ status' = [status EXCEPT ![s] = to]
  /\ events' = [events EXCEPT ![s] = Append(@, event)]
  /\ UNCHANGED owner

Start(s)    == Move(s, {"QUEUED"}, "RUNNING", "SCAN_STARTED")
Block(s)    == Move(s, {"QUEUED"}, "BLOCKED", "SCAN_BLOCKED")
Complete(s) == Move(s, {"RUNNING"}, "COMPLETED", "SCAN_COMPLETED")
Fail(s)     == Move(s, {"QUEUED", "RUNNING"}, "FAILED", "SCAN_FAILED")

Next ==
  \E s \in Scans :
    \/ \E o \in Owners : Request(s, o) \/ Deny(s, o)
    \/ Start(s) \/ Block(s) \/ Complete(s) \/ Fail(s)

Spec == Init /\ [][Next]_life
=============================================================================
