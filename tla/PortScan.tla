------------------------------ MODULE PortScan ------------------------------
(***************************************************************************)
(* Scan of the scanner engine (internal/scanner/scanner.go): one loop      *)
(* starts a goroutine per address and port, a buffered channel limits how  *)
(* many run at once, a wait group tells when all have ended, a mutex       *)
(* guards the slice of results.                                            *)
(*                                                                         *)
(* A probe is an index into the validated addresses and a port, and names  *)
(* its goroutine.  append reads the slice and writes it back: two steps.   *)
(* What the dial found (open, closed, an error text) is abstracted: the    *)
(* worker goes on in the same way.                                         *)
(***************************************************************************)
EXTENDS Integers, Sequences, FiniteSets

CONSTANTS
  MaximumAddresses, \* of a validated target: 16 in validation.go
  MaximumPort,      \* 65535 in validation.go
  Limits            \* what maxPorts, maxConcurrent and timeout may be

ASSUME ScanAssumption ==
  /\ MaximumAddresses \in Nat \ {0}
  /\ MaximumPort \in Nat \ {0}
  /\ Limits \subseteq Int

MinimumPort == 1

(* Ports beyond both ends stand for every port out of range.               *)
PortNumbers == (MinimumPort - 1)..(MaximumPort + 1)

ScanConfig == [startPort: PortNumbers, endPort: PortNumbers,
               maxPorts: Limits, maxConcurrent: Limits, timeout: Limits]

VARIABLES
  config,    \* the argument of Scan
  addresses, \* how many addresses the target has
  feeder,    \* the goroutine that called Scan: where it is, its loop variables
  worker,    \* per probe: where its goroutine is, the slice its append read
  sem,       \* slots of the channel in use
  wg,        \* the counter of the wait group
  mu,        \* the probe whose worker holds the mutex, or NoProbe
  results    \* result.Results

vars == <<config, addresses, feeder, worker, sem, wg, mu, results>>

NoProbe == <<0, 0>>

(* The probes that Scan has to make.                                       *)
Required == (1..addresses) \X (config.startPort..config.endPort)

(* Loops of Scan: all ports of an address, then the next address.          *)
First   == <<1, config.startPort>>
Last    == <<addresses, config.endPort>>
After(p) == IF p[2] < config.endPort
              THEN <<p[1], p[2] + 1>>
              ELSE <<p[1] + 1, config.startPort>>

Unborn == [at |-> "unborn", copy |-> <<>>]

Init ==
  /\ config \in ScanConfig
  /\ addresses \in 1..MaximumAddresses
  /\ feeder = [at |-> "validate", next |-> NoProbe]
  /\ worker = <<>>
  /\ sem = 0
  /\ wg = 0
  /\ mu = NoProbe
  /\ results = <<>>

-----------------------------------------------------------------------------
(* The goroutine that called Scan                                          *)

ValidatePortRange ==
  /\ config.startPort \in MinimumPort..MaximumPort
  /\ config.endPort \in MinimumPort..MaximumPort
  /\ config.startPort <= config.endPort
  /\ config.endPort - config.startPort + 1 <= config.maxPorts

ValidateScanConfigAnyConcurrency == \* mutant
  /\ config.maxPorts > 0
  /\ ValidatePortRange
  /\ config.timeout > 0
ValidateScanConfig ==
  /\ config.maxPorts > 0
  /\ config.maxConcurrent > 0
  /\ ValidatePortRange
  /\ config.timeout > 0

(* The target may be refused as well: blocked, invalid, not resolved.      *)
Reject ==
  /\ feeder.at = "validate"
  /\ feeder' = [feeder EXCEPT !.at = "rejected"]
  /\ UNCHANGED <<config, addresses, worker, sem, wg, mu, results>>

Validate ==
  /\ feeder.at = "validate"
  /\ ValidateScanConfig
  /\ feeder' = [at |-> "acquire", next |-> First]
  /\ worker' = [p \in Required |-> Unborn]
  /\ UNCHANGED <<config, addresses, sem, wg, mu, results>>

(* sem <- struct{}{} waits while the channel is full.                      *)
AcquireOneMore == \* mutant
  /\ feeder.at = "acquire"
  /\ sem <= config.maxConcurrent
  /\ sem' = sem + 1
  /\ feeder' = [feeder EXCEPT !.at = "start"]
  /\ UNCHANGED <<config, addresses, worker, wg, mu, results>>
Acquire ==
  /\ feeder.at = "acquire"
  /\ sem < config.maxConcurrent
  /\ sem' = sem + 1
  /\ feeder' = [feeder EXCEPT !.at = "start"]
  /\ UNCHANGED <<config, addresses, worker, wg, mu, results>>

(* wg.Add(1) and go, then the loops advance.                               *)
Start ==
  /\ feeder.at = "start"
  /\ wg' = wg + 1
  /\ worker' = [worker EXCEPT ![feeder.next].at = "dial"]
  /\ feeder' = [at |-> IF feeder.next = Last THEN "wait" ELSE "acquire",
                next |-> After(feeder.next)]
  /\ UNCHANGED <<config, addresses, sem, mu, results>>

ReturnAtOnce == \* mutant
  /\ feeder.at = "wait"
  /\ feeder' = [feeder EXCEPT !.at = "returned"]
  /\ UNCHANGED <<config, addresses, worker, sem, wg, mu, results>>
Return ==
  /\ feeder.at = "wait"
  /\ wg = 0
  /\ feeder' = [feeder EXCEPT !.at = "returned"]
  /\ UNCHANGED <<config, addresses, worker, sem, wg, mu, results>>

-----------------------------------------------------------------------------
(* The goroutine of probe p                                                *)

Goes(p, from, to) ==
  /\ worker[p].at = from
  /\ worker' = [worker EXCEPT ![p].at = to]

(* scanPortFunc: ends at the latest when the dial's timeout has passed.    *)
Dial(p) ==
  /\ Goes(p, "dial", "lock")
  /\ UNCHANGED <<config, addresses, feeder, sem, wg, mu, results>>

LockIgnored(p) == \* mutant
  /\ Goes(p, "lock", "read")
  /\ mu' = p
  /\ UNCHANGED <<config, addresses, feeder, sem, wg, results>>
Lock(p) ==
  /\ mu = NoProbe
  /\ Goes(p, "lock", "read")
  /\ mu' = p
  /\ UNCHANGED <<config, addresses, feeder, sem, wg, results>>

AppendReads(p) ==
  /\ worker[p].at = "read"
  /\ worker' = [worker EXCEPT ![p] = [at |-> "write", copy |-> results]]
  /\ UNCHANGED <<config, addresses, feeder, sem, wg, mu, results>>

AppendWrites(p) ==
  /\ worker[p].at = "write"
  /\ results' = Append(worker[p].copy, p)
  /\ worker' = [worker EXCEPT ![p] = [at |-> "unlock", copy |-> <<>>]]
  /\ UNCHANGED <<config, addresses, feeder, sem, wg, mu>>

Unlock(p) ==
  /\ Goes(p, "unlock", "release")
  /\ mu' = NoProbe
  /\ UNCHANGED <<config, addresses, feeder, sem, wg, results>>

(* The deferred calls run last in, first out: the slot, then wg.Done.      *)
Release(p) ==
  /\ Goes(p, "release", "done")
  /\ sem' = sem - 1
  /\ UNCHANGED <<config, addresses, feeder, wg, mu, results>>

DoneTwice(p) == \* mutant
  /\ Goes(p, "done", "ended")
  /\ wg' = wg - 2
  /\ UNCHANGED <<config, addresses, feeder, sem, mu, results>>
Done(p) ==
  /\ Goes(p, "done", "ended")
  /\ wg' = wg - 1
  /\ UNCHANGED <<config, addresses, feeder, sem, mu, results>>

-----------------------------------------------------------------------------

Feed == Reject \/ Validate \/ Acquire \/ Start \/ Return

Work(p) ==
  \/ Dial(p) \/ Lock(p) \/ AppendReads(p) \/ AppendWrites(p)
  \/ Unlock(p) \/ Release(p) \/ Done(p)

Next == Feed \/ \E p \in DOMAIN worker : Work(p)

(* Goroutines are scheduled, a dial has a timeout, and a mutex that        *)
(* finitely many goroutines take once each is eventually had by all.       *)
Probes == (1..MaximumAddresses) \X (MinimumPort..MaximumPort)
Spec ==
  /\ Init /\ [][Next]_vars
  /\ WF_vars(Feed)
  /\ \A p \in Probes : WF_vars(p \in DOMAIN worker /\ Work(p))

-----------------------------------------------------------------------------
(* Properties                                                              *)

WorkerAt == {"unborn", "dial", "lock", "read", "write", "unlock", "release",
             "done", "ended"}
FeederAt == {"validate", "acquire", "start", "wait", "returned", "rejected"}

(* Every variable has its type, and no counter becomes negative: a wait    *)
(* group panics at -1, a receive from an empty channel blocks for ever.    *)
TypeOK ==
  /\ config \in ScanConfig
  /\ addresses \in 1..MaximumAddresses
  /\ feeder \in [at: FeederAt, next: Int \X Int]
  /\ worker \in [DOMAIN worker -> [at: WorkerAt, copy: Seq(Int \X Int)]]
  /\ DOMAIN worker \subseteq Required
  /\ sem \in Nat
  /\ wg \in Nat
  /\ mu \in Int \X Int
  /\ results \in Seq(Int \X Int)

(* When Scan returns its results, every port of every address was          *)
(* reported exactly once, and no goroutine is left that would still write  *)
(* to them or hold a connection (lines 52-79 of scanner.go).               *)
ReturnsEveryPortOnce ==
  feeder.at = "returned" =>
    /\ \A p \in Required : \E i \in DOMAIN results : results[i] = p
    /\ \A i, j \in DOMAIN results : results[i] = results[j] => i = j
    /\ \A i \in DOMAIN results : results[i] \in Required
    /\ \A p \in DOMAIN worker : worker[p].at = "ended"

(* Never more connections at once than maxConcurrent (line 54).            *)
Dialing == {p \in DOMAIN worker : worker[p].at = "dial"}
ConnectionsBounded ==
  Dialing # {} => Cardinality(Dialing) <= config.maxConcurrent

(* No reported port is lost again: an append never overwrites another's    *)
(* (the mutex of lines 69-71).                                             *)
NoReportLost ==
  [][/\ Len(results') >= Len(results)
     /\ \A i \in DOMAIN results : results'[i] = results[i]]_vars

(* Scan always returns, whatever it is called with: the loop is never left *)
(* waiting for a slot, nor Wait for a worker.                              *)
ScanReturns == <>(feeder.at \in {"returned", "rejected"})

=============================================================================
