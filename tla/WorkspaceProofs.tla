-------------------------- MODULE WorkspaceProofs --------------------------
(***************************************************************************)
(* The safety of the pages and the backend proxy, for any number of rules, *)
(* writes in flight, moves and faults, any sessions and environments.      *)
(***************************************************************************)
EXTENDS Workspace, FiniteSetTheorems, TLAPS

-----------------------------------------------------------------------------
(* The invariant                                                           *)

(* One write: nothing is performed before it is over, a refusal is final,   *)
(* and a success is told only of what was performed.                       *)
CallOK(c) ==
  /\ c.up # "over" => ~c.performed
  /\ Refused(c.ans) => c.up = "over" /\ ~c.performed
  /\ Ok(c.ans) => c.performed
  /\ c.op = "disable" => c.rule \in Rules
CallsOK == \A w \in Slots : calls[w] # NoValue => CallOK(calls[w])

(* Scans come from submissions, and those from moves.                      *)
PendingSubmits ==
  {w \in Slots : calls[w] # NoValue /\ calls[w].op = "submit" /\ calls[w].up # "over"}
ScansCounted ==
  /\ IsFiniteSet(PendingSubmits)
  /\ scans + Cardinality(PendingSubmits) <= moves

(* What is shown or was read as disabled is so; a dashboard that is loading *)
(* shows no rules, so a click finds a list that stays.  Of the clicks on    *)
(* one rule only one is performed, and until its answer arrives the rule is *)
(* still shown as enabled.                                                 *)
Clicked(w) ==
  calls[w] # NoValue /\ calls[w].op = "disable" /\ calls[w].here /\ ~calls[w].got
ShownOK ==
  /\ \A r \in Rules : view.shown[r] = "disabled" => rules[r] = "disabled"
  /\ read # NoValue =>
       /\ \A r \in Rules : read.shown[r] = "disabled" => rules[r] = "disabled"
       /\ read.what = "load" => \A r \in Rules : view.shown[r] = "absent"
  /\ \A w \in Slots : Clicked(w) =>
       /\ view.shown[calls[w].rule] # "absent"
       /\ calls[w].performed =>
            view.shown[calls[w].rule] = "enabled" /\ rules[calls[w].rule] = "disabled"
  /\ \A w, x \in Slots :
       Clicked(w) /\ Clicked(x) /\ calls[w].performed /\ calls[x].performed
         /\ calls[w].rule = calls[x].rule => w = x

IInv == TypeOK /\ CallsOK /\ ScansCounted /\ ShownOK

-----------------------------------------------------------------------------
(* Values                                                                  *)

LEMMA RuleCount ==
  /\ IsFiniteSet(Rules) /\ Cardinality(Rules) \in Nat
  /\ \A S \in SUBSET Rules : Cardinality(S) \in 0..Cardinality(Rules)
<1>1. IsFiniteSet(Rules) BY WorkspaceAssumption, FS_Interval DEF Rules
<1>2. ASSUME NEW S \in SUBSET Rules PROVE Cardinality(S) \in 0..Cardinality(Rules)
  <2>1. IsFiniteSet(S) /\ Cardinality(S) <= Cardinality(Rules) BY <1>1, FS_Subset
  <2> QED BY <2>1, <1>1, FS_CardinalityType
<1> QED BY <1>1, <1>2, FS_CardinalityType

LEMMA BlankTyped == Blank \in Views /\ Blank.count = 0
                    /\ \A r \in Rules : Blank.shown[r] = "absent"
BY WorkspaceAssumption, RuleCount DEF Blank, Views, RuleState

LEMMA MountedTyped ==
  ASSUME NEW p
  PROVE  /\ Mounted(p) \in Views
         /\ \A r \in Rules : Mounted(p).shown[r] = "absent"
<1>1. ASSUME NEW b \in BOOLEAN
      PROVE  /\ [Blank EXCEPT !.loading = b] \in Views
             /\ \A r \in Rules : [Blank EXCEPT !.loading = b].shown[r] = "absent"
  BY BlankTyped DEF Views
<1>2. (p \in {"history", "admin"}) \in BOOLEAN OBVIOUS
<1>3. Mounted(p) = [Blank EXCEPT !.loading = p \in {"history", "admin"}] BY DEF Mounted
<1> HIDE DEF Mounted
<1> QED BY <1>1, <1>2, <1>3

LEMMA ReadingTyped ==
  ASSUME NEW what \in DOMAIN Parts
  PROVE  /\ Reading(what, TRUE) \in Readings
         /\ Reading(what, FALSE) \in Readings
         /\ Reading(what, TRUE).what = what
         /\ Reading(what, FALSE).what = what
         /\ \A r \in Rules : Reading(what, TRUE).shown[r] = "absent"
         /\ \A r \in Rules : Reading(what, FALSE).shown[r] = "absent"
<1>1. Blank.shown \in [Rules -> RuleState] BY BlankTyped DEF Views
<1> QED
  BY <1>1, BlankTyped, WorkspaceAssumption, RuleCount
  DEF Reading, Readings, Statuses, None

LEMMA PartNames ==
  /\ DOMAIN Parts = {"list", "load", "filter"}
  /\ \A what \in DOMAIN Parts : Parts[what] \subseteq Parted
BY DEF Parts, Parted

LEMMA MountedReadingTyped ==
  ASSUME NEW p
  PROVE  /\ MountedReading(p) \in {NoValue} \cup Readings
         /\ MountedReading(p) # NoValue =>
              \A r \in Rules : MountedReading(p).shown[r] = "absent"
<1>1. CASE p = "history"
  <2>1. MountedReading(p) = Reading("list", TRUE) BY <1>1 DEF MountedReading
  <2>2. "list" \in DOMAIN Parts BY PartNames
  <2>3. /\ Reading("list", TRUE) \in Readings
        /\ \A r \in Rules : Reading("list", TRUE).shown[r] = "absent"
    BY <2>2, ReadingTyped, Zenon
  <2> QED BY <2>1, <2>3, Zenon
<1>2. CASE p = "admin"
  <2>1. MountedReading(p) = Reading("load", FALSE) BY <1>2 DEF MountedReading
  <2>2. "load" \in DOMAIN Parts BY PartNames
  <2>3. /\ Reading("load", FALSE) \in Readings
        /\ \A r \in Rules : Reading("load", FALSE).shown[r] = "absent"
    BY <2>2, ReadingTyped, Zenon
  <2> QED BY <2>1, <2>3, Zenon
<1>3. CASE p # "history" /\ p # "admin"
  <2>1. MountedReading(p) = NoValue BY <1>3 DEF MountedReading
  <2> QED BY <2>1
<1> QED BY <1>1, <1>2, <1>3

LEMMA WriteTyped ==
  ASSUME NEW op \in Writes, NEW rule \in Rules \cup {NoValue}
  PROVE  Write(op, rule) \in Calls
BY WorkspaceAssumption DEF Write, Calls, Statuses, None

LEMMA StatusesTyped ==
  /\ timeout \in Statuses /\ unreachable \in Statuses /\ Lost \in Statuses
  /\ Local \in Statuses /\ None \in Statuses
  /\ GatewayRefusals \cup GatewayRedirects \subseteq Statuses /\ ApiFailures \subseteq Statuses
  /\ \A status \in Statuses, e \in BOOLEAN : relay(status, e) \in Statuses
BY DEF timeout, unreachable, Lost, Local, None, GatewayRefusals, GatewayRedirects, ApiFailures,
       relay, Statuses

LEMMA RefusalTyped ==
  ASSUME NEW e, NEW s, NEW op
  PROVE  proxyRefusal(e, s, op) \in {None, 401, 403, 413, 503}
<1>1. CASE s = NoValue BY <1>1 DEF proxyRefusal
<1>2. CASE s # NoValue /\ ~loadApiProxyConfig(e) BY <1>2 DEF proxyRefusal
<1>3. CASE s # NoValue /\ loadApiProxyConfig(e) BY <1>3 DEF proxyRefusal
<1> QED BY <1>1, <1>2, <1>3

-----------------------------------------------------------------------------
(* What a step on one write leaves alone                                   *)

LEMMA BecomesEffect ==
  ASSUME TypeOK, NEW w \in Slots, NEW call \in Calls, Becomes(w, call)
  PROVE  /\ calls' \in [Slots -> {NoValue} \cup Calls]
         /\ \A x \in Slots : x # w => calls'[x] = calls[x]
         /\ calls'[w] # NoValue =>
              /\ calls'[w].op = call.op /\ calls'[w].rule = call.rule
              /\ calls'[w].here = call.here /\ calls'[w].up = call.up
              /\ calls'[w].performed = call.performed
              /\ calls'[w].ans = call.ans /\ calls'[w].got = call.got
<1> DEFINE left == [call EXCEPT !.as = NoValue]
<1>1. /\ left \in Calls /\ left.op = call.op /\ left.rule = call.rule
      /\ left.here = call.here /\ left.up = call.up /\ left.performed = call.performed
      /\ left.ans = call.ans /\ left.got = call.got
  BY WorkspaceAssumption DEF Calls
<1>2. \E c \in {NoValue, left, call} : calls' = [calls EXCEPT ![w] = c]
  <2>1. CASE call.up = "over" /\ call.got BY <2>1 DEF Becomes
  <2>2. CASE call.up = "over" /\ ~call.got BY <2>2 DEF Becomes
  <2>3. CASE call.up # "over" BY <2>3 DEF Becomes
  <2> QED BY <2>1, <2>2, <2>3
<1>3. PICK c \in {NoValue, left, call} : calls' = [calls EXCEPT ![w] = c] BY <1>2
<1> HIDE DEF left
<1>4. calls \in [Slots -> {NoValue} \cup Calls] BY DEF TypeOK
<1>5. c \in {NoValue} \cup Calls BY <1>1, <1>3
<1>6. calls' \in [Slots -> {NoValue} \cup Calls] BY <1>3, <1>4, <1>5
<1>7. (\A x \in Slots : x # w => calls'[x] = calls[x]) /\ calls'[w] = c
  BY <1>3, <1>4
<1> QED BY <1>1, <1>3, <1>6, <1>7

LEMMA CallsKept ==
  ASSUME TypeOK, CallsOK, NEW w \in Slots, NEW call \in Calls, CallOK(call), Becomes(w, call)
  PROVE  CallsOK'
<1>1. ASSUME NEW x \in Slots, calls'[x] # NoValue PROVE CallOK(calls'[x])
  <2>1. CASE x # w BY <1>1, <2>1, BecomesEffect DEF CallsOK
  <2>2. CASE x = w BY <1>1, <2>2, BecomesEffect DEF CallOK
  <2> QED BY <2>1, <2>2
<1> QED BY <1>1 DEF CallsOK, CallOK, Rules, Refused, Ok

LEMMA SubmitsKept ==
  ASSUME TypeOK, ScansCounted, NEW w \in Slots, NEW call \in Calls, Becomes(w, call),
         calls[w] # NoValue, call.op = calls[w].op,
         calls[w].up = "over" => call.up = "over"
  PROVE  PendingSubmits' \in {PendingSubmits, PendingSubmits \ {w}}
<1>1. ASSUME NEW x \in Slots, x # w
      PROVE  x \in PendingSubmits' <=> x \in PendingSubmits
  BY <1>1, BecomesEffect DEF PendingSubmits
<1>2. w \in PendingSubmits' => w \in PendingSubmits
  BY BecomesEffect DEF PendingSubmits
<1> QED BY <1>1, <1>2 DEF PendingSubmits

(* A set of submissions that loses one, or none, is still small enough.     *)
LEMMA CountKept ==
  ASSUME TypeOK, ScansCounted, NEW w,
         PendingSubmits' \in {PendingSubmits, PendingSubmits \ {w}},
         UNCHANGED <<scans, moves>>
  PROVE  ScansCounted'
<1>1. /\ IsFiniteSet(PendingSubmits \ {w})
      /\ Cardinality(PendingSubmits \ {w}) <= Cardinality(PendingSubmits)
      /\ Cardinality(PendingSubmits) \in Nat
      /\ Cardinality(PendingSubmits \ {w}) \in Nat
  <2>1. IsFiniteSet(PendingSubmits \ {w}) BY FS_RemoveElement DEF ScansCounted
  <2> QED BY <2>1, FS_RemoveElement, FS_CardinalityType DEF ScansCounted
<1>2. IsFiniteSet(PendingSubmits') /\ Cardinality(PendingSubmits') \in Nat
      /\ Cardinality(PendingSubmits') <= Cardinality(PendingSubmits)
  <2>1. CASE PendingSubmits' = PendingSubmits BY <2>1, <1>1 DEF ScansCounted
  <2>2. CASE PendingSubmits' = PendingSubmits \ {w} BY <2>2, <1>1
  <2> QED BY <2>1, <2>2
<1>3. scans \in Nat /\ moves \in Nat /\ scans' = scans /\ moves' = moves
  BY WorkspaceAssumption DEF TypeOK
<1>4. scans + Cardinality(PendingSubmits) <= moves BY DEF ScansCounted
<1> HIDE DEF PendingSubmits
<1>5. scans' + Cardinality(PendingSubmits') <= moves' BY <1>1, <1>2, <1>3, <1>4
<1> QED BY <1>2, <1>5 DEF ScansCounted

(* Where no click is made or performed, and the rules only advance.         *)
ClicksKept ==
  \A x \in Slots : Clicked(x)' =>
    /\ Clicked(x)
    /\ calls'[x].rule = calls[x].rule /\ calls'[x].performed = calls[x].performed
RulesAdvance == \A r \in Rules : rules[r] = "disabled" => rules'[r] = "disabled"
ReadingOK ==
  read # NoValue =>
    /\ \A r \in Rules : read.shown[r] = "disabled" => rules[r] = "disabled"
    /\ read.what = "load" => \A r \in Rules : view.shown[r] = "absent"

LEMMA ShownStays ==
  ASSUME TypeOK, CallsOK, ShownOK, ClicksKept, RulesAdvance, ReadingOK',
         view'.shown = view.shown
  PROVE  ShownOK'
<1>1. \A r \in Rules : view'.shown[r] = "disabled" => rules'[r] = "disabled"
  BY DEF ShownOK, RulesAdvance
<1>2. ASSUME NEW x \in Slots, Clicked(x)'
      PROVE  /\ view'.shown[calls'[x].rule] # "absent"
             /\ calls'[x].performed =>
                  /\ view'.shown[calls'[x].rule] = "enabled"
                  /\ rules'[calls'[x].rule] = "disabled"
  <2>1. Clicked(x) /\ calls'[x].rule = calls[x].rule
        /\ calls'[x].performed = calls[x].performed
    BY <1>2 DEF ClicksKept
  <2>2. calls[x].rule \in Rules BY <2>1 DEF CallsOK, CallOK, Clicked
  <2> QED BY <2>1, <2>2 DEF ShownOK, RulesAdvance
<1>3. ASSUME NEW w \in Slots, NEW x \in Slots, Clicked(w)', Clicked(x)',
             calls'[w].performed, calls'[x].performed, calls'[w].rule = calls'[x].rule
      PROVE  w = x
  BY <1>3 DEF ClicksKept, ShownOK
<1> QED BY <1>1, <1>2, <1>3 DEF ShownOK, ReadingOK, Clicked

-----------------------------------------------------------------------------
(* The actions on one write                                                *)

LEMMA CallStep ==
  ASSUME IInv, NEW w \in Slots, calls[w] # NoValue, NEW call \in Calls, CallOK(call),
         Becomes(w, call),
         call.op = calls[w].op, call.rule = calls[w].rule, call.here = calls[w].here,
         call.performed = calls[w].performed,
         calls[w].up = "over" => call.up = "over", calls[w].got => call.got,
         UNCHANGED <<env, session, rules, scans, page, view, read, pushing, moves>>,
         faults' \in 0..MaxFaults
  PROVE  IInv'
<1>1. TypeOK' BY BecomesEffect DEF IInv, TypeOK
<1>2. CallsOK' BY CallsKept DEF IInv
<1>3. ScansCounted'
  <2>1. PendingSubmits' \in {PendingSubmits, PendingSubmits \ {w}}
    BY SubmitsKept DEF IInv
  <2> QED BY <2>1, CountKept DEF IInv
<1>4. ShownOK'
  <2>1. ClicksKept BY BecomesEffect DEF IInv, ClicksKept, Clicked
  <2>2. RulesAdvance /\ ReadingOK' /\ view'.shown = view.shown
    BY DEF IInv, RulesAdvance, ReadingOK, ShownOK
  <2> QED BY <2>1, <2>2, ShownStays DEF IInv
<1> QED BY <1>1, <1>2, <1>3, <1>4 DEF IInv

LEMMA OverStep ==
  ASSUME IInv, NEW w \in InFlight, calls[w].up # "over", NEW status \in Statuses,
         ~Ok(status), Over(w, status),
         UNCHANGED <<env, session, rules, scans, page, view, read, pushing, moves>>,
         faults' \in 0..MaxFaults
  PROVE  IInv'
<1> DEFINE call == [calls[w] EXCEPT !.up = "over", !.ans = IF @ = None THEN status ELSE @]
<1>1. w \in Slots /\ calls[w] # NoValue /\ calls[w] \in Calls BY DEF InFlight, IInv, TypeOK
<1>2. /\ call \in Calls /\ call.op = calls[w].op /\ call.rule = calls[w].rule
      /\ call.here = calls[w].here /\ call.performed = calls[w].performed
      /\ call.up = "over" /\ call.got = calls[w].got
      /\ call.ans \in {calls[w].ans, status}
  BY <1>1 DEF Calls
<1>3. CallOK(calls[w]) BY <1>1 DEF IInv, CallsOK
<1>4. Becomes(w, call) BY DEF Over
<1> HIDE DEF call
<1>5. CallOK(call) BY <1>2, <1>3 DEF CallOK
<1> QED BY <1>1, <1>2, <1>4, <1>5, CallStep

LEMMA proxyKeeps == ASSUME IInv, NEW w \in Slots, proxy(w) PROVE IInv'
<1>1. w \in InFlight /\ calls[w].up = "sent" /\ calls[w] # NoValue /\ calls[w] \in Calls
  BY DEF proxy, InFlight, IInv, TypeOK
<1>2. faults' \in 0..MaxFaults BY DEF proxy, IInv, TypeOK
<1> DEFINE refusal == proxyRefusal(env, session, calls[w].op)
<1>3. refusal \in {None, 401, 403, 413, 503} BY RefusalTyped
<1>4. CASE refusal # None
  <2>1. Over(w, refusal) BY <1>4 DEF proxy
  <2>2. refusal \in Statuses /\ ~Ok(refusal) BY <1>3, <1>4 DEF Statuses, Ok
  <2> HIDE DEF refusal
  <2> QED BY <1>1, <1>2, <2>1, <2>2, OverStep DEF proxy
<1>5. CASE refusal = None
  <2> DEFINE call == [calls[w] EXCEPT !.up = "pending", !.as = session]
  <2>1. Becomes(w, call) BY <1>5 DEF proxy
  <2>2. /\ call \in Calls /\ call.op = calls[w].op /\ call.rule = calls[w].rule
        /\ call.here = calls[w].here /\ call.performed = calls[w].performed
        /\ call.up = "pending" /\ call.ans = calls[w].ans /\ call.got = calls[w].got
    BY <1>1 DEF Calls, IInv, TypeOK
  <2>3. CallOK(call)
    <3> HIDE DEF call
    <3>1. CallOK(calls[w]) BY <1>1 DEF IInv, CallsOK
    <3> QED BY <3>1, <2>2, <1>1 DEF CallOK
  <2> HIDE DEF call
  <2> QED BY <1>1, <1>2, <2>1, <2>2, <2>3, CallStep DEF proxy
<1> QED BY <1>4, <1>5

(* A status that says neither a refusal nor a success.                     *)
LEMMA AnsweredOpen ==
  ASSUME IInv, NEW w \in InFlight, NEW status \in Statuses, ~Ok(status), ~Refused(status),
         Becomes(w, [calls[w] EXCEPT !.ans = status]),
         UNCHANGED <<env, session, rules, scans, page, view, read, pushing, moves>>,
         faults' \in 0..MaxFaults
  PROVE  IInv'
<1> DEFINE call == [calls[w] EXCEPT !.ans = status]
<1>1. w \in Slots /\ calls[w] # NoValue /\ calls[w] \in Calls BY DEF InFlight, IInv, TypeOK
<1>2. /\ call \in Calls /\ call.op = calls[w].op /\ call.rule = calls[w].rule
      /\ call.here = calls[w].here /\ call.performed = calls[w].performed
      /\ call.up = calls[w].up /\ call.got = calls[w].got /\ call.ans = status
  BY <1>1 DEF Calls
<1>3. CallOK(calls[w]) BY <1>1 DEF IInv, CallsOK
<1>4. Becomes(w, call) OBVIOUS
<1> HIDE DEF call
<1>5. CallOK(call) BY <1>2, <1>3 DEF CallOK
<1> QED BY <1>1, <1>2, <1>4, <1>5, CallStep

LEMMA TimesOutKeeps == ASSUME IInv, NEW w \in Slots, TimesOut(w) PROVE IInv'
<1>1. timeout \in Statuses /\ ~Ok(timeout) /\ ~Refused(timeout)
  BY DEF timeout, Statuses, Ok, Refused
<1> QED BY <1>1, AnsweredOpen DEF TimesOut, IInv, TypeOK

LEMMA FaultTyped == ASSUME TypeOK, Fault PROVE faults' \in 0..MaxFaults
BY WorkspaceAssumption DEF TypeOK, Fault

LEMMA BreaksKeeps == ASSUME IInv, NEW w \in Slots, Breaks(w) PROVE IInv'
<1>1. Lost \in Statuses /\ ~Ok(Lost) /\ ~Refused(Lost)
  BY DEF Lost, Statuses, Ok, Refused
<1>2. faults' \in 0..MaxFaults BY FaultTyped DEF Breaks, IInv
<1>3. w \in InFlight BY DEF Breaks, Waiting, InFlight
<1> QED BY <1>1, <1>2, <1>3, AnsweredOpen DEF Breaks

LEMMA RefusesKeeps == ASSUME IInv, NEW w \in Slots, Refuses(w) PROVE IInv'
<1>1. PICK status \in {400, 403, 404, 409, 429} : Over(w, status) BY DEF Refuses
<1>2. status \in Statuses /\ ~Ok(status) BY DEF Statuses, Ok
<1>3. w \in InFlight /\ calls[w].up # "over" BY DEF Refuses, Pending
<1> QED BY <1>1, <1>2, <1>3, OverStep DEF Refuses, IInv, TypeOK

LEMMA NotReachedKeeps == ASSUME IInv, NEW w \in Slots, NotReached(w) PROVE IInv'
<1>0. GatewayRefusals \cup GatewayRedirects \cup ApiFailures \cup {unreachable} = {302, 403, 503}
  BY DEF GatewayRefusals, GatewayRedirects, relay, Ok, ApiFailures, unreachable
<1>1. PICK status \in {302, 403, 503, None} : Over(w, status)
  BY <1>0 DEF NotReached
<1>2. status \in Statuses /\ ~Ok(status) BY DEF Statuses, Ok, None
<1>3. w \in InFlight /\ calls[w].up # "over" BY DEF NotReached
<1>4. faults' \in 0..MaxFaults BY FaultTyped DEF NotReached, IInv, TypeOK
<1> QED BY <1>1, <1>2, <1>3, <1>4, OverStep DEF NotReached

(* The API's statements advance the rules.                                 *)
LEMMA RulesMove ==
  ASSUME TypeOK, insertAllowedTarget \/ \E r \in Rules : disableAllowedTarget(r)
  PROVE  rules' \in [Rules -> RuleState] /\ RulesAdvance
BY DEF TypeOK, insertAllowedTarget, disableAllowedTarget, RuleState, RulesAdvance

LEMMA PerformsKeeps == ASSUME IInv, NEW w \in Slots, Performs(w) PROVE IInv'
<1>1. /\ w \in InFlight /\ calls[w].up = "pending" /\ calls[w] # NoValue
      /\ calls[w] \in Calls /\ CallOK(calls[w])
  BY DEF Performs, Pending, InFlight, IInv, TypeOK, CallsOK
<1> DEFINE call(s) == [calls[w] EXCEPT !.up = "over", !.performed = TRUE,
                                      !.ans = IF @ = None THEN s ELSE @]
<1> DEFINE status == IF calls[w].op = "disable" THEN 200
                     ELSE IF calls[w].op = "create" THEN 201 ELSE 202
<1>0. \/ Becomes(w, call(status)) /\ UNCHANGED faults
      \/ Fault /\ \E t \in ApiFailures \cup {relay(status, FALSE), timeout} :
                    Becomes(w, call(t))
  BY Zenon DEF Performs
<1> HIDE DEF call
<1>2. PICK s \in {200, 201, 202, 502, 503, 504} : Becomes(w, call(s))
  BY <1>0 DEF ApiFailures, relay, timeout, Ok
<1>3. faults' \in 0..MaxFaults
  <2>1. Fault \/ UNCHANGED faults BY <1>0, Zenon
  <2> QED BY <2>1, FaultTyped DEF IInv, TypeOK
<1> HIDE DEF status
<1>4. s \in Statuses /\ ~Refused(s) BY DEF Statuses, Refused
<1>5. /\ call(s) \in Calls /\ call(s).op = calls[w].op /\ call(s).rule = calls[w].rule
      /\ call(s).here = calls[w].here /\ call(s).performed
      /\ call(s).up = "over" /\ call(s).got = calls[w].got
      /\ call(s).ans \in {calls[w].ans, s}
  BY <1>1, <1>4 DEF Calls, call
<1>6. CallOK(call(s)) BY <1>1, <1>4, <1>5 DEF CallOK
<1>7. CallsOK' BY <1>2, <1>5, <1>6, CallsKept DEF IInv
<1>8. PendingSubmits' \in {PendingSubmits, PendingSubmits \ {w}}
  BY <1>1, <1>2, <1>5, SubmitsKept DEF IInv
<1>9. /\ calls' \in [Slots -> {NoValue} \cup Calls]
      /\ \A x \in Slots : x # w => calls'[x] = calls[x]
      /\ calls'[w] # NoValue =>
           /\ calls'[w].op = calls[w].op /\ calls'[w].rule = calls[w].rule
           /\ calls'[w].here = calls[w].here /\ calls'[w].up = "over"
           /\ calls'[w].performed /\ calls'[w].got = calls[w].got
  BY <1>2, <1>5, BecomesEffect DEF IInv
<1>a. /\ UNCHANGED <<env, session, page, view, read, pushing, moves>>
      /\ calls[w].op \in Writes
  BY <1>1 DEF Performs, Calls
<1>b. CASE calls[w].op = "submit"
  <2>1. scans' = scans + 1 /\ UNCHANGED rules BY <1>b DEF Performs
  <2>2. w \in PendingSubmits /\ w \notin PendingSubmits'
    BY <1>1, <1>9, <1>b DEF PendingSubmits, InFlight
  <2>3. PendingSubmits' = PendingSubmits \ {w} BY <1>8, <2>2
  <2>4. /\ IsFiniteSet(PendingSubmits')
        /\ Cardinality(PendingSubmits') = Cardinality(PendingSubmits) - 1
        /\ Cardinality(PendingSubmits') \in Nat /\ Cardinality(PendingSubmits) \in Nat
    <3>1. IsFiniteSet(PendingSubmits) BY DEF IInv, ScansCounted
    <3>2. IsFiniteSet(PendingSubmits \ {w})
          /\ Cardinality(PendingSubmits \ {w}) = Cardinality(PendingSubmits) - 1
      BY <3>1, <2>2, FS_RemoveElement
    <3> QED BY <3>1, <3>2, <2>3, FS_CardinalityType
  <2>5. /\ scans \in Nat /\ moves \in 0..MaxMoves /\ MaxMoves \in Nat
        /\ scans + Cardinality(PendingSubmits) <= moves
    BY WorkspaceAssumption DEF IInv, TypeOK, ScansCounted
  <2>6. scans' + Cardinality(PendingSubmits') <= moves' /\ scans' \in 0..MaxMoves
    BY <2>1, <2>4, <2>5, <1>a
  <2>7. TypeOK' BY <1>3, <1>9, <1>a, <2>1, <2>6 DEF IInv, TypeOK
  <2>8. ClicksKept BY <1>9, <1>b DEF ClicksKept, Clicked
  <2>9. RulesAdvance /\ ReadingOK' /\ view'.shown = view.shown
    BY <1>a, <2>1 DEF IInv, RulesAdvance, ReadingOK, ShownOK
  <2> QED BY <1>7, <2>4, <2>6, <2>7, <2>8, <2>9, ShownStays DEF IInv, ScansCounted
<1>c. ASSUME calls[w].op # "submit"
      PROVE  TypeOK' /\ ScansCounted' /\ RulesAdvance /\ ReadingOK'
  <2>1. UNCHANGED scans
        /\ (insertAllowedTarget \/ disableAllowedTarget(calls[w].rule))
        /\ (disableAllowedTarget(calls[w].rule) /\ calls[w].op # "create" => calls[w].rule \in Rules)
        /\ (calls[w].op = "create" => insertAllowedTarget)
    <3>1. calls[w].op \in {"create", "disable"} BY <1>a, <1>c DEF Writes
    <3>2. CASE calls[w].op = "create"
      <4>1. insertAllowedTarget /\ UNCHANGED scans BY <3>2 DEF Performs
      <4> QED BY <3>2, <4>1
    <3>3. CASE calls[w].op = "disable"
      <4>1. disableAllowedTarget(calls[w].rule) /\ UNCHANGED scans BY <3>3 DEF Performs
      <4> QED BY <1>1, <3>3, <4>1 DEF CallOK
    <3> QED BY <3>1, <3>2, <3>3
  <2>2. insertAllowedTarget \/ \E r \in Rules : disableAllowedTarget(r)
    BY <2>1
  <2>3. rules' \in [Rules -> RuleState] /\ RulesAdvance BY <2>2, RulesMove DEF IInv
  <2>4. TypeOK' BY <1>3, <1>9, <1>a, <2>1, <2>3 DEF IInv, TypeOK
  <2>5. ScansCounted' BY <1>8, <1>a, <2>1, CountKept DEF IInv
  <2>6. ReadingOK'
    BY <1>a, <2>3 DEF IInv, RulesAdvance, ReadingOK, ShownOK
  <2> QED BY <2>3, <2>4, <2>5, <2>6
<1>d. CASE calls[w].op # "submit" /\ ~Clicked(w)
  <2>1. ClicksKept BY <1>1, <1>9, <1>d DEF ClicksKept, Clicked
  <2> QED BY <1>7, <1>a, <1>c, <1>d, <2>1, ShownStays DEF IInv
<1>e. CASE Clicked(w)
  <2>1. calls[w].op = "disable" /\ calls[w].rule \in Rules
    BY <1>1, <1>e DEF Clicked, CallOK
  <2>2. disableAllowedTarget(calls[w].rule) BY <2>1 DEF Performs
  <2>3. /\ rules[calls[w].rule] = "enabled" /\ rules'[calls[w].rule] = "disabled"
        /\ RulesAdvance
    BY <2>1, <2>2, <1>c DEF disableAllowedTarget, IInv, TypeOK
  <2>4. view \in Views /\ view.shown[calls[w].rule] = "enabled"
    <3>1. view.shown[calls[w].rule] \in RuleState BY <2>1 DEF IInv, TypeOK, Views
    <3>2. view.shown[calls[w].rule] # "absent" BY <1>e DEF IInv, ShownOK
    <3>3. view.shown[calls[w].rule] # "disabled" BY <2>1, <2>3 DEF IInv, ShownOK
    <3> QED BY <3>1, <3>2, <3>3 DEF RuleState, IInv, TypeOK
  <2>5. ASSUME NEW x \in Slots, x # w, Clicked(x), calls[x].performed
        PROVE  calls[x].rule # calls[w].rule
    BY <2>3, <2>5 DEF IInv, ShownOK
  <2>6. ASSUME NEW x \in Slots, Clicked(x)'
        PROVE  /\ view'.shown[calls'[x].rule] # "absent"
               /\ calls'[x].performed =>
                    /\ view'.shown[calls'[x].rule] = "enabled"
                    /\ rules'[calls'[x].rule] = "disabled"
    <3>1. CASE x = w BY <1>9, <1>a, <2>3, <2>4, <2>6, <3>1 DEF Clicked
    <3>2. CASE x # w
      <4>1. Clicked(x) /\ calls'[x] = calls[x] BY <1>9, <2>6, <3>2 DEF Clicked
      <4>2. calls[x].rule \in Rules BY <4>1 DEF IInv, CallsOK, CallOK, Clicked
      <4> QED BY <1>a, <2>3, <4>1, <4>2 DEF IInv, ShownOK, RulesAdvance
    <3> QED BY <3>1, <3>2
  <2>7. ASSUME NEW x \in Slots, NEW y \in Slots, Clicked(x)', Clicked(y)',
               calls'[x].performed, calls'[y].performed, calls'[x].rule = calls'[y].rule
        PROVE  x = y
    <3>1. \A z \in {x, y} : z # w => Clicked(z) /\ calls'[z] = calls[z]
      BY <1>9, <2>7 DEF Clicked
    <3>2. \A z \in {x, y} : z = w => calls'[z].rule = calls[w].rule
      BY <1>9, <2>7 DEF Clicked
    <3>3. CASE x # w /\ y # w BY <3>1, <3>3, <2>7 DEF IInv, ShownOK
    <3>4. CASE x = w /\ y # w BY <3>1, <3>2, <3>4, <2>5, <2>7
    <3>5. CASE x # w /\ y = w BY <3>1, <3>2, <3>5, <2>5, <2>7
    <3> QED BY <3>3, <3>4, <3>5
  <2>8. \A r \in Rules : view'.shown[r] = "disabled" => rules'[r] = "disabled"
    BY <1>a, <2>3 DEF IInv, ShownOK, RulesAdvance
  <2>9. ReadingOK' BY <1>c, <2>1
  <2>10. ShownOK' BY <2>6, <2>7, <2>8, <2>9 DEF ShownOK, ReadingOK, Clicked
  <2> QED BY <1>7, <1>c, <2>1, <2>10 DEF IInv
<1> QED BY <1>b, <1>d, <1>e

(* What a page makes of an answer: where it shows another rule as disabled, *)
(* it was performed for a click.                                           *)
LEMMA ContinuedTyped ==
  ASSUME IInv, NEW w \in Slots, calls[w] # NoValue, calls[w].ans # None,
         calls[w].here, ~calls[w].got
  PROVE  /\ Continued(calls[w]) \in Views
         /\ \/ /\ Continued(calls[w]).shown = view.shown
               /\ Continued(calls[w]).count = view.count
            \/ /\ calls[w].op = "disable" /\ calls[w].performed
               /\ Continued(calls[w]).shown =
                    [view.shown EXCEPT ![calls[w].rule] = "disabled"]
               /\ Continued(calls[w]).count = oneLess(view.count)
<1>1. /\ calls[w] \in Calls /\ CallOK(calls[w]) /\ view \in Views
  BY DEF IInv, TypeOK, CallsOK
<1>2. /\ calls[w].op \in Writes /\ Alert(calls[w].op, calls[w].ans) \in [op: Operations, status: Statuses]
      /\ Alert("create", calls[w].ans) \in [op: Operations, status: Statuses]
  BY <1>1 DEF Alert, Calls, Operations, Writes
<1>3. [view EXCEPT !.alert = Alert(calls[w].op, calls[w].ans)] \in Views
      /\ [view EXCEPT !.alert = Alert(calls[w].op, calls[w].ans)].shown = view.shown
      /\ [view EXCEPT !.alert = Alert(calls[w].op, calls[w].ans)].count = view.count
  BY <1>1, <1>2 DEF Views
<1>4. CASE calls[w].op = "create"
  <2>1. Continued(calls[w]) = [view EXCEPT !.alert = Alert("create", calls[w].ans)]
    BY <1>4 DEF Continued
  <2> QED BY <1>1, <1>2, <2>1 DEF Views
<1>5. CASE calls[w].op # "create" /\ ~Ok(calls[w].ans)
  <2>1. Continued(calls[w]) = [view EXCEPT !.alert = Alert(calls[w].op, calls[w].ans)]
    BY <1>5 DEF Continued
  <2> QED BY <1>3, <2>1
<1>6. CASE calls[w].op = "submit" /\ Ok(calls[w].ans)
  <2>1. Continued(calls[w]) = view BY <1>6 DEF Continued
  <2> QED BY <1>1, <2>1
<1>7. CASE calls[w].op = "disable" /\ Ok(calls[w].ans)
  <2>1. calls[w].rule \in Rules /\ calls[w].performed BY <1>1, <1>7 DEF CallOK
  <2>2. view.shown[calls[w].rule] # "absent"
    BY <1>7 DEF IInv, ShownOK, Clicked
  <2>3. Continued(calls[w]) =
          [view EXCEPT !.shown[calls[w].rule] = IF @ = "absent" THEN @ ELSE "disabled",
                       !.count = oneLess(@), !.notice = "disable"]
    BY <1>7 DEF Continued
  <2>4. oneLess(view.count) \in 0..Cardinality(Rules)
    BY <1>1, RuleCount DEF oneLess, Views
  <2>5. /\ Continued(calls[w]).shown = [view.shown EXCEPT ![calls[w].rule] = "disabled"]
        /\ Continued(calls[w]).count = oneLess(view.count)
        /\ Continued(calls[w]) \in Views
    <3> DEFINE now == [view.shown EXCEPT ![calls[w].rule] = "disabled"]
    <3>1. view.shown \in [Rules -> RuleState] /\ now \in [Rules -> RuleState]
      BY <1>1, <2>1 DEF Views, RuleState
    <3>2. Continued(calls[w]) =
            [view EXCEPT !.shown = now, !.count = oneLess(view.count), !.notice = "disable"]
      BY <1>1, <2>2, <2>3 DEF Views
    <3> HIDE DEF now
    <3>3. /\ Continued(calls[w]).shown = now
          /\ Continued(calls[w]).count = oneLess(view.count)
          /\ Continued(calls[w]) \in Views
      BY <1>1, <2>4, <3>1, <3>2 DEF Views
    <3> QED BY <3>3 DEF now
  <2> QED BY <1>7, <2>1, <2>5
<1> QED BY <1>2, <1>4, <1>5, <1>6, <1>7 DEF Writes

LEMMA WriteArrivesKeeps == ASSUME IInv, NEW w \in Slots, WriteArrives(w) PROVE IInv'
<1>1. /\ w \in InFlight /\ calls[w] # NoValue /\ calls[w].ans # None /\ ~calls[w].got
      /\ calls[w] \in Calls /\ CallOK(calls[w])
  BY DEF WriteArrives, InFlight, IInv, TypeOK, CallsOK
<1> DEFINE call == [calls[w] EXCEPT !.got = TRUE]
<1>2. Becomes(w, call) /\ UNCHANGED <<env, session, rules, scans, page, read, moves, faults>>
  BY DEF WriteArrives
<1>3. /\ call \in Calls /\ call.op = calls[w].op /\ call.rule = calls[w].rule
      /\ call.up = calls[w].up /\ call.performed = calls[w].performed
      /\ call.ans = calls[w].ans /\ call.got
  BY <1>1 DEF Calls
<1> HIDE DEF call
<1>4. CallsOK' BY <1>1, <1>2, <1>3, CallsKept DEF CallOK, IInv
<1>5. ScansCounted'
  <2>1. PendingSubmits' \in {PendingSubmits, PendingSubmits \ {w}}
    BY <1>1, <1>2, <1>3, SubmitsKept DEF IInv
  <2> QED BY <1>2, <2>1, CountKept DEF IInv
<1>6. /\ calls' \in [Slots -> {NoValue} \cup Calls]
      /\ \A x \in Slots : x # w => calls'[x] = calls[x]
      /\ ~Clicked(w)'
  BY <1>2, <1>3, BecomesEffect DEF IInv, Clicked
<1>7. ClicksKept BY <1>6 DEF ClicksKept, Clicked
<1>8. RulesAdvance BY <1>2 DEF RulesAdvance
<1>9. /\ view' \in Views
      /\ \/ view'.shown = view.shown
         \/ /\ calls[w].here /\ calls[w].op = "disable" /\ calls[w].performed
            /\ view'.shown = [view.shown EXCEPT ![calls[w].rule] = "disabled"]
  BY <1>1, ContinuedTyped DEF WriteArrives, IInv, TypeOK
<1>a. TypeOK'
  <2>1. pushing' \in BOOLEAN BY DEF WriteArrives
  <2> QED BY <1>2, <1>6, <1>9, <2>1 DEF IInv, TypeOK
<1>b. CASE view'.shown = view.shown
  <2>1. ReadingOK' BY <1>2, <1>b DEF IInv, ReadingOK, ShownOK
  <2> QED BY <1>4, <1>5, <1>7, <1>8, <1>a, <1>b, <2>1, ShownStays DEF IInv
<1>c. CASE /\ calls[w].here /\ calls[w].op = "disable" /\ calls[w].performed
           /\ view'.shown = [view.shown EXCEPT ![calls[w].rule] = "disabled"]
  <2>1. Clicked(w) /\ calls[w].rule \in Rules BY <1>1, <1>c DEF Clicked, CallOK
  <2>2. view.shown[calls[w].rule] = "enabled" /\ rules'[calls[w].rule] = "disabled"
    BY <1>2, <1>c, <2>1 DEF IInv, ShownOK
  <2>3. view.shown \in [Rules -> RuleState] BY DEF IInv, TypeOK, Views
  <2>4. \A r \in Rules : view'.shown[r] = IF r = calls[w].rule THEN "disabled"
                                          ELSE view.shown[r]
    BY <1>c, <2>3
  <2>5. \A r \in Rules : view'.shown[r] = "disabled" => rules'[r] = "disabled"
    BY <1>2, <2>2, <2>4 DEF IInv, ShownOK
  <2>6. ReadingOK' BY <1>2, <2>1, <2>2 DEF IInv, ShownOK, ReadingOK
  <2>7. ASSUME NEW x \in Slots, Clicked(x)'
        PROVE  /\ view'.shown[calls'[x].rule] # "absent"
               /\ calls'[x].performed =>
                    /\ view'.shown[calls'[x].rule] = "enabled"
                    /\ rules'[calls'[x].rule] = "disabled"
    <3>1. x # w /\ calls'[x] = calls[x] /\ Clicked(x) BY <1>6, <2>7 DEF Clicked
    <3>2. calls[x].rule \in Rules BY <3>1 DEF IInv, CallsOK, CallOK, Clicked
    <3>3. calls[x].performed => calls[x].rule # calls[w].rule
      BY <1>c, <2>1, <3>1 DEF IInv, ShownOK
    <3> QED BY <1>2, <2>4, <3>1, <3>2, <3>3 DEF IInv, ShownOK
  <2>8. ASSUME NEW x \in Slots, NEW y \in Slots, Clicked(x)', Clicked(y)',
               calls'[x].performed, calls'[y].performed, calls'[x].rule = calls'[y].rule
        PROVE  x = y
    BY <1>7, <2>8 DEF ClicksKept, IInv, ShownOK
  <2>9. ShownOK' BY <2>5, <2>6, <2>7, <2>8 DEF ShownOK, ReadingOK, Clicked
  <2> QED BY <1>4, <1>5, <1>a, <2>9 DEF IInv
<1> QED BY <1>9, <1>b, <1>c

-----------------------------------------------------------------------------
(* Actions that leave the writes alone                                     *)

LEMMA NoWriteStep ==
  ASSUME IInv, UNCHANGED <<calls, scans>>, moves' \in 0..MaxMoves, moves <= moves',
         view'.shown = view.shown, RulesAdvance, ReadingOK'
  PROVE  CallsOK' /\ ScansCounted' /\ ShownOK'
<1>1. CallsOK' BY DEF IInv, CallsOK, CallOK, Rules, Refused, Ok
<1>2. ScansCounted'
  <2>1. PendingSubmits' = PendingSubmits BY DEF PendingSubmits
  <2>2. IsFiniteSet(PendingSubmits) /\ Cardinality(PendingSubmits) \in Nat
        /\ scans \in Nat /\ moves \in Nat
        /\ scans + Cardinality(PendingSubmits) <= moves
    BY WorkspaceAssumption, FS_CardinalityType DEF IInv, TypeOK, ScansCounted
  <2> HIDE DEF PendingSubmits
  <2> QED BY <2>1, <2>2, WorkspaceAssumption DEF ScansCounted
<1>3. ClicksKept BY DEF ClicksKept, Clicked
<1> QED BY <1>1, <1>2, <1>3, ShownStays DEF IInv

LEMMA MoveTyped == ASSUME TypeOK, Move PROVE moves' \in 0..MaxMoves /\ moves <= moves'
                                             /\ moves' = moves + 1
BY WorkspaceAssumption DEF TypeOK, Move

(* A reading that starts or fails shows nothing new.                       *)
LEMMA ReadingStarts ==
  ASSUME IInv, NEW what \in DOMAIN Parts, read' = Reading(what, TRUE),
         view' = [view EXCEPT !.loading = TRUE, !.alert = NoValue],
         what = "load" => \A r \in Rules : view.shown[r] = "absent",
         UNCHANGED <<env, session, rules, scans, page, calls, pushing, faults>>,
         moves' \in 0..MaxMoves, moves <= moves'
  PROVE  IInv'
<1>1. read' \in Readings /\ read'.what = what /\ \A r \in Rules : read'.shown[r] = "absent"
  BY ReadingTyped, Zenon
<1>2. view' \in Views /\ view'.shown = view.shown BY DEF IInv, TypeOK, Views
<1>3. TypeOK' BY <1>1, <1>2 DEF IInv, TypeOK
<1>4. RulesAdvance /\ ReadingOK' BY <1>1, <1>2 DEF RulesAdvance, ReadingOK
<1> QED BY <1>2, <1>3, <1>4, NoWriteStep DEF IInv

LEMMA retryKeeps == ASSUME IInv, retry PROVE IInv'
<1>1. moves' \in 0..MaxMoves /\ moves <= moves' BY MoveTyped DEF retry, IInv
<1> QED BY <1>1, ReadingStarts, PartNames DEF retry

LEMMA filterScansKeeps == ASSUME IInv, filterScans PROVE IInv'
<1>1. moves' \in 0..MaxMoves /\ moves <= moves' BY MoveTyped DEF filterScans, IInv
<1> QED BY <1>1, ReadingStarts, PartNames DEF filterScans

LEMMA loadDashboardKeeps == ASSUME IInv, loadDashboard PROVE IInv'
<1>1. /\ read \in Readings /\ read' \in Readings /\ read'.what = read.what
      /\ read'.shown = read.shown
  BY DEF loadDashboard, IInv, TypeOK, Readings
<1>2. view' \in Views /\ view'.shown = view.shown
  BY DEF loadDashboard, IInv, TypeOK, Views
<1>3. TypeOK' BY <1>1, <1>2 DEF loadDashboard, IInv, TypeOK
<1>4. RulesAdvance /\ ReadingOK'
  BY <1>1, <1>2 DEF loadDashboard, RulesAdvance, ReadingOK, IInv, ShownOK
<1>5. moves' \in 0..MaxMoves /\ moves <= moves'
  BY WorkspaceAssumption DEF loadDashboard, IInv, TypeOK
<1> QED BY <1>2, <1>3, <1>4, <1>5, NoWriteStep DEF loadDashboard, IInv

LEMMA PartFailsKeeps ==
  ASSUME IInv, read # NoValue, NEW status \in Statuses, PartFails(status),
         faults' \in 0..MaxFaults
  PROVE  IInv'
<1>1. read \in Readings /\ read.what \in DOMAIN Parts BY DEF IInv, TypeOK, Readings
<1>2. /\ Reading(read.what, TRUE) \in Readings /\ Reading(read.what, TRUE).what = read.what
      /\ \A r \in Rules : Reading(read.what, TRUE).shown[r] = "absent"
  BY <1>1, ReadingTyped, Zenon
<1>3. /\ read' \in Readings /\ read'.what = read.what
      /\ \A r \in Rules : read'.shown[r] = "absent"
  BY <1>2 DEF PartFails, Readings
<1>4. TypeOK' BY <1>3 DEF PartFails, IInv, TypeOK
<1>5. RulesAdvance /\ ReadingOK'
  BY <1>3 DEF PartFails, RulesAdvance, ReadingOK, IInv, ShownOK
<1>6. moves' \in 0..MaxMoves /\ moves <= moves'
  BY WorkspaceAssumption DEF PartFails, IInv, TypeOK
<1> QED BY <1>4, <1>5, <1>6, NoWriteStep DEF PartFails, IInv

LEMMA ProxyEndsReadKeeps == ASSUME IInv, NEW part, ProxyEndsRead(part) PROVE IInv'
<1> DEFINE refusal == proxyRefusal(env, session, part)
<1>1. refusal \in {None, 401, 403, 413, 503} BY RefusalTyped
<1>2. PICK status \in Statuses : PartFails(status)
  BY <1>1 DEF ProxyEndsRead, timeout, bodyTimeout, relay, Ok, Statuses, None
<1> QED BY <1>1, <1>2, PartFailsKeeps DEF ProxyEndsRead, ReadAsked, IInv, TypeOK

LEMMA ReadFailsKeeps == ASSUME IInv, NEW part, ReadFails(part) PROVE IInv'
<1>1. PICK status \in {Lost, relay(200, FALSE)} \cup GatewayRefusals \cup GatewayRedirects
                       \cup ApiFailures : PartFails(status)
  BY DEF ReadFails
<1>2. status \in Statuses
  BY DEF GatewayRefusals, GatewayRedirects, ApiFailures, Lost, relay, Ok, Statuses
<1>3. faults' \in 0..MaxFaults BY FaultTyped DEF ReadFails, IInv
<1> QED BY <1>1, <1>2, <1>3, PartFailsKeeps DEF ReadFails, ReadAsked

LEMMA ApiAnswersReadKeeps ==
  ASSUME IInv, NEW part \in Parted, ApiAnswersRead(part) PROVE IInv'
<1>1. read # NoValue /\ read \in Readings /\ UNCHANGED faults
  BY DEF ApiAnswersRead, ReadAsked, IInv, TypeOK
<1>2. CASE PartFails(403)
  BY <1>1, <1>2, PartFailsKeeps DEF Statuses, IInv, TypeOK
<1>3. CASE ~PartFails(403)
  <2>1. /\ read' = [read EXCEPT
               !.got   = @ \cup {part},
               !.items = IF part = "list" THEN scans ELSE @,
               !.count = IF part = "usage" THEN enabledAllowedTargets ELSE @,
               !.shown = IF part = "allowedTargets" THEN rules ELSE @]
        /\ UNCHANGED <<env, session, rules, scans, page, view, calls, pushing, moves>>
    BY <1>3 DEF ApiAnswersRead
  <2>2. enabledAllowedTargets \in 0..Cardinality(Rules)
    BY RuleCount DEF enabledAllowedTargets
  <2>3. /\ read' \in Readings /\ read'.what = read.what
        /\ read'.shown \in {read.shown, rules}
    BY <1>1, <2>1, <2>2 DEF Readings, IInv, TypeOK
  <2>4. TypeOK' BY <1>1, <2>1, <2>3 DEF IInv, TypeOK
  <2>5. RulesAdvance /\ ReadingOK'
    BY <1>1, <2>1, <2>3 DEF RulesAdvance, ReadingOK, IInv, ShownOK
  <2>6. moves' \in 0..MaxMoves /\ moves <= moves'
    BY <2>1, WorkspaceAssumption DEF IInv, TypeOK
  <2> QED BY <2>1, <2>4, <2>5, <2>6, NoWriteStep DEF IInv
<1> QED BY <1>2, <1>3

LEMMA SessionChangesKeeps == ASSUME IInv, SessionChanges PROVE IInv'
<1>1. TypeOK' BY FaultTyped DEF SessionChanges, IInv, TypeOK
<1>2. RulesAdvance /\ ReadingOK' /\ moves' \in 0..MaxMoves /\ moves <= moves'
  BY WorkspaceAssumption DEF SessionChanges, RulesAdvance, ReadingOK, IInv, TypeOK, ShownOK
<1> QED BY <1>1, <1>2, NoWriteStep DEF SessionChanges, IInv

LEMMA OtherAdministratorKeeps == ASSUME IInv, OtherAdministrator PROVE IInv'
<1>1. rules' \in [Rules -> RuleState] /\ RulesAdvance
  BY RulesMove DEF OtherAdministrator, IInv
<1>2. TypeOK' BY <1>1, FaultTyped DEF OtherAdministrator, IInv, TypeOK
<1>3. ReadingOK' /\ moves' \in 0..MaxMoves /\ moves <= moves'
  BY <1>1, WorkspaceAssumption
  DEF OtherAdministrator, RulesAdvance, ReadingOK, IInv, TypeOK, ShownOK
<1> QED BY <1>1, <1>2, <1>3, NoWriteStep DEF OtherAdministrator, IInv

(* What was read arrives; only a load shows other rules, and then none was  *)
(* shown before, so there are no clicks.                                   *)
LEMMA ReadArrivesKeeps == ASSUME IInv, ReadArrives PROVE IInv'
<1>1. /\ read # NoValue /\ read \in Readings /\ view \in Views
      /\ read' = NoValue
      /\ UNCHANGED <<env, session, rules, scans, page, calls, pushing, moves, faults>>
  BY DEF ReadArrives, IInv, TypeOK
<1>2. /\ view' \in Views
      /\ view'.shown = view.shown \/ (read.what = "load" /\ view'.shown = read.shown)
  <2>1. CASE read.failed # None
    <3>1. view' = [view EXCEPT !.alert = Alert(read.what, read.failed), !.loading = FALSE]
      BY <2>1 DEF ReadArrives
    <3>2. Alert(read.what, read.failed) \in [op: Operations, status: Statuses]
      BY <1>1, PartNames DEF Alert, Readings, Operations
    <3> QED BY <1>1, <3>1, <3>2 DEF Views
  <2>2. CASE read.failed = None
    <3>1. view' = [Shown EXCEPT !.loading = FALSE] BY <2>2 DEF ReadArrives
    <3>2. /\ Shown \in Views
          /\ Shown.shown = view.shown \/ (read.what = "load" /\ Shown.shown = read.shown)
      <4>1. CASE read.what = "list"
        <5>1. Shown = [view EXCEPT !.items = read.items, !.alert = NoValue]
          BY <4>1 DEF Shown
        <5> QED BY <1>1, <5>1 DEF Views, Readings
      <4>2. CASE read.what = "load"
        <5>1. Shown = [view EXCEPT !.count = read.count, !.shown = read.shown]
          BY <4>2 DEF Shown
        <5> QED BY <1>1, <4>2, <5>1 DEF Views, Readings
      <4>3. CASE read.what = "filter"
        <5>1. Shown = [view EXCEPT !.notice = "filter"] BY <4>3 DEF Shown
        <5> QED BY <1>1, <5>1 DEF Views
      <4> QED BY <1>1, <4>1, <4>2, <4>3, PartNames DEF Readings
    <3> HIDE DEF Shown
    <3> QED BY <3>1, <3>2 DEF Views
  <2> QED BY <2>1, <2>2
<1>3. TypeOK' BY <1>1, <1>2 DEF IInv, TypeOK
<1>4. RulesAdvance /\ ReadingOK' /\ moves' \in 0..MaxMoves /\ moves <= moves'
  BY <1>1, WorkspaceAssumption DEF RulesAdvance, ReadingOK, IInv, TypeOK
<1>5. CASE view'.shown = view.shown
  BY <1>1, <1>3, <1>4, <1>5, NoWriteStep DEF IInv
<1>6. CASE read.what = "load" /\ view'.shown = read.shown
  <2>1. \A w \in Slots : ~Clicked(w)'
    BY <1>1, <1>6 DEF IInv, ShownOK, Clicked, CallsOK, CallOK
  <2>2. ShownOK' BY <1>1, <1>6, <2>1 DEF IInv, ShownOK, Clicked
  <2>3. CallsOK' BY <1>1 DEF IInv, CallsOK, CallOK, Rules, Refused, Ok
  <2>4. ScansCounted' BY <1>1 DEF IInv, ScansCounted, PendingSubmits
  <2> QED BY <1>3, <2>2, <2>3, <2>4 DEF IInv
<1> QED BY <1>2, <1>5, <1>6

-----------------------------------------------------------------------------
(* Actions that start writes or leave the page                             *)

LEMMA MountKeeps ==
  ASSUME IInv, NEW p \in Pages, Mount(p), moves' \in 0..MaxMoves, moves <= moves',
         UNCHANGED faults
  PROVE  IInv'
<1>1. /\ page' = p /\ view' = Mounted(p) /\ read' = MountedReading(p) /\ pushing' = FALSE
      /\ UNCHANGED <<env, session, rules, scans>>
      /\ calls' = [w \in Slots |-> IF w \in InFlight THEN [calls[w] EXCEPT !.here = FALSE]
                                   ELSE NoValue]
  BY DEF Mount
<1>2. ASSUME NEW w \in Slots, calls[w] # NoValue
      PROVE  /\ calls'[w] \in Calls /\ ~calls'[w].here /\ calls[w] \in Calls
             /\ calls'[w].op = calls[w].op /\ calls'[w].rule = calls[w].rule
             /\ calls'[w].up = calls[w].up /\ calls'[w].performed = calls[w].performed
             /\ calls'[w].ans = calls[w].ans
  BY <1>1, <1>2 DEF InFlight, IInv, TypeOK, Calls
<1>3. ASSUME NEW w \in Slots, calls[w] = NoValue PROVE calls'[w] = NoValue
  BY <1>1, <1>3 DEF InFlight
<1>4. calls' \in [Slots -> {NoValue} \cup Calls]
  BY <1>1, <1>2, <1>3 DEF InFlight
<1>5. /\ view' \in Views /\ read' \in {NoValue} \cup Readings
      /\ \A r \in Rules : view'.shown[r] = "absent"
      /\ read' # NoValue => \A r \in Rules : read'.shown[r] = "absent"
  BY <1>1, MountedTyped, MountedReadingTyped
<1>6. TypeOK' BY <1>1, <1>4, <1>5 DEF IInv, TypeOK
<1>7. CallsOK'
  BY <1>2, <1>3 DEF IInv, CallsOK, CallOK, Rules, Refused, Ok
<1>8. ScansCounted'
  <2>1. PendingSubmits' \subseteq PendingSubmits BY <1>2, <1>3 DEF PendingSubmits
  <2>2. IsFiniteSet(PendingSubmits) /\ Cardinality(PendingSubmits) \in Nat
        /\ scans \in Nat /\ moves \in Nat
        /\ scans + Cardinality(PendingSubmits) <= moves
    BY WorkspaceAssumption, FS_CardinalityType DEF IInv, TypeOK, ScansCounted
  <2>3. IsFiniteSet(PendingSubmits') /\ Cardinality(PendingSubmits') \in Nat
        /\ Cardinality(PendingSubmits') <= Cardinality(PendingSubmits)
    BY <2>1, <2>2, FS_Subset, FS_CardinalityType
  <2> HIDE DEF PendingSubmits
  <2> QED BY <1>1, <2>2, <2>3, WorkspaceAssumption DEF ScansCounted
<1>9. \A w \in Slots : ~Clicked(w)' BY <1>2, <1>3 DEF Clicked
<1>a. ShownOK' BY <1>5, <1>9 DEF ShownOK, Clicked
<1> QED BY <1>6, <1>7, <1>8, <1>a DEF IInv

LEMMA VisitKeeps == ASSUME IInv, NEW p \in Pages, Visit(p) PROVE IInv'
BY MountKeeps, MoveTyped DEF Visit, IInv

LEMMA NavigateKeeps == ASSUME IInv, Navigate PROVE IInv'
<1>1. "detail" \in Pages BY DEF Pages
<1>2. moves' \in 0..MaxMoves /\ moves <= moves'
  BY WorkspaceAssumption DEF Navigate, IInv, TypeOK
<1> QED BY <1>1, <1>2, MountKeeps DEF Navigate

LEMMA SendEffect ==
  ASSUME IInv, NEW op \in Writes, NEW rule \in Rules \cup {NoValue},
         op = "disable" => rule \in Rules, Send(op, rule),
         UNCHANGED scans, moves' = moves + 1
  PROVE  /\ calls' \in [Slots -> {NoValue} \cup Calls]
         /\ CallsOK' /\ ScansCounted'
         /\ \E w \in Slots : /\ calls[w] = NoValue
                             /\ calls'[w] = Write(op, rule)
                             /\ \A x \in Slots : x # w => calls'[x] = calls[x]
<1>1. PICK w \in Slots \ InFlight : calls' = [calls EXCEPT ![w] = Write(op, rule)]
  BY DEF Send
<1>2. calls[w] = NoValue BY DEF InFlight
<1>3. Write(op, rule) \in Calls BY WriteTyped
<1>4. /\ calls' \in [Slots -> {NoValue} \cup Calls]
      /\ calls'[w] = Write(op, rule)
      /\ \A x \in Slots : x # w => calls'[x] = calls[x]
  BY <1>1, <1>3 DEF IInv, TypeOK
<1>5. CallsOK'
  <2>1. CallOK(Write(op, rule)) BY DEF CallOK, Write, Refused, Ok, None
  <2>2. \A x \in Slots : calls'[x] # NoValue => CallOK(calls'[x])
    BY <1>4, <2>1 DEF IInv, CallsOK
  <2> QED BY <2>2 DEF CallsOK, CallOK, Rules, Refused, Ok
<1>6. ScansCounted'
  <2>1. PendingSubmits' \in {PendingSubmits, PendingSubmits \cup {w}}
    BY <1>2, <1>4 DEF PendingSubmits
  <2>2. IsFiniteSet(PendingSubmits) BY DEF IInv, ScansCounted
  <2>3. /\ IsFiniteSet(PendingSubmits') /\ Cardinality(PendingSubmits') \in Nat
        /\ Cardinality(PendingSubmits) \in Nat
        /\ Cardinality(PendingSubmits') <= Cardinality(PendingSubmits) + 1
    <3>1. CASE PendingSubmits' = PendingSubmits
      BY <2>2, <3>1, FS_CardinalityType
    <3>2. CASE PendingSubmits' = PendingSubmits \cup {w}
      <4>1. IsFiniteSet(PendingSubmits \cup {w})
            /\ Cardinality(PendingSubmits \cup {w}) \in
                 {Cardinality(PendingSubmits), Cardinality(PendingSubmits) + 1}
        BY <2>2, FS_AddElement
      <4>2. Cardinality(PendingSubmits) \in Nat BY <2>2, FS_CardinalityType
      <4> HIDE DEF PendingSubmits
      <4> QED BY <3>2, <4>1, <4>2
    <3> QED BY <2>1, <3>1, <3>2
  <2>4. /\ scans \in Nat /\ moves \in Nat
        /\ scans + Cardinality(PendingSubmits) <= moves
    BY WorkspaceAssumption DEF IInv, TypeOK, ScansCounted
  <2> HIDE DEF PendingSubmits
  <2>5. scans' + Cardinality(PendingSubmits') <= moves' BY <2>3, <2>4
  <2> QED BY <2>3, <2>5 DEF ScansCounted
<1> QED BY <1>2, <1>4, <1>5, <1>6

(* A write that is no click.                                               *)
LEMMA SendStep ==
  ASSUME IInv, NEW op \in {"submit", "create"}, Send(op, NoValue),
         view' \in Views, view'.shown = view.shown, Move,
         UNCHANGED <<env, session, rules, scans, page, read, pushing, faults>>
  PROVE  IInv'
<1>1. moves' \in 0..MaxMoves /\ moves' = moves + 1 BY MoveTyped DEF IInv
<1>2. /\ calls' \in [Slots -> {NoValue} \cup Calls] /\ CallsOK' /\ ScansCounted'
      /\ \E w \in Slots : /\ calls'[w] = Write(op, NoValue)
                          /\ \A x \in Slots : x # w => calls'[x] = calls[x]
  BY <1>1, SendEffect DEF Writes
<1>3. TypeOK' BY <1>1, <1>2 DEF IInv, TypeOK
<1>4. ClicksKept BY <1>2 DEF ClicksKept, Clicked, Write
<1>5. RulesAdvance /\ ReadingOK' BY DEF RulesAdvance, ReadingOK, IInv, ShownOK
<1> QED BY <1>2, <1>3, <1>4, <1>5, ShownStays DEF IInv

LEMMA submitKeeps == ASSUME IInv, NEW values, submit(values) PROVE IInv'
<1>1. CASE scanFormSchema(values)
  <2>1. Send("submit", NoValue) /\ view' = [view EXCEPT !.alert = NoValue] /\ Move
    BY <1>1 DEF submit
  <2>2. view' \in Views /\ view'.shown = view.shown BY <2>1 DEF IInv, TypeOK, Views
  <2> QED BY <2>1, <2>2, SendStep DEF submit
<1>2. CASE ~scanFormSchema(values)
  <2>1. UNCHANGED <<calls, view>> /\ Move BY <1>2 DEF submit
  <2>2. moves' \in 0..MaxMoves /\ moves <= moves' BY <2>1, MoveTyped DEF IInv
  <2>3. TypeOK' /\ RulesAdvance /\ ReadingOK'
    BY <2>1, <2>2 DEF submit, IInv, TypeOK, RulesAdvance, ReadingOK, ShownOK
  <2> QED BY <2>1, <2>2, <2>3, NoWriteStep DEF submit, IInv
<1> QED BY <1>1, <1>2

LEMMA createTargetKeeps ==
  ASSUME IInv, NEW start, NEW end, createTarget(start, end) PROVE IInv'
<1>1. CASE rulePorts(start, end)
  <2>1. Send("create", NoValue) /\ view' = [view EXCEPT !.alert = NoValue] /\ Move
    BY <1>1 DEF createTarget
  <2>2. view' \in Views /\ view'.shown = view.shown BY <2>1 DEF IInv, TypeOK, Views
  <2> QED BY <2>1, <2>2, SendStep DEF createTarget
<1>2. CASE ~rulePorts(start, end)
  <2>1. view' = [view EXCEPT !.alert = Alert("create", Local)] /\ UNCHANGED calls /\ Move
    BY <1>2 DEF createTarget
  <2>2. moves' \in 0..MaxMoves /\ moves <= moves' BY <2>1, MoveTyped DEF IInv
  <2>3. view' \in Views /\ view'.shown = view.shown
    BY <2>1 DEF IInv, TypeOK, Views, Alert, Local, Operations, Statuses, Writes
  <2>4. TypeOK' /\ RulesAdvance /\ ReadingOK'
    BY <2>1, <2>2, <2>3 DEF createTarget, IInv, TypeOK, RulesAdvance, ReadingOK, ShownOK
  <2> QED BY <2>1, <2>2, <2>3, <2>4, NoWriteStep DEF createTarget, IInv
<1> QED BY <1>1, <1>2

LEMMA disableTargetKeeps ==
  ASSUME IInv, NEW rule \in Rules, disableTarget(rule) PROVE IInv'
<1>1. /\ view.shown[rule] = "enabled" /\ Send("disable", rule) /\ Move
      /\ view' = [view EXCEPT !.alert = NoValue]
      /\ UNCHANGED <<env, session, rules, scans, page, read, pushing, faults>>
  BY DEF disableTarget
<1>2. moves' \in 0..MaxMoves /\ moves' = moves + 1 BY <1>1, MoveTyped DEF IInv
<1>3. /\ calls' \in [Slots -> {NoValue} \cup Calls] /\ CallsOK' /\ ScansCounted'
      /\ \E w \in Slots : /\ calls'[w] = Write("disable", rule)
                          /\ \A x \in Slots : x # w => calls'[x] = calls[x]
  BY <1>1, <1>2, SendEffect DEF Writes
<1>4. view' \in Views /\ view'.shown = view.shown BY <1>1 DEF IInv, TypeOK, Views
<1>5. TypeOK' BY <1>1, <1>2, <1>3, <1>4 DEF IInv, TypeOK
<1>6. PICK w \in Slots : /\ calls'[w] = Write("disable", rule)
                         /\ \A x \in Slots : x # w => calls'[x] = calls[x]
  BY <1>3
<1>7. ~calls'[w].performed /\ calls'[w].rule = rule BY <1>6 DEF Write
<1>8. ASSUME NEW x \in Slots, Clicked(x)'
      PROVE  /\ view'.shown[calls'[x].rule] # "absent"
             /\ calls'[x].performed =>
                  /\ x # w /\ Clicked(x) /\ calls'[x] = calls[x]
                  /\ view'.shown[calls'[x].rule] = "enabled"
                  /\ rules'[calls'[x].rule] = "disabled"
  <2>1. CASE x = w BY <1>1, <1>4, <1>7, <2>1
  <2>2. CASE x # w BY <1>1, <1>4, <1>6, <1>8, <2>2 DEF Clicked, IInv, ShownOK
  <2> QED BY <2>1, <2>2
<1>9. ShownOK'
  BY <1>1, <1>4, <1>8 DEF IInv, ShownOK, Clicked
<1> QED BY <1>3, <1>5, <1>9 DEF IInv

-----------------------------------------------------------------------------
(* The theorems                                                            *)

LEMMA InitOK == Init => IInv
<1> SUFFICES ASSUME Init PROVE IInv OBVIOUS
<1>1. /\ view \in Views /\ read \in {NoValue} \cup Readings
      /\ \A r \in Rules : view.shown[r] = "absent"
      /\ read # NoValue => \A r \in Rules : read.shown[r] = "absent"
  BY MountedTyped, MountedReadingTyped DEF Init
<1>2. calls \in [Slots -> {NoValue} \cup Calls] /\ \A w \in Slots : calls[w] = NoValue
  BY DEF Init
<1>3. rules \in [Rules -> RuleState] BY DEF Init, RuleState
<1>4. TypeOK
  <2>1. env \in Environments /\ session \in Sessions /\ page \in Pages /\ pushing \in BOOLEAN
    BY DEF Init
  <2>2. scans \in 0..MaxMoves /\ moves \in 0..MaxMoves /\ faults \in 0..MaxFaults
    BY WorkspaceAssumption DEF Init
  <2> QED BY <1>1, <1>2, <1>3, <2>1, <2>2 DEF TypeOK
<1>5. CallsOK BY <1>2 DEF CallsOK
<1>6. ScansCounted
  <2>1. PendingSubmits = {} BY <1>2 DEF PendingSubmits
  <2>2. scans = 0 /\ moves = 0 BY DEF Init
  <2> HIDE DEF PendingSubmits
  <2> QED BY <2>1, <2>2, FS_EmptySet DEF ScansCounted
<1>7. ShownOK BY <1>1, <1>2 DEF ShownOK, Clicked
<1> QED BY <1>4, <1>5, <1>6, <1>7 DEF IInv

LEMMA StutterKeeps == ASSUME IInv, UNCHANGED vars PROVE IInv'
<1>1. TypeOK' BY DEF vars, IInv, TypeOK
<1>2. RulesAdvance /\ ReadingOK' /\ moves' \in 0..MaxMoves /\ moves <= moves'
  BY WorkspaceAssumption DEF vars, RulesAdvance, ReadingOK, IInv, TypeOK, ShownOK
<1> QED BY <1>1, <1>2, NoWriteStep DEF vars, IInv

LEMMA NextKeeps == ASSUME IInv, [Next]_vars PROVE IInv'
<1>1. CASE User
  BY <1>1, VisitKeeps, submitKeeps, retryKeeps, filterScansKeeps, createTargetKeeps,
     disableTargetKeeps DEF User
<1>2. CASE Navigate BY <1>2, NavigateKeeps
<1>3. CASE loadDashboard BY <1>3, loadDashboardKeeps
<1>4. CASE ReadArrives BY <1>4, ReadArrivesKeeps
<1>5. ASSUME NEW part \in Parted,
             ProxyEndsRead(part) \/ ReadFails(part) \/ ApiAnswersRead(part)
      PROVE  IInv'
  BY <1>5, ProxyEndsReadKeeps, ReadFailsKeeps, ApiAnswersReadKeeps
<1>6. ASSUME NEW w \in Slots,
             proxy(w) \/ TimesOut(w) \/ Breaks(w) \/ Performs(w) \/ Refuses(w)
               \/ NotReached(w) \/ WriteArrives(w)
      PROVE  IInv'
  BY <1>6, proxyKeeps, TimesOutKeeps, BreaksKeeps, PerformsKeeps, RefusesKeeps,
     NotReachedKeeps, WriteArrivesKeeps
<1>7. CASE SessionChanges BY <1>7, SessionChangesKeeps
<1>8. CASE OtherAdministrator BY <1>8, OtherAdministratorKeeps
<1>9. CASE UNCHANGED vars BY <1>9, StutterKeeps
<1> QED BY <1>1, <1>2, <1>3, <1>4, <1>5, <1>6, <1>7, <1>8, <1>9 DEF Next

LEMMA Invariance == Spec => []IInv
<1>1. Init => IInv BY InitOK
<1>2. IInv /\ [Next]_vars => IInv' BY NextKeeps
<1> QED BY <1>1, <1>2, PTL DEF Spec

(* Types; in particular no number the dashboard shows leaves its range, and *)
(* no scan is made without a submission.                                   *)
THEOREM WorkspaceTypeCorrect == Spec => []TypeOK
<1>1. IInv => TypeOK BY DEF IInv
<1> QED BY <1>1, Invariance, PTL

(* A page that is told of a refusal may rely on it, whatever broke.         *)
THEOREM RefusalsAreFinal == Spec => []RefusedMeansNothingDone
<1>1. IInv => RefusedMeansNothingDone
  BY DEF IInv, CallsOK, CallOK, RefusedMeansNothingDone, InFlight
<1> QED BY <1>1, Invariance, PTL

(* The dashboard counts every rule that is disabled once.                  *)
THEOREM DashboardFollowsServer == Spec => ShownFollowsServer
<1>1. IInv /\ IInv' /\ [Next]_vars => [FollowsServer]_vars
  <2> SUFFICES ASSUME IInv, IInv', [Next]_vars, page = "admin", page' = "admin", read = read'
               PROVE  FollowsServer
    BY DEF FollowsServer
  <2>1. \A r \in Rules : view'.shown[r] = "disabled" => rules'[r] = "disabled"
    BY DEF IInv, ShownOK
  <2>2. view \in Views BY DEF IInv, TypeOK
  <2>3. \/ view'.count = view.count /\ view'.shown = view.shown
        \/ \E w \in Slots : WriteArrives(w) /\ calls[w].here
    <3>1. CASE UNCHANGED view BY <3>1
    <3>2. CASE User \/ Navigate \/ loadDashboard \/ UNCHANGED vars
      BY <2>2, <3>2
      DEF User, Visit, Mount, Navigate, submit, retry, filterScans, createTarget,
          disableTarget, loadDashboard, vars, Views
    <3>3. CASE ReadArrives BY <3>3 DEF ReadArrives
    <3>4. CASE \E part \in Parted : ProxyEndsRead(part) \/ ReadFails(part) \/ ApiAnswersRead(part)
      BY <3>1, <3>4 DEF ProxyEndsRead, ReadFails, ApiAnswersRead, PartFails
    <3>5. ASSUME NEW w \in Slots,
                 proxy(w) \/ TimesOut(w) \/ Breaks(w) \/ Performs(w) \/ Refuses(w) \/ NotReached(w)
          PROVE  UNCHANGED view
      BY <3>5 DEF proxy, TimesOut, Breaks, Performs, Refuses, NotReached
    <3>6. CASE \E w \in Slots : WriteArrives(w)
      BY <3>6 DEF WriteArrives
    <3>7. CASE SessionChanges \/ OtherAdministrator
      BY <3>1, <3>7 DEF SessionChanges, OtherAdministrator
    <3> QED BY <3>1, <3>2, <3>3, <3>4, <3>5, <3>6, <3>7 DEF Next
  <2>4. CASE view'.count = view.count /\ view'.shown = view.shown
    BY <2>1, <2>4 DEF ShownEnabled, FollowsServer
  <2>5. ASSUME NEW w \in Slots, WriteArrives(w), calls[w].here PROVE FollowsServer
    <3>1. calls[w] # NoValue /\ calls[w].ans # None /\ ~calls[w].got
          /\ view' = Continued(calls[w])
      BY <2>5 DEF WriteArrives, InFlight
    <3>2. CASE view'.count = view.count /\ view'.shown = view.shown BY <2>4, <3>2
    <3>3. CASE /\ calls[w].op = "disable" /\ calls[w].performed
               /\ view'.shown = [view.shown EXCEPT ![calls[w].rule] = "disabled"]
               /\ view'.count = oneLess(view.count)
      <4>1. calls[w].rule \in Rules /\ view.shown[calls[w].rule] = "enabled"
        BY <2>5, <3>1, <3>3 DEF IInv, ShownOK, CallsOK, CallOK, Clicked
      <4>2. view.shown \in [Rules -> RuleState] BY <2>2 DEF Views
      <4>3. calls[w].rule \in ShownEnabled /\ ShownEnabled' = ShownEnabled \ {calls[w].rule}
        BY <3>3, <4>1, <4>2 DEF ShownEnabled
      <4>4. view'.count = view.count - 1 \/ (view'.count = view.count /\ view.count = 0)
        BY <3>3 DEF oneLess
      <4> QED BY <2>1, <4>3, <4>4 DEF FollowsServer
    <3> QED BY <2>5, <3>1, <3>2, <3>3, ContinuedTyped
  <2> QED BY <2>3, <2>4, <2>5
<1> QED BY <1>1, Invariance, PTL DEF Spec, ShownFollowsServer

-----------------------------------------------------------------------------
(* The alerts                                                              *)

(* What AlertMeansFailure says, of all alerts but those after a creation,   *)
(* and the failures that readings carry on the way to one.                 *)
OthersMeanFailure ==
  view.alert # NoValue /\ view.alert.op # "create" => ~Ok(view.alert.status)
AlertsOK == OthersMeanFailure /\ (read # NoValue => ~Ok(read.failed))

LEMMA AlertsInit == Init => AlertsOK
<1> SUFFICES ASSUME Init PROVE AlertsOK OBVIOUS
<1>1. view.alert = NoValue BY DEF Init, Mounted, Blank
<1>2. read # NoValue => read.failed = None BY DEF Init, MountedReading, Reading
<1> QED BY <1>1, <1>2 DEF AlertsOK, OthersMeanFailure, Ok, None

LEMMA MountAlerts == ASSUME NEW p \in Pages, Mount(p) PROVE AlertsOK'
<1>1. view'.alert = NoValue BY DEF Mount, Mounted, Blank
<1>2. read' # NoValue => read'.failed = None BY DEF Mount, MountedReading, Reading
<1> QED BY <1>1, <1>2 DEF AlertsOK, OthersMeanFailure, Ok, None

(* A reading fails with the proxy's refusal, its deadline, a failure of the *)
(* connection, the gateway or the API, or the API's refusal.               *)
LEMMA ReadAlerts ==
  ASSUME IInv, AlertsOK, NEW part,
         ProxyEndsRead(part) \/ ReadFails(part) \/ ApiAnswersRead(part)
  PROVE  AlertsOK'
<1>1. read \in Readings BY DEF IInv, TypeOK, ProxyEndsRead, ReadFails, ApiAnswersRead, ReadAsked
<1>2. view' = view
  BY DEF ProxyEndsRead, ReadFails, ApiAnswersRead, PartFails
<1>3. ASSUME NEW status, PartFails(status) PROVE read'.failed = status
  BY <1>3 DEF PartFails, Reading
<1>4. CASE ProxyEndsRead(part)
  <2>1. proxyRefusal(env, session, part) \in {None, 401, 403, 413, 503} BY RefusalTyped
  <2>2. \E status \in {401, 403, 413, 502, 503, 504} : PartFails(status)
    BY <1>4, <2>1 DEF ProxyEndsRead, timeout, bodyTimeout, relay, Ok
  <2> QED BY <1>2, <1>3, <2>2 DEF AlertsOK, OthersMeanFailure, Ok
<1>5. CASE ReadFails(part)
  <2>1. \E status \in {Lost, 302, 403, 502, 503} : PartFails(status)
    BY <1>5 DEF ReadFails, GatewayRefusals, GatewayRedirects, ApiFailures, relay, Ok
  <2> QED BY <1>2, <1>3, <2>1 DEF AlertsOK, OthersMeanFailure, Ok, Lost
<1>6. CASE ApiAnswersRead(part)
  <2>1. PartFails(403) \/ read'.failed = read.failed
    BY <1>1, <1>6 DEF ApiAnswersRead, Readings
  <2>2. read # NoValue BY <1>6 DEF ApiAnswersRead, ReadAsked
  <2> QED BY <1>2, <1>3, <2>1, <2>2 DEF AlertsOK, OthersMeanFailure, Ok
<1> QED BY <1>4, <1>5, <1>6

LEMMA ArrivalAlerts ==
  ASSUME IInv, AlertsOK, ReadArrives \/ \E w \in Slots : WriteArrives(w)
  PROVE  AlertsOK'
<1>1. view \in Views BY DEF IInv, TypeOK
<1>2. CASE ReadArrives
  <2>1. read # NoValue /\ read \in Readings /\ read' = NoValue BY <1>2 DEF ReadArrives, IInv, TypeOK
  <2>2. CASE read.failed = None
    <3>1. Shown.alert \in {view.alert, NoValue} /\ view'.alert = Shown.alert
      BY <1>1, <1>2, <2>1, <2>2, PartNames DEF ReadArrives, Shown, Views, Readings
    <3> QED BY <2>1, <3>1 DEF AlertsOK, OthersMeanFailure
  <2>3. CASE read.failed # None
    <3>1. view'.alert = Alert(read.what, read.failed)
      BY <1>1, <1>2, <2>3 DEF ReadArrives, Views
    <3> QED BY <2>1, <3>1 DEF AlertsOK, OthersMeanFailure, Alert
  <2> QED BY <2>2, <2>3
<1>3. ASSUME NEW w \in Slots, WriteArrives(w) PROVE AlertsOK'
  <2>1. calls[w] \in Calls /\ calls[w].op \in Writes /\ read' = read
    BY <1>3, SMTT(20) DEF WriteArrives, InFlight, IInv, TypeOK, Calls
  <2>2. \/ view'.alert = view.alert
        \/ view'.alert = Alert("create", calls[w].ans)
        \/ ~Ok(calls[w].ans) /\ view'.alert = Alert(calls[w].op, calls[w].ans)
    BY <1>1, <1>3, <2>1 DEF WriteArrives, Continued, Views, Writes
  <2> QED BY <2>1, <2>2 DEF AlertsOK, OthersMeanFailure, Alert
<1> QED BY <1>2, <1>3

LEMMA OtherAlerts ==
  ASSUME IInv, AlertsOK, [Next]_vars,
         ~ReadArrives, \A w \in Slots : ~WriteArrives(w),
         \A part \in Parted : ~(ProxyEndsRead(part) \/ ReadFails(part) \/ ApiAnswersRead(part)),
         \A p \in Pages : ~Mount(p)
  PROVE  AlertsOK'
<1>1. view \in Views BY DEF IInv, TypeOK
<1>2. ASSUME view'.alert \in {view.alert, NoValue, Alert("create", Local)},
             \/ read' = read
             \/ read # NoValue /\ read'.failed = read.failed
             \/ read'.failed = None
      PROVE  AlertsOK'
  BY <1>2 DEF AlertsOK, OthersMeanFailure, Alert, Ok, None
<1>3. CASE UNCHANGED <<view, read>> BY <1>2, <1>3
<1>4. CASE retry \/ filterScans
  <2>1. view'.alert = NoValue BY <1>1, <1>4 DEF retry, filterScans, Views
  <2>2. read'.failed = None BY <1>4 DEF retry, filterScans, Reading
  <2> QED BY <1>2, <2>1, <2>2
<1>5. CASE loadDashboard
  <2>1. view'.alert = NoValue BY <1>1, <1>5 DEF loadDashboard, Views
  <2>2. read # NoValue /\ read'.failed = read.failed
    BY <1>5 DEF loadDashboard, IInv, TypeOK, Readings
  <2> QED BY <1>2, <2>1, <2>2
<1>6. ASSUME NEW values, submit(values) PROVE AlertsOK'
  <2>1. view'.alert \in {view.alert, NoValue} /\ read' = read BY <1>1, <1>6 DEF submit, Views
  <2> QED BY <1>2, <2>1
<1>7. ASSUME NEW start, NEW end, createTarget(start, end) PROVE AlertsOK'
  <2>1. view'.alert \in {NoValue, Alert("create", Local)} /\ read' = read
    BY <1>1, <1>7 DEF createTarget, Views
  <2> QED BY <1>2, <2>1
<1>8. ASSUME NEW r, disableTarget(r) PROVE AlertsOK'
  <2>1. view'.alert = NoValue /\ read' = read BY <1>1, <1>8, SMTT(20) DEF disableTarget, Views
  <2> QED BY <1>2, <2>1
<1>9. CASE \/ \E w \in Slots : proxy(w) \/ TimesOut(w) \/ Breaks(w) \/ Performs(w)
                              \/ Refuses(w) \/ NotReached(w)
           \/ SessionChanges \/ OtherAdministrator \/ UNCHANGED vars
  BY <1>3, <1>9
  DEF proxy, TimesOut, Breaks, Performs, Refuses, NotReached, SessionChanges,
      OtherAdministrator, vars
<1>10. ~Navigate /\ \A p \in Pages : ~Visit(p) BY DEF Navigate, Visit, Pages
<1> QED BY <1>4, <1>5, <1>6, <1>7, <1>8, <1>9, <1>10 DEF Next, User

(* The alerts that AlertMeansFailure fails for are those of a creation: no  *)
(* other operation of the pages raises one although the API answered it     *)
(* with success.                                                           *)
THEOREM OtherAlertsTellOfFailures == Spec => []OthersMeanFailure
<1>1. IInv /\ AlertsOK /\ [Next]_vars => AlertsOK'
  <2> SUFFICES ASSUME IInv, AlertsOK, [Next]_vars PROVE AlertsOK'
    OBVIOUS
  <2>1. CASE \E p \in Pages : Mount(p) BY <2>1, MountAlerts
  <2>2. CASE \E part \in Parted : ProxyEndsRead(part) \/ ReadFails(part) \/ ApiAnswersRead(part)
    BY <2>2, ReadAlerts
  <2>3. CASE ReadArrives \/ \E w \in Slots : WriteArrives(w) BY <2>3, ArrivalAlerts
  <2> QED BY <2>1, <2>2, <2>3, OtherAlerts
<1>2. AlertsOK => OthersMeanFailure BY DEF AlertsOK
<1> QED BY <1>1, <1>2, AlertsInit, Invariance, PTL DEF Spec
=============================================================================
