----------------------------- MODULE Workspace -----------------------------
(***************************************************************************)
(* One tab at work: the pages with the scan form, the scan history and the *)
(* administrator's dashboard, one of them mounted at a time, their calls   *)
(* through the backend proxy, and the API behind it.  Meanwhile the        *)
(* session may be replaced by other tabs, and the rules by other           *)
(* administrators.                                                         *)
(***************************************************************************)
EXTENDS RequestValues

CONSTANTS
  MaxRules,      \* bound on the rows of allowed targets, in order of creation
  Slots,         \* bound on the writes in flight
  Inputs,        \* what the user may enter into the scan form
  Environments,  \* the proxy's environments to consider
  Sessions,      \* the sessions the browser may have, NoValue among them
  MaxMoves,      \* bound on what the user does
  MaxFaults      \* bound on faults and on what others change

ASSUME WorkspaceAssumption ==
  /\ MaxRules \in Nat /\ Slots \subseteq Nat
  /\ Environments \subseteq ProxyEnvironment /\ NoValue \in Sessions
  /\ MaxMoves \in Nat /\ MaxFaults \in Nat

VARIABLES
  env,      \* the proxy's environment variables
  session,  \* what the session cookie of the browser opens to
  rules,    \* the API's rows of allowed targets
  scans,    \* how many scans of the user the API has
  page,     \* the page that is mounted
  view,     \* its state, and what it shows
  read,     \* the page's reading, if it is at one
  calls,    \* the writes in flight
  pushing,  \* router.push was called and the page has not changed yet
  moves, faults

vars == <<env, session, rules, scans, page, view, read, calls, pushing, moves, faults>>

-----------------------------------------------------------------------------
(* Values                                                                  *)

Rules     == 1..MaxRules
Pages     == {"form", "history", "admin", "detail"}
RuleState == {"absent", "enabled", "disabled"}

(* An alert tells of an operation and, unseen, of its answer's status:     *)
(* Local without an answer, Lost when the connection to the server broke.  *)
Local == 1
Lost  == 2
Alert(op, status) == [op |-> op, status |-> status]

(* The state of the mounted page; a page leaves the parts of others alone. *)
Blank == [loading |-> FALSE, alert |-> NoValue, notice |-> NoValue, items |-> 0,
          count |-> 0, shown |-> [r \in Rules |-> "absent"]]
Mounted(p) == [Blank EXCEPT !.loading = p \in {"history", "admin"}]

(* A reading asks for its parts at once and ends with the first failure    *)
(* or with all parts; the dashboard's starts with a timer.                 *)
Parts == [list |-> {"list"}, load |-> AdminReads, filter |-> {"scans"}]
Reading(what, started) ==
  [what |-> what, started |-> started, got |-> {}, failed |-> None,
   items |-> 0, count |-> 0, shown |-> Blank.shown]
MountedReading(p) ==
  CASE p = "history" -> Reading("list", TRUE)
    [] p = "admin"   -> Reading("load", FALSE)
    [] OTHER         -> NoValue

(* A write: here says that its page is still mounted, up where it is on     *)
(* the way to the API, ans the status of the answer, got that the page has  *)
(* it.                                                                     *)
Write(op, rule) ==
  [op |-> op, rule |-> rule, here |-> TRUE, up |-> "sent", as |-> NoValue,
   performed |-> FALSE, ans |-> None, got |-> FALSE]
InFlight == {w \in Slots : calls[w] # NoValue}
Waiting(w) == calls[w] # NoValue /\ calls[w].ans = None
Submitting == \E w \in InFlight : calls[w].op = "submit" /\ calls[w].here /\ ~calls[w].got

enabledAllowedTargets == Cardinality({r \in Rules : rules[r] = "enabled"})

Init ==
  /\ env \in {e \in Environments : loadApiProxyConfig(e)}  \* instrumentation.ts
  /\ session \in Sessions
  /\ \E n \in 0..MaxRules : rules = [r \in Rules |-> IF r <= n THEN "enabled" ELSE "absent"]
  /\ scans = 0
  /\ page \in Pages \ {"detail"}
  /\ view = Mounted(page)
  /\ read = MountedReading(page)
  /\ calls = [w \in Slots |-> NoValue]
  /\ pushing = FALSE
  /\ moves = 0
  /\ faults = 0

Move  == moves < MaxMoves /\ moves' = moves + 1
Fault == faults < MaxFaults /\ faults' = faults + 1
Send(op, rule) ==
  \E w \in Slots \ InFlight :
    /\ \A x \in Slots \ InFlight : w <= x
    /\ calls' = [calls EXCEPT ![w] = Write(op, rule)]

-----------------------------------------------------------------------------
(* The user and the pages                                                  *)

(* Another page is mounted: the old one's readings are aborted, its writes  *)
(* go on and find it gone.                                                 *)
Mount(p) ==
  /\ page' = p /\ view' = Mounted(p) /\ read' = MountedReading(p)
  /\ calls' = [w \in Slots |-> IF w \in InFlight THEN [calls[w] EXCEPT !.here = FALSE]
                               ELSE NoValue]
  /\ pushing' = FALSE
  /\ UNCHANGED <<env, session, rules, scans>>
Visit(p) == page # p /\ Move /\ Mount(p) /\ UNCHANGED faults
Navigate == pushing /\ Mount("detail") /\ UNCHANGED <<moves, faults>>

(* scan-form.tsx: the fields are disabled while a submission is pending.   *)
submit(values) ==
  /\ page = "form" /\ ~Submitting
  /\ Move
  /\ IF scanFormSchema(values)
     THEN Send("submit", NoValue) /\ view' = [view EXCEPT !.alert = NoValue]
     ELSE UNCHANGED <<calls, view>>
  /\ UNCHANGED <<env, session, rules, scans, page, read, pushing, faults>>

(* scan-history.tsx                                                        *)
retry ==
  /\ page = "history" /\ ~view.loading /\ view.alert # NoValue
  /\ Move
  /\ view' = [view EXCEPT !.loading = TRUE, !.alert = NoValue]
  /\ read' = Reading("list", TRUE)
  /\ UNCHANGED <<env, session, rules, scans, page, calls, pushing, faults>>

(* admin-dashboard.tsx, and its timer                                      *)
loadDashboard ==
  /\ read # NoValue /\ ~read.started
  /\ read' = [read EXCEPT !.started = TRUE]
  /\ view' = [view EXCEPT !.loading = TRUE, !.alert = NoValue]
  /\ UNCHANGED <<env, session, rules, scans, page, calls, pushing, moves, faults>>

filterScans ==
  /\ page = "admin" /\ ~view.loading
  /\ Move
  /\ view' = [view EXCEPT !.loading = TRUE, !.alert = NoValue]
  /\ read' = Reading("filter", TRUE)
  /\ UNCHANGED <<env, session, rules, scans, page, calls, pushing, faults>>

createTarget(start, end) ==
  /\ page = "admin"
  /\ Move
  /\ IF rulePorts(start, end)
     THEN Send("create", NoValue) /\ view' = [view EXCEPT !.alert = NoValue]
     ELSE view' = [view EXCEPT !.alert = Alert("create", Local)] /\ UNCHANGED calls
  /\ UNCHANGED <<env, session, rules, scans, page, read, pushing, faults>>

disableTarget(rule) ==
  /\ page = "admin" /\ view.shown[rule] = "enabled"
  /\ Move
  /\ Send("disable", rule)
  /\ view' = [view EXCEPT !.alert = NoValue]
  /\ UNCHANGED <<env, session, rules, scans, page, read, pushing, faults>>

-----------------------------------------------------------------------------
(* Readings through the proxy.  A part is read at one instant, under the    *)
(* session and from the rows of that instant.                              *)

ReadAsked(part) ==
  /\ read # NoValue /\ read.started /\ read.failed = None
  /\ part \in Parts[read.what] \ read.got
PartFails(status) ==
  /\ read' = [Reading(read.what, TRUE) EXCEPT !.failed = status]
  /\ UNCHANGED <<env, session, rules, scans, page, view, calls, pushing, moves>>

(* The proxy refuses, or gives up on the API or on its answer's body.      *)
ProxyEndsRead(part) ==
  /\ ReadAsked(part)
  /\ LET refusal == proxyRefusal(env, session, part)
     IN \E status \in IF refusal = None THEN {timeout, bodyTimeout(200)} ELSE {refusal} :
          PartFails(status)
  /\ UNCHANGED faults
ReadFails(part) ==
  /\ ReadAsked(part)
  /\ Fault
  /\ \/ PartFails(Lost)
     \/ /\ proxyRefusal(env, session, part) = None
        /\ \E status \in GatewayRefusals \cup GatewayRedirects \cup ApiFailures
                           \cup {relay(200, FALSE)} : PartFails(status)
ApiAnswersRead(part) ==
  /\ ReadAsked(part)
  /\ proxyRefusal(env, session, part) = None
  /\ IF ~apiAdmits(part, session) THEN PartFails(403)
     ELSE /\ read' = [read EXCEPT
               !.got   = @ \cup {part},
               !.items = IF part = "list" THEN scans ELSE @,
               !.count = IF part = "usage" THEN enabledAllowedTargets ELSE @,
               !.shown = IF part = "allowedTargets" THEN rules ELSE @]
          /\ UNCHANGED <<env, session, rules, scans, page, view, calls, pushing, moves>>
  /\ UNCHANGED faults

(* The page goes on with what it read, or with the failure.                *)
Shown ==
  CASE read.what = "list"   -> [view EXCEPT !.items = read.items, !.alert = NoValue]
    [] read.what = "load"   -> [view EXCEPT !.count = read.count, !.shown = read.shown]
    [] read.what = "filter" -> [view EXCEPT !.notice = "filter"]
ReadArrives ==
  /\ read # NoValue
  /\ \/ /\ read.failed = None /\ read.got = Parts[read.what]
        /\ view' = [Shown EXCEPT !.loading = FALSE]
     \/ /\ read.failed # None
        /\ view' = [view EXCEPT !.alert = Alert(read.what, read.failed), !.loading = FALSE]
  /\ read' = NoValue
  /\ UNCHANGED <<env, session, rules, scans, page, calls, pushing, moves, faults>>

-----------------------------------------------------------------------------
(* Writes through the proxy                                                *)

(* A write whose answer the page has, and that is over upstream, is gone.  *)
Becomes(w, call) ==
  calls' = [calls EXCEPT ![w] =
              CASE call.up = "over" /\ call.got  -> NoValue
                [] call.up = "over" /\ ~call.got -> [call EXCEPT !.as = NoValue]
                [] call.up # "over"              -> call]
Over(w, status) ==
  Becomes(w, [calls[w] EXCEPT !.up = "over", !.ans = IF @ = None THEN status ELSE @])

proxy(w) ==
  /\ w \in InFlight /\ calls[w].up = "sent"
  /\ LET refusal == proxyRefusal(env, session, calls[w].op)
     IN IF refusal # None THEN Over(w, refusal)
        ELSE Becomes(w, [calls[w] EXCEPT !.up = "pending", !.as = session])
  /\ UNCHANGED <<env, session, rules, scans, page, view, read, pushing, moves, faults>>

(* The deadline of the call upstream, which may still be performed.        *)
TimesOutNever(w) == FALSE /\ UNCHANGED vars \* mutant
TimesOut(w) ==
  /\ w \in InFlight /\ calls[w].up = "pending" /\ calls[w].ans = None
  /\ Becomes(w, [calls[w] EXCEPT !.ans = timeout])
  /\ UNCHANGED <<env, session, rules, scans, page, view, read, pushing, moves, faults>>

(* The connection between the browser and the server breaks.               *)
Breaks(w) ==
  /\ Waiting(w)
  /\ Fault
  /\ Becomes(w, [calls[w] EXCEPT !.ans = Lost])
  /\ UNCHANGED <<env, session, rules, scans, page, view, read, pushing, moves>>

(* The API performs the write, or finds nothing to do.  Once performed, an  *)
(* answer may fail to be built, or to come through whole and in time.       *)
disableAllowedTargetAgain(rule) == \* mutant
  rules[rule] # "absent" /\ rules' = [rules EXCEPT ![rule] = "disabled"]
disableAllowedTarget(rule) ==
  rules[rule] = "enabled" /\ rules' = [rules EXCEPT ![rule] = "disabled"]
insertAllowedTarget ==
  \E r \in Rules :
    /\ rules[r] = "absent" /\ \A q \in 1..(r - 1) : rules[q] # "absent"
    /\ rules' = [rules EXCEPT ![r] = "enabled"]

Pending(w) == w \in InFlight /\ calls[w].up = "pending"
Performs(w) ==
  /\ Pending(w)
  /\ apiAdmits(calls[w].op, calls[w].as)
  /\ CASE calls[w].op = "submit"  -> scans' = scans + 1 /\ UNCHANGED rules
       [] calls[w].op = "create"  -> insertAllowedTarget /\ UNCHANGED scans
       [] calls[w].op = "disable" -> disableAllowedTarget(calls[w].rule) /\ UNCHANGED scans
  /\ LET status == IF calls[w].op = "disable" THEN 200 ELSE IF calls[w].op = "create"
                   THEN 201 ELSE 202
         Answered(s) == Becomes(w, [calls[w] EXCEPT !.up = "over", !.performed = TRUE,
                                                    !.ans = IF @ = None THEN s ELSE @])
     IN \/ Answered(status) /\ UNCHANGED faults
        \/ Fault /\ \E s \in ApiFailures \cup {relay(status, FALSE), timeout} : Answered(s)
  /\ UNCHANGED <<env, session, page, view, read, pushing, moves>>

(* ... or refuses it: the caller, the target or the limit of a scan, a rule *)
(* there already is, a rule that is not enabled.                           *)
Refuses(w) ==
  /\ Pending(w)
  /\ \/ ~apiAdmits(calls[w].op, calls[w].as) /\ Over(w, 403)
     \/ calls[w].op = "submit" /\ (Over(w, 400) \/ Over(w, 429))
     \/ calls[w].op = "create" /\ Over(w, 400)
     \/ calls[w].op = "create" /\ enabledAllowedTargets > 0 /\ Over(w, 409)
     \/ calls[w].op = "disable" /\ rules[calls[w].rule] # "enabled" /\ Over(w, 404)
  /\ UNCHANGED <<env, session, rules, scans, page, view, read, pushing, moves, faults>>

(* The call does not get to the API, or the API fails before the write.     *)
NotReached(w) ==
  /\ w \in InFlight
  /\ \/ /\ calls[w].up = "pending"
        /\ Fault
        /\ \E s \in GatewayRefusals \cup GatewayRedirects \cup ApiFailures
                    \cup {unreachable} : Over(w, s)
     \/ /\ calls[w].up # "over" /\ calls[w].ans # None
        /\ Over(w, None)
        /\ UNCHANGED faults
  /\ UNCHANGED <<env, session, rules, scans, page, view, read, pushing, moves>>

(* The number never goes below zero: it may have been read before a rule    *)
(* of the list was created.                                                *)
oneLessUnbounded(count) == count - 1 \* mutant
oneLess(count) == IF count = 0 THEN 0 ELSE count - 1

(* The page goes on with the answer.  After a creation, the dashboard asks  *)
(* the event for the form it came from; React keeps it only for the time of *)
(* the handler's first part, and what follows fails as the call would.     *)
Continued(call) ==
  CASE call.op = "create"  -> [view EXCEPT !.alert = Alert("create", call.ans)]
    [] call.op = "disable" /\ Ok(call.ans) ->
         [view EXCEPT !.shown[call.rule] = IF @ = "absent" THEN @ ELSE "disabled",
                      !.count = oneLess(@), !.notice = "disable"]
    [] call.op = "submit" /\ Ok(call.ans) -> view
    [] ~Ok(call.ans) -> [view EXCEPT !.alert = Alert(call.op, call.ans)]
WriteArrives(w) ==
  /\ w \in InFlight /\ calls[w].ans # None /\ ~calls[w].got
  /\ Becomes(w, [calls[w] EXCEPT !.got = TRUE])
  /\ view' = IF calls[w].here THEN Continued(calls[w]) ELSE view
  /\ pushing' = (pushing \/ (calls[w].op = "submit" /\ Ok(calls[w].ans)))
  /\ UNCHANGED <<env, session, rules, scans, page, read, moves, faults>>

-----------------------------------------------------------------------------
(* Others                                                                  *)

(* Another tab signs in or out, or the session ends.                       *)
SessionChanges ==
  /\ Fault
  /\ session' \in Sessions \ {session}
  /\ UNCHANGED <<env, rules, scans, page, view, read, calls, pushing, moves>>

OtherAdministrator ==
  /\ Fault
  /\ insertAllowedTarget \/ \E r \in Rules : disableAllowedTarget(r)
  /\ UNCHANGED <<env, session, scans, page, view, read, calls, pushing, moves>>

-----------------------------------------------------------------------------

User ==
  \/ \E p \in Pages \ {"detail"} : Visit(p)
  \/ \E values \in Inputs : submit(values)
  \/ retry \/ filterScans
  \/ \E start, end \in 0..2 : createTarget(start, end)
  \/ \E r \in Rules : disableTarget(r)
Parted == UNION {Parts[what] : what \in DOMAIN Parts}
Next ==
  \/ User \/ Navigate \/ loadDashboard \/ ReadArrives
  \/ \E part \in Parted : ProxyEndsRead(part) \/ ReadFails(part) \/ ApiAnswersRead(part)
  \/ \E w \in Slots : proxy(w) \/ TimesOut(w) \/ Breaks(w) \/ Performs(w) \/ Refuses(w)
                      \/ NotReached(w) \/ WriteArrives(w)
  \/ SessionChanges \/ OtherAdministrator

(* The browser and the frontend's server go on; the API need not.          *)
Fairness ==
  /\ WF_vars(Navigate) /\ WF_vars(loadDashboard) /\ WF_vars(ReadArrives)
  /\ \A part \in Parted : WF_vars(ProxyEndsRead(part))
  /\ \A w \in Slots : WF_vars(proxy(w)) /\ WF_vars(TimesOut(w)) /\ WF_vars(WriteArrives(w))
Spec == Init /\ [][Next]_vars /\ Fairness

-----------------------------------------------------------------------------
(* Properties                                                              *)

Statuses == 0..599
Operations == {"list", "load", "filter"} \cup Writes
Views ==
  [loading: BOOLEAN, alert: {NoValue} \cup [op: Operations, status: Statuses],
   notice: {NoValue, "disable", "filter"}, items: 0..MaxMoves,
   count: 0..Cardinality(Rules), shown: [Rules -> RuleState]]
Readings ==
  [what: DOMAIN Parts, started: BOOLEAN, got: SUBSET Parted, failed: Statuses,
   items: 0..MaxMoves, count: 0..Cardinality(Rules), shown: [Rules -> RuleState]]
Calls ==
  [op: Writes, rule: Rules \cup {NoValue}, here: BOOLEAN, up: {"sent", "pending", "over"},
   as: Sessions, performed: BOOLEAN, ans: Statuses, got: BOOLEAN]

TypeOK ==
  /\ env \in Environments /\ session \in Sessions
  /\ rules \in [Rules -> RuleState]
  /\ scans \in 0..MaxMoves
  /\ page \in Pages
  /\ view \in Views
  /\ read \in {NoValue} \cup Readings
  /\ calls \in [Slots -> {NoValue} \cup Calls]
  /\ pushing \in BOOLEAN
  /\ moves \in 0..MaxMoves /\ faults \in 0..MaxFaults

(* A page that is told its write was refused, with a status from 400 to     *)
(* 499, may rely on it: the API has not performed it and will not, whatever *)
(* broke on the way; only other failures leave that open (route.ts:113-139).*)
RefusedMeansNothingDone ==
  \A w \in InFlight :
    Refused(calls[w].ans) => calls[w].up = "over" /\ ~calls[w].performed

(* From one load to the next the dashboard's number of enabled rules and    *)
(* its list move together, one rule at a time, and a rule is shown as       *)
(* disabled only when it is: neither a second click, a failure nor another  *)
(* administrator makes it count twice (admin-dashboard.tsx:104-115).       *)
ShownEnabled == {r \in Rules : view.shown[r] = "enabled"}
FollowsServer ==
  page = "admin" /\ page' = "admin" /\ read = read' =>
    /\ \/ view'.count = view.count /\ (ShownEnabled' = ShownEnabled \/ view.count = 0)
       \/ /\ view'.count = view.count - 1
          /\ \E r \in ShownEnabled : ShownEnabled' = ShownEnabled \ {r}
    /\ \A r \in Rules : view'.shown[r] = "disabled" => rules'[r] = "disabled"
ShownFollowsServer == [][FollowsServer]_vars

(* Whether the API answers or not, every reading and every write comes to   *)
(* an end for the page that waits for it: the proxy has a deadline, and the *)
(* pages end their loading with every outcome (route.ts:118, 134-136).     *)
PagesSettle ==
  /\ view.loading ~> ~view.loading
  /\ \A w \in Slots : Waiting(w) ~> ~Waiting(w)

(* The dashboard's alerts tell of failures: none appears for a write that   *)
(* was performed and answered so (admin-dashboard.tsx:91-102).             *)
AlertMeansFailure == view.alert # NoValue => ~Ok(view.alert.status)
=============================================================================
