---------------------------- MODULE ScanPolling ----------------------------
(***************************************************************************)
(* useScanDetail of the frontend (hooks/use-scan-detail.ts) under the      *)
(* component that shows it: an effect polls one scan with a timer and a    *)
(* cancellable request; a change of the id or a manual retry replaces the  *)
(* effect, leaving the page ends it.                                       *)
(*                                                                         *)
(* React runs cleanups and effects some time after the change that caused  *)
(* them, and before it renders the next one: a timer or an answer may come *)
(* in between.  The functions of the hook run to completion: a promise     *)
(* that settles and the code that waits for it are two steps.              *)
(***************************************************************************)
EXTENDS Naturals, FiniteSets

CONSTANTS
  Scans,       \* ids of the scans the page may show
  NoScan,      \* no scan was shown yet, null in the hook
  MaxChanges,  \* bound on id changes and retries
  MaxFailures  \* bound on requests that fail for a time

ASSUME PollingAssumption ==
  /\ NoScan \notin Scans
  /\ MaxChanges \in Nat /\ MaxFailures \in Nat

VARIABLES
  id,       \* the scan the component was last rendered with
  mounted,  \* it is still on the page
  dirty,    \* React has cleanups and effects to run
  effect,   \* the effects that ran so far: the variables of their closures
  current,  \* the last of them, 0 before the first
  page,     \* the hook's state: scan, loading, error, retrying
  ended,    \* the scans the API has ended
  changes, failures \* how many there were

vars == <<id, mounted, dirty, effect, current, page, ended, changes, failures>>

Effects == 1..(MaxChanges + 1)
Shown   == [id: Scans \cup {NoScan}, active: BOOLEAN]
Nothing == [id |-> NoScan, active |-> FALSE]

(* What a request may settle with.  A failure that is not temporary has    *)
(* another HTTP status; an aborted fetch throws AbortError.                *)
Answers == {"active", "ended", "temporary", "permanent", "aborted"}

(* inFlight holds while request is not "none"; controller is the request's.*)
Closure == [id: Scans \cup {NoScan}, active: BOOLEAN,
            timer: {"none", "armed"}, request: {"none", "sent"} \cup Answers]
Unused  == [id |-> NoScan, active |-> FALSE, timer |-> "none", request |-> "none"]

Init ==
  /\ id \in Scans
  /\ mounted = TRUE
  /\ dirty = TRUE
  /\ effect = [e \in Effects |-> Unused]
  /\ current = 0
  /\ page = [scan |-> Nothing, loading |-> TRUE, error |-> "none", retrying |-> FALSE]
  /\ ended = {}
  /\ changes = 0
  /\ failures = 0

-----------------------------------------------------------------------------
(* The user                                                                *)

ChangeId(i) ==
  /\ mounted /\ ~dirty /\ i # id /\ changes < MaxChanges
  /\ id' = i
  /\ dirty' = TRUE
  /\ changes' = changes + 1
  /\ UNCHANGED <<mounted, effect, current, page, ended, failures>>

(* The component offers retry beside an error, once loading is over.       *)
Retry ==
  /\ mounted /\ ~dirty /\ changes < MaxChanges
  /\ ~page.loading /\ page.error # "none"
  /\ page' = [page EXCEPT !.retrying = TRUE]
  /\ dirty' = TRUE
  /\ changes' = changes + 1
  /\ UNCHANGED <<id, mounted, effect, current, ended, failures>>

Leave ==
  /\ mounted /\ ~dirty
  /\ mounted' = FALSE
  /\ dirty' = TRUE
  /\ UNCHANGED <<id, effect, current, page, ended, changes, failures>>

-----------------------------------------------------------------------------
(* React                                                                   *)

(* The function the effect returned: clearTimeout, and abort of a request  *)
(* that has not settled yet.                                               *)
CleanedKeepsTimer(c) == \* mutant
  [c EXCEPT !.active = FALSE, !.request = IF @ = "sent" THEN "aborted" ELSE @]
Cleaned(c) ==
  [c EXCEPT !.active = FALSE, !.timer = "none",
            !.request = IF @ = "sent" THEN "aborted" ELSE @]

(* The effect's body: fresh variables, and load.                           *)
Opened == [id |-> id, active |-> TRUE, timer |-> "none", request |-> "sent"]

RunEffectsAgain == \* mutant
  /\ dirty
  /\ UNCHANGED dirty
  /\ LET e == current + 1
         cleaned == [d \in Effects |-> IF d = current THEN Cleaned(effect[d])
                                                      ELSE effect[d]]
     IN IF mounted
          THEN effect' = [cleaned EXCEPT ![e] = Opened] /\ current' = e
          ELSE effect' = cleaned /\ UNCHANGED current
  /\ UNCHANGED <<id, mounted, page, ended, changes, failures>>
RunEffects ==
  /\ dirty
  /\ dirty' = FALSE
  /\ LET e == current + 1
         cleaned == [d \in Effects |-> IF d = current THEN Cleaned(effect[d])
                                                      ELSE effect[d]]
     IN IF mounted
          THEN effect' = [cleaned EXCEPT ![e] = Opened] /\ current' = e
          ELSE effect' = cleaned /\ UNCHANGED current
  /\ UNCHANGED <<id, mounted, page, ended, changes, failures>>

-----------------------------------------------------------------------------
(* The effect                                                              *)

(* The timer calls load, which does nothing without active or in flight.   *)
TimerRearms(e) == \* mutant
  /\ effect[e].timer = "armed"
  /\ UNCHANGED vars
TimerFires(e) ==
  /\ effect[e].timer = "armed"
  /\ effect' = [effect EXCEPT ![e].timer = "none",
                  ![e].request = IF effect[e].active /\ @ = "none" THEN "sent" ELSE @]
  /\ UNCHANGED <<id, mounted, dirty, current, page, ended, changes, failures>>

(* The answer tells the scan as it is now, and may wait before it is read. *)
Settle(e) ==
  /\ effect[e].request = "sent"
  /\ \/ /\ effect' = [effect EXCEPT ![e].request =
                        IF effect[e].id \in ended THEN "ended" ELSE "active"]
        /\ UNCHANGED failures
     \/ /\ failures < MaxFailures
        /\ failures' = failures + 1
        /\ \E a \in {"temporary", "permanent"} :
             effect' = [effect EXCEPT ![e].request = a]
  /\ UNCHANGED <<id, mounted, dirty, current, page, ended, changes>>

(* load after its await, when the effect is still active.                  *)
Displayed(e, a) ==
  IF a \in {"active", "ended"}
    THEN [scan |-> [id |-> effect[e].id, active |-> a = "active"],
          loading |-> FALSE, error |-> "none", retrying |-> FALSE]
    ELSE [page EXCEPT !.error = a, !.loading = FALSE, !.retrying = (a = "temporary")]

ScheduleTemporaryForgotten(a) == IF a = "active" THEN "armed" ELSE "none" \* mutant
Schedule(a) == IF a \in {"active", "temporary"} THEN "armed" ELSE "none"

ContinueShowsFirst(e) == \* mutant
  LET a == effect[e].request IN
  /\ a \in Answers
  /\ page' = IF a = "aborted" THEN page ELSE Displayed(e, a)
  /\ effect' = [effect EXCEPT ![e].request = "none",
                  ![e].timer = IF effect[e].active /\ a # "aborted" THEN Schedule(a) ELSE @]
  /\ UNCHANGED <<id, mounted, dirty, current, ended, changes, failures>>
Continue(e) ==
  LET a == effect[e].request IN
  /\ a \in Answers
  /\ IF effect[e].active /\ a # "aborted"
       THEN /\ page' = Displayed(e, a)
            /\ effect' = [effect EXCEPT ![e].request = "none", ![e].timer = Schedule(a)]
       ELSE /\ effect' = [effect EXCEPT ![e].request = "none"]
            /\ UNCHANGED page
  /\ UNCHANGED <<id, mounted, dirty, current, ended, changes, failures>>

(* The API ends the scan.                                                  *)
End(i) ==
  /\ i \notin ended
  /\ ended' = ended \cup {i}
  /\ UNCHANGED <<id, mounted, dirty, effect, current, page, changes, failures>>

-----------------------------------------------------------------------------

User == (\E i \in Scans : ChangeId(i)) \/ Retry \/ Leave
Runtime == RunEffects \/ \E e \in Effects : TimerFires(e) \/ Settle(e) \/ Continue(e)
Next == User \/ Runtime \/ \E i \in Scans : End(i)

(* The browser runs timers and effects, the backend route answers or times *)
(* out.  The user need not do anything, and a scan need not end.           *)
Spec ==
  /\ Init /\ [][Next]_vars
  /\ WF_vars(RunEffects)
  /\ \A e \in Effects :
       /\ WF_vars(TimerFires(e)) /\ WF_vars(Settle(e)) /\ WF_vars(Continue(e))

-----------------------------------------------------------------------------
(* Properties                                                              *)

TypeOK ==
  /\ id \in Scans /\ mounted \in BOOLEAN /\ dirty \in BOOLEAN
  /\ effect \in [Effects -> Closure]
  /\ current \in 0..(MaxChanges + 1)
  /\ page \in [scan: Shown, loading: BOOLEAN,
               error: {"none", "temporary", "permanent"}, retrying: BOOLEAN]
  /\ ended \subseteq Scans
  /\ changes \in 0..MaxChanges /\ failures \in 0..MaxFailures

Polling(e) == effect[e].timer = "armed" \/ effect[e].request = "sent"

(* One polling loop at most, with a timer or a request but not both; none  *)
(* once the page was left and the cleanup ran, and none for an ended scan  *)
(* unless the user asks for it (the closures of lines 37-71, the guard of  *)
(* line 47, and line 51).                                                  *)
OneLoop ==
  /\ \A e \in Effects : Polling(e) => e = current
  /\ \A e \in Effects : effect[e].timer = "armed" => effect[e].request = "none"
  /\ ~mounted /\ ~dirty => \A e \in Effects : ~Polling(e)
  /\ (page.scan.id # NoScan /\ ~page.scan.active /\ page.error = "none"
      /\ current > 0 /\ page.scan.id = effect[current].id /\ effect[current].request = "none")
     => ~Polling(current)

(* A page that says that it is loading, that it will retry, or that shows  *)
(* a scan as under way, has an update coming.                              *)
Expectant == page.loading \/ page.retrying
             \/ (page.error = "none" /\ page.scan.active)
UpdateIsComing ==
  mounted /\ Expectant =>
    \/ dirty
    \/ Polling(current) \/ effect[current].request \in Answers \ {"aborted"}

(* An abandoned effect never speaks again: what the page shows changes to  *)
(* the scan of the last effect only, and a scan shown as ended is never    *)
(* shown as under way again.                                               *)
NoStaleAnswerShown ==
  [][page'.scan # page.scan =>
       /\ page'.scan.id = effect[current].id
       /\ page'.scan.id = page.scan.id => page.scan.active]_vars

(* Once the API has ended the scan, the page that stays on it shows the    *)
(* end, or an error that the user can act on.                              *)
EndIsShown ==
  \A i \in Scans :
    (mounted /\ id = i /\ i \in ended) ~>
      \/ ~mounted \/ id # i
      \/ page.scan = [id |-> i, active |-> FALSE]
      \/ page.error = "permanent"

=============================================================================
