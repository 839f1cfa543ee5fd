------------------------- MODULE ScanPollingProofs -------------------------
(* Theorems about the polling effect, for any scans and any number of       *)
(* changes, retries and failures.                                          *)
EXTENDS ScanPolling, TLAPS

(* Only the last effect is active, and only while React has it on the page  *)
(* or has still to clean it up; an effect that is not active has neither    *)
(* its timer nor its request.                                              *)
EffectsOK ==
  /\ current <= changes + 1
  /\ mounted /\ dirty => current <= changes
  /\ mounted /\ ~dirty => current # 0 /\ effect[current].active
  /\ \A e \in Effects :
       /\ effect[e].active => e = current /\ (mounted \/ dirty) /\ effect[e].id \in Scans
                              /\ effect[e].request # "aborted"
       /\ ~effect[e].active => effect[e].timer = "none" /\ effect[e].request # "sent"
       /\ effect[e].timer = "armed" => effect[e].request = "none"
       /\ effect[e].request = "ended" => effect[e].id \in ended

(* What the page shows fits what the active effect is going to do.         *)
PageOK ==
  /\ page.scan.id # NoScan /\ ~page.scan.active => page.scan.id \in ended
  /\ \A e \in Effects : effect[e].active =>
       /\ effect[e].request = "active" /\ page.scan.id = effect[e].id => page.scan.active
       /\ effect[e].timer = "armed" => page.error = "temporary" \/ page.scan.active
       /\ ~dirty /\ Expectant => effect[e].timer = "armed" \/ effect[e].request # "none"

IInv == TypeOK /\ EffectsOK /\ PageOK

Page == [scan: Shown, loading: BOOLEAN,
         error: {"none", "temporary", "permanent"}, retrying: BOOLEAN]

-----------------------------------------------------------------------------

LEMMA InitOK == Init => IInv
<1> SUFFICES ASSUME Init PROVE IInv OBVIOUS
<1>1. TypeOK
  BY PollingAssumption DEF Init, TypeOK, Unused, Closure, Nothing, Shown
<1>2. EffectsOK BY PollingAssumption DEF Init, EffectsOK, Unused, Effects
<1>3. PageOK BY DEF Init, PageOK, Unused, Nothing
<1> QED BY <1>1, <1>2, <1>3 DEF IInv

LEMMA ChangeIdKeeps == ASSUME IInv, NEW i \in Scans, ChangeId(i) PROVE IInv'
<1>1. /\ mounted /\ ~dirty /\ dirty' /\ id' = i /\ changes' = changes + 1 /\ changes' \in 0..MaxChanges
      /\ UNCHANGED <<mounted, effect, current, page, ended, failures>>
      /\ current <= changes + 1 /\ current \in Nat /\ changes \in Nat
  BY PollingAssumption DEF ChangeId, IInv, TypeOK, EffectsOK
<1>2. TypeOK' BY <1>1 DEF IInv, TypeOK
<1>3. EffectsOK' BY <1>1 DEF IInv, EffectsOK
<1>4. PageOK' BY <1>1 DEF IInv, PageOK
<1> QED BY <1>2, <1>3, <1>4 DEF IInv

LEMMA RetryKeeps == ASSUME IInv, Retry PROVE IInv'
<1>1. /\ mounted /\ ~dirty /\ dirty' /\ changes' = changes + 1 /\ changes' \in 0..MaxChanges
      /\ page' = [page EXCEPT !.retrying = TRUE] /\ page \in Page
      /\ UNCHANGED <<id, mounted, effect, current, ended, failures>>
      /\ current <= changes + 1 /\ current \in Nat /\ changes \in Nat
  BY PollingAssumption DEF Retry, IInv, TypeOK, EffectsOK, Page
<1>2. page' \in Page /\ page'.scan = page.scan /\ page'.error = page.error
  BY <1>1 DEF Page
<1>3. TypeOK' BY <1>1, <1>2 DEF IInv, TypeOK, Page
<1>4. EffectsOK' BY <1>1 DEF IInv, EffectsOK
<1>5. PageOK' BY <1>1, <1>2 DEF IInv, PageOK
<1> QED BY <1>3, <1>4, <1>5 DEF IInv

LEMMA LeaveKeeps == ASSUME IInv, Leave PROVE IInv'
<1>1. /\ mounted /\ ~dirty /\ dirty' /\ ~mounted' /\ mounted' \in BOOLEAN /\ dirty' \in BOOLEAN
      /\ UNCHANGED <<id, effect, current, page, ended, changes, failures>>
  BY DEF Leave
<1>2. TypeOK' BY <1>1 DEF IInv, TypeOK
<1>3. EffectsOK' BY <1>1 DEF IInv, EffectsOK
<1>4. PageOK' BY <1>1 DEF IInv, PageOK
<1> QED BY <1>2, <1>3, <1>4 DEF IInv

(* The cleanup of the last effect, and the next one.                       *)
LEMMA RunEffectsKeeps == ASSUME IInv, RunEffects PROVE IInv'
<1> DEFINE cleaned == [d \in Effects |-> IF d = current THEN Cleaned(effect[d]) ELSE effect[d]]
<1>1. /\ dirty /\ dirty' = FALSE
      /\ IF mounted
           THEN effect' = [cleaned EXCEPT ![current + 1] = Opened] /\ current' = current + 1
           ELSE effect' = cleaned /\ UNCHANGED current
      /\ UNCHANGED <<id, mounted, page, ended, changes, failures>>
  BY DEF RunEffects
<1>2. \A d \in Effects : effect[d] \in Closure BY DEF IInv, TypeOK
<1>3. \A d \in Effects :
        /\ cleaned[d] \in Closure /\ cleaned[d].active = FALSE
        /\ cleaned[d].timer = "none" /\ cleaned[d].request # "sent"
        /\ cleaned[d].id = effect[d].id
        /\ cleaned[d].request = "ended" => cleaned[d].id \in ended
  <2> SUFFICES ASSUME NEW d \in Effects
               PROVE  /\ cleaned[d] \in Closure /\ cleaned[d].active = FALSE
                      /\ cleaned[d].timer = "none" /\ cleaned[d].request # "sent"
                      /\ cleaned[d].id = effect[d].id
                      /\ cleaned[d].request = "ended" => cleaned[d].id \in ended
    OBVIOUS
  <2>1. CASE d = current
    <3>1. cleaned[d] = [effect[d] EXCEPT !.active = FALSE, !.timer = "none",
                          !.request = IF @ = "sent" THEN "aborted" ELSE @]
      BY <2>1 DEF Cleaned
    <3>2. effect[d].request = "ended" => effect[d].id \in ended BY DEF IInv, EffectsOK
    <3> QED BY <1>2, <3>1, <3>2 DEF Closure, Answers
  <2>2. CASE d # current
    <3>1. cleaned[d] = effect[d] BY <2>2
    <3>2. effect[d].active = FALSE BY <1>2, <2>2 DEF IInv, EffectsOK, Closure
    <3> QED BY <1>2, <3>1, <3>2 DEF IInv, EffectsOK
  <2> QED BY <2>1, <2>2
<1>4. cleaned = [d \in Effects |-> cleaned[d]] OBVIOUS
<1> HIDE DEF cleaned
<1>5. CASE ~mounted
  <2>1. effect' = cleaned /\ current' = current /\ dirty' = FALSE BY <1>1, <1>5
  <2>2. TypeOK' BY <1>1, <1>3, <1>4, <2>1 DEF IInv, TypeOK
  <2>3. EffectsOK' BY <1>1, <1>3, <1>5, <2>1 DEF IInv, EffectsOK
  <2>4. PageOK' BY <1>1, <1>3, <2>1 DEF IInv, PageOK
  <2> QED BY <2>2, <2>3, <2>4 DEF IInv
<1>6. CASE mounted
  <2>1. /\ current \in Nat /\ changes \in 0..MaxChanges /\ current <= changes
        /\ current + 1 \in Effects /\ current' = current + 1
        /\ current' \in 0..(MaxChanges + 1)
    BY PollingAssumption, <1>1, <1>6 DEF IInv, TypeOK, EffectsOK, Effects
  <2>2. /\ Opened \in Closure /\ Opened.active = TRUE /\ Opened.timer = "none"
        /\ Opened.request = "sent" /\ Opened.id = id /\ id \in Scans
    BY DEF Opened, Closure, IInv, TypeOK
  <2>3. effect'[current + 1] = Opened
        /\ \A d \in Effects \ {current + 1} : effect'[d] = cleaned[d]
    BY <1>1, <1>4, <1>6, <2>1
  <2>4. effect' \in [Effects -> Closure] BY <1>1, <1>3, <1>4, <1>6, <2>2
  <2>5. TypeOK' BY <1>1, <2>1, <2>4 DEF IInv, TypeOK
  <2>6. EffectsOK' BY <1>1, <1>3, <1>6, <2>1, <2>2, <2>3 DEF EffectsOK
  <2>7. PageOK' BY <1>1, <1>3, <2>2, <2>3 DEF IInv, PageOK
  <2> QED BY <2>5, <2>6, <2>7 DEF IInv
<1> QED BY <1>5, <1>6

LEMMA TimerFiresKeeps == ASSUME IInv, NEW e \in Effects, TimerFires(e) PROVE IInv'
<1>1. /\ effect[e].timer = "armed" /\ effect[e].active /\ effect[e].request = "none"
      /\ effect[e] \in Closure /\ effect \in [Effects -> Closure]
      /\ UNCHANGED <<id, mounted, dirty, current, page, ended, changes, failures>>
  BY DEF TimerFires, IInv, TypeOK, EffectsOK
<1> DEFINE fired == [effect[e] EXCEPT !.timer = "none", !.request = "sent"]
<1>2. effect' = [effect EXCEPT ![e] = fired] BY <1>1 DEF TimerFires
<1>3. /\ fired \in Closure /\ fired.active = effect[e].active /\ fired.id = effect[e].id
      /\ fired.timer = "none" /\ fired.request = "sent"
  BY <1>1 DEF Closure
<1> HIDE DEF fired
<1>4. effect'[e] = fired /\ \A d \in Effects \ {e} : effect'[d] = effect[d] BY <1>1, <1>2
<1>5. effect' \in [Effects -> Closure] BY <1>1, <1>2, <1>3
<1>6. TypeOK' BY <1>1, <1>5 DEF IInv, TypeOK
<1>7. EffectsOK'
  <2>1. mounted' /\ ~dirty' => effect'[current'].active
    BY <1>1, <1>3, <1>4 DEF IInv, EffectsOK
  <2> QED BY <1>1, <1>3, <1>4, <2>1 DEF IInv, EffectsOK
<1>8. PageOK' BY <1>1, <1>3, <1>4 DEF IInv, PageOK, Expectant
<1> QED BY <1>6, <1>7, <1>8 DEF IInv

LEMMA SettleKeeps == ASSUME IInv, NEW e \in Effects, Settle(e) PROVE IInv'
<1>1. /\ effect[e].request = "sent" /\ effect[e].active /\ effect[e].timer = "none"
      /\ effect[e] \in Closure /\ effect \in [Effects -> Closure]
      /\ UNCHANGED <<id, mounted, dirty, current, page, ended, changes>>
      /\ failures' \in 0..MaxFailures
  BY PollingAssumption DEF Settle, IInv, TypeOK, EffectsOK, Closure
<1>2. PICK a \in Answers \ {"aborted"} :
        /\ effect' = [effect EXCEPT ![e].request = a]
        /\ a = "ended" => effect[e].id \in ended
        /\ a = "active" => effect[e].id \notin ended
  BY DEF Settle, Answers
<1> DEFINE settled == [effect[e] EXCEPT !.request = a]
<1>3. effect' = [effect EXCEPT ![e] = settled] BY <1>1, <1>2
<1>4. /\ settled \in Closure /\ settled.active = effect[e].active /\ settled.id = effect[e].id
      /\ settled.timer = "none" /\ settled.request = a
  BY <1>1, <1>2 DEF Closure, Answers
<1>5. a \notin {"none", "sent", "aborted"} BY <1>2 DEF Answers
<1> HIDE DEF settled
<1>6. effect'[e] = settled /\ \A d \in Effects \ {e} : effect'[d] = effect[d] BY <1>1, <1>3
<1>7. effect' \in [Effects -> Closure] BY <1>1, <1>3, <1>4
<1>8. TypeOK' BY <1>1, <1>7 DEF IInv, TypeOK
<1>9. EffectsOK'
  <2>1. mounted' /\ ~dirty' => effect'[current'].active
    BY <1>1, <1>4, <1>6 DEF IInv, EffectsOK
  <2> QED BY <1>1, <1>2, <1>4, <1>5, <1>6, <2>1 DEF IInv, EffectsOK
<1>10. PageOK'
  <2>1. effect[e].id \in Scans /\ effect[e].id # NoScan
    BY PollingAssumption, <1>1 DEF IInv, EffectsOK
  <2>2. a = "active" /\ page.scan.id = effect[e].id => page.scan.active
    BY <1>2, <2>1 DEF IInv, PageOK
  <2> QED BY <1>1, <1>4, <1>5, <1>6, <2>2 DEF IInv, PageOK, Expectant
<1> QED BY <1>8, <1>9, <1>10 DEF IInv

(* What load does after its await, in an active effect.                    *)
LEMMA ContinueActive ==
  ASSUME IInv, NEW e \in Effects, Continue(e), effect[e].active
  PROVE  /\ e = current /\ page' \in Page
         /\ effect' = [effect EXCEPT ![e].request = "none",
                                     ![e].timer = Schedule(effect[e].request)]
         /\ \/ /\ effect[e].request = "active" /\ Schedule(effect[e].request) = "armed"
               /\ page'.scan.id = effect[e].id /\ page'.scan.active /\ page'.error = "none"
            \/ /\ effect[e].request = "ended" /\ Schedule(effect[e].request) = "none"
               /\ page'.scan.id = effect[e].id /\ ~page'.scan.active /\ ~Expectant'
            \/ /\ effect[e].request = "temporary" /\ Schedule(effect[e].request) = "armed"
               /\ page'.scan = page.scan /\ page'.error = "temporary"
            \/ /\ effect[e].request = "permanent" /\ Schedule(effect[e].request) = "none"
               /\ page'.scan = page.scan /\ ~Expectant'
<1>1. /\ e = current /\ effect[e].request \in Answers \ {"aborted"} /\ page \in Page
      /\ effect[e].id \in Scans
  BY DEF Continue, IInv, TypeOK, EffectsOK, Page
<1>2. /\ page' = Displayed(e, effect[e].request)
      /\ effect' = [effect EXCEPT ![e].request = "none",
                                  ![e].timer = Schedule(effect[e].request)]
  BY <1>1 DEF Continue
<1>3. CASE effect[e].request = "active"
  <2> DEFINE now == [id |-> effect[e].id, active |-> TRUE]
  <2>1. page' = [scan |-> now, loading |-> FALSE, error |-> "none", retrying |-> FALSE]
    BY <1>2, <1>3 DEF Displayed
  <2>2. now \in Shown /\ now.id = effect[e].id /\ now.active = TRUE BY <1>1 DEF Shown
  <2> HIDE DEF now
  <2>3. /\ page' \in Page /\ page'.scan = now /\ page'.error = "none"
        /\ page'.loading = FALSE /\ page'.retrying = FALSE
    BY <2>1, <2>2 DEF Page
  <2>4. Schedule(effect[e].request) = "armed" BY <1>3 DEF Schedule
  <2> QED BY <1>1, <1>2, <1>3, <2>2, <2>3, <2>4
<1>4. CASE effect[e].request = "ended"
  <2> DEFINE now == [id |-> effect[e].id, active |-> FALSE]
  <2>1. page' = [scan |-> now, loading |-> FALSE, error |-> "none", retrying |-> FALSE]
    BY <1>2, <1>4 DEF Displayed
  <2>2. now \in Shown /\ now.id = effect[e].id /\ now.active = FALSE BY <1>1 DEF Shown
  <2> HIDE DEF now
  <2>3. /\ page' \in Page /\ page'.scan = now /\ page'.error = "none"
        /\ page'.loading = FALSE /\ page'.retrying = FALSE
    BY <2>1, <2>2 DEF Page
  <2>4. Schedule(effect[e].request) = "none" BY <1>4 DEF Schedule
  <2> QED BY <1>1, <1>2, <1>4, <2>2, <2>3, <2>4 DEF Expectant
<1>5. CASE effect[e].request = "temporary"
  <2>1. page' = [page EXCEPT !.error = "temporary", !.loading = FALSE, !.retrying = TRUE]
    BY <1>2, <1>5 DEF Displayed
  <2> QED BY <1>1, <1>2, <1>5, <2>1 DEF Schedule, Page
<1>6. CASE effect[e].request = "permanent"
  <2>1. page' = [page EXCEPT !.error = "permanent", !.loading = FALSE, !.retrying = FALSE]
    BY <1>2, <1>6 DEF Displayed
  <2> QED BY <1>1, <1>2, <1>6, <2>1 DEF Schedule, Page, Expectant
<1> QED BY <1>1, <1>3, <1>4, <1>5, <1>6 DEF Answers

LEMMA ContinueKeeps == ASSUME IInv, NEW e \in Effects, Continue(e) PROVE IInv'
<1>1. /\ effect[e].request \in Answers /\ effect[e] \in Closure /\ effect \in [Effects -> Closure]
      /\ effect[e].timer = "none"
      /\ UNCHANGED <<id, mounted, dirty, current, ended, changes, failures>>
  BY DEF Continue, IInv, TypeOK, EffectsOK, Closure, Answers
<1>2. CASE ~effect[e].active
  <2> DEFINE over == [effect[e] EXCEPT !.request = "none"]
  <2>1. effect' = [effect EXCEPT ![e] = over] /\ page' = page BY <1>1, <1>2 DEF Continue
  <2>2. /\ over \in Closure /\ over.active = effect[e].active /\ over.timer = "none"
        /\ over.request = "none"
    BY <1>1 DEF Closure
  <2> HIDE DEF over
  <2>3. effect'[e] = over /\ \A d \in Effects \ {e} : effect'[d] = effect[d] BY <1>1, <2>1
  <2>4. effect' \in [Effects -> Closure] BY <1>1, <2>1, <2>2
  <2>5. TypeOK' BY <1>1, <2>1, <2>4 DEF IInv, TypeOK
  <2>6. EffectsOK'
    <3>1. mounted' /\ ~dirty' => effect'[current'].active
      <4>1. mounted /\ ~dirty => current \in Effects /\ effect[current].active /\ current # e
        BY <1>2 DEF IInv, EffectsOK, TypeOK, Effects
      <4> QED BY <1>1, <2>3, <4>1
    <3> QED BY <1>1, <1>2, <2>2, <2>3, <3>1 DEF IInv, EffectsOK
  <2>7. PageOK' BY <1>1, <1>2, <2>1, <2>2, <2>3 DEF IInv, PageOK, Expectant
  <2> QED BY <2>5, <2>6, <2>7 DEF IInv
<1>3. CASE effect[e].active
  <2> DEFINE next == [effect[e] EXCEPT !.request = "none", !.timer = Schedule(effect[e].request)]
  <2>1. effect' = [effect EXCEPT ![e] = next] BY <1>1, <1>3, ContinueActive
  <2>2. /\ next \in Closure /\ next.active = effect[e].active /\ next.id = effect[e].id
        /\ next.timer = Schedule(effect[e].request) /\ next.request = "none"
    BY <1>1 DEF Closure, Schedule
  <2> HIDE DEF next
  <2>3. effect'[e] = next /\ \A d \in Effects \ {e} : effect'[d] = effect[d] BY <1>1, <2>1
  <2>4. effect' \in [Effects -> Closure] BY <1>1, <2>1, <2>2
  <2>5. TypeOK' BY <1>1, <1>3, <2>4, ContinueActive DEF IInv, TypeOK, Page
  <2>6. EffectsOK'
    <3>1. mounted' /\ ~dirty' => effect'[current'].active
      BY <1>1, <1>3, <2>2, <2>3 DEF IInv, EffectsOK
    <3> QED BY <1>1, <1>3, <2>2, <2>3, <3>1 DEF IInv, EffectsOK
  <2>7. PageOK'
    <3>1. \A d \in Effects : effect'[d].active => d = e
      BY <1>1, <1>3, <2>3 DEF IInv, EffectsOK
    <3>2. page'.scan.id # NoScan /\ ~page'.scan.active => page'.scan.id \in ended'
      BY <1>1, <1>3, ContinueActive DEF IInv, PageOK, EffectsOK
    <3>3. /\ effect'[e].request = "none"
          /\ effect'[e].timer = "armed" => page'.error = "temporary" \/ page'.scan.active
          /\ Expectant' => effect'[e].timer = "armed"
      BY <1>3, <2>2, <2>3, ContinueActive
    <3> QED BY <3>1, <3>2, <3>3 DEF PageOK
  <2> QED BY <2>5, <2>6, <2>7 DEF IInv
<1> QED BY <1>2, <1>3

LEMMA EndKeeps == ASSUME IInv, NEW i \in Scans, End(i) PROVE IInv'
<1>1. /\ ended' = ended \cup {i}
      /\ UNCHANGED <<id, mounted, dirty, effect, current, page, changes, failures>>
  BY DEF End
<1>2. TypeOK' BY <1>1 DEF IInv, TypeOK
<1>3. EffectsOK' BY <1>1 DEF IInv, EffectsOK
<1>4. PageOK' BY <1>1 DEF IInv, PageOK, Expectant
<1> QED BY <1>2, <1>3, <1>4 DEF IInv

LEMMA Invariance == Spec => []IInv
<1>1. Init => IInv BY InitOK
<1>2. IInv /\ [Next]_vars => IInv'
  <2> SUFFICES ASSUME IInv, [Next]_vars PROVE IInv' OBVIOUS
  <2>1. CASE User BY <2>1, ChangeIdKeeps, RetryKeeps, LeaveKeeps DEF User
  <2>2. CASE Runtime
    BY <2>2, RunEffectsKeeps, TimerFiresKeeps, SettleKeeps, ContinueKeeps DEF Runtime
  <2>3. ASSUME NEW i \in Scans, End(i) PROVE IInv' BY <2>3, EndKeeps
  <2>4. CASE UNCHANGED vars
    BY <2>4 DEF vars, IInv, TypeOK, EffectsOK, PageOK, Expectant
  <2> QED BY <2>1, <2>2, <2>3, <2>4 DEF Next
<1> QED BY <1>1, <1>2, PTL DEF Spec

-----------------------------------------------------------------------------
(* The theorems                                                            *)

(* The hook's variables keep their types; in particular React never runs   *)
(* more effects than there were changes.                                   *)
THEOREM PollingTypeCorrect == Spec => []TypeOK
<1>1. IInv => TypeOK BY DEF IInv
<1> QED BY <1>1, Invariance, PTL

(* However late cleanups, timers and answers are, one loop polls at most,   *)
(* and none when the page was left or its scan has ended.                  *)
THEOREM OneLoopPolls == Spec => []OneLoop
<1>1. IInv => OneLoop
  <2> SUFFICES ASSUME IInv PROVE OneLoop OBVIOUS
  <2>1. \A e \in Effects : Polling(e) => effect[e].active /\ e = current /\ (mounted \/ dirty)
    BY DEF IInv, TypeOK, Closure, EffectsOK, Polling
  <2>2. \A e \in Effects : effect[e].timer = "armed" => effect[e].request = "none"
    BY DEF IInv, EffectsOK
  <2>3. ASSUME page.scan.id # NoScan, ~page.scan.active, page.error = "none", current > 0,
               effect[current].request = "none"
        PROVE  ~Polling(current)
    <3>1. current \in Effects BY <2>3 DEF IInv, TypeOK, Effects
    <3>2. effect[current].timer # "armed" BY <2>1, <2>3, <3>1 DEF IInv, PageOK, Polling
    <3> QED BY <2>3, <3>2 DEF Polling
  <2> QED BY <2>1, <2>2, <2>3 DEF OneLoop
<1> QED BY <1>1, Invariance, PTL

(* A page that promises an update has one coming.                          *)
THEOREM UpdatesCome == Spec => []UpdateIsComing
<1>1. IInv => UpdateIsComing
  <2> SUFFICES ASSUME IInv, mounted, Expectant, ~dirty
               PROVE  Polling(current) \/ effect[current].request \in Answers \ {"aborted"}
    BY DEF UpdateIsComing
  <2>1. current \in Effects /\ effect[current].active /\ effect[current] \in Closure
    BY DEF IInv, TypeOK, EffectsOK, Effects
  <2>2. effect[current].timer = "armed" \/ effect[current].request # "none"
    BY <2>1 DEF IInv, PageOK
  <2>3. effect[current].request # "aborted" BY <2>1 DEF IInv, EffectsOK
  <2> QED BY <2>1, <2>2, <2>3 DEF Polling, Closure
<1> QED BY <1>1, Invariance, PTL

(* No late answer reaches the page, and no ended scan comes back to life.   *)
THEOREM NothingStaleIsShown == Spec => NoStaleAnswerShown
<1> DEFINE Fresh == page'.scan # page.scan =>
                      /\ page'.scan.id = effect[current].id
                      /\ page'.scan.id = page.scan.id => page.scan.active
<1>1. IInv /\ IInv' /\ [Next]_vars => [Fresh]_vars
  <2> SUFFICES ASSUME IInv, IInv', [Next]_vars, page'.scan # page.scan
               PROVE  /\ page'.scan.id = effect[current].id
                      /\ page'.scan.id = page.scan.id => page.scan.active
    OBVIOUS
  <2>1. page \in Page /\ page' \in Page BY DEF IInv, TypeOK, Page
  <2>2. PICK e \in Effects : Continue(e)
    BY <2>1 DEF Next, vars, User, Runtime, ChangeId, Retry, Leave, RunEffects, TimerFires,
                Settle, End, Page
  <2>3. effect[e].active BY <2>2 DEF Continue
  <2>4. e = current /\ page'.scan.id = effect[e].id /\ effect[e].request \in {"active", "ended"}
    BY <2>2, <2>3, ContinueActive
  <2>5. ASSUME page'.scan.id = page.scan.id PROVE page.scan.active
    <3>1. CASE effect[e].request = "active"
      BY <2>3, <2>4, <2>5, <3>1 DEF IInv, PageOK
    <3>2. CASE effect[e].request = "ended"
      <4>1. ~page'.scan.active BY <2>2, <2>3, <3>2, ContinueActive
      <4>2. page.scan \in Shown /\ page'.scan \in Shown BY <2>1 DEF Page
      <4> QED BY <2>5, <4>1, <4>2 DEF Shown
    <3> QED BY <2>4, <3>1, <3>2
  <2> QED BY <2>4, <2>5
<1> QED BY <1>1, Invariance, PTL DEF Spec, NoStaleAnswerShown
=============================================================================
