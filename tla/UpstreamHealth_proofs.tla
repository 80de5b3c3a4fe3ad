-------------------------- MODULE UpstreamHealth_proofs ------------------------
(***************************************************************************)
(* Proofs about UpstreamHealth, for any thresholds, slots, endpoints and   *)
(* requests: the copies of a verdict agree, and what lookups see is what   *)
(* HealthVerdict promises.                                                 *)
(***************************************************************************)
EXTENDS UpstreamHealth, TLAPS

--------------------------------------------------------------------------------
(* One endpoint *)

\* An endpoint as HealthVerdict sees it.
View(h) == [healthy |-> h.healthy, run |-> RunOf(h)]

\* record_result, field by field.
LEMMA RecordedSuccess ==
    ASSUME NEW h \in HealthStates
    PROVE  /\ Recorded(h, TRUE).healthy =
                IF h.successes + 1 >= SuccessThreshold THEN TRUE ELSE h.healthy
           /\ Recorded(h, TRUE).failures = 0
           /\ Recorded(h, TRUE).successes = Min2(h.successes + 1, SuccessThreshold)
           /\ Recorded(h, TRUE) \in HealthStates
<1> DEFINE n == Min2(h.successes + 1, SuccessThreshold)
<1>1. n \in 0..SuccessThreshold /\ (n >= SuccessThreshold <=> h.successes + 1 >= SuccessThreshold)
  BY HealthAssumption DEF HealthStates, Min2
<1> HIDE DEF n
<1>2. Recorded(h, TRUE) =
        [h EXCEPT !.failures = 0, !.successes = n,
                  !.healthy = IF n >= SuccessThreshold THEN TRUE ELSE @]
  BY DEF Recorded, n
<1>3. 0 \in 0..FailureThreshold
  BY HealthAssumption
<1>4. Recorded(h, TRUE) \in HealthStates
  BY <1>1, <1>2, <1>3 DEF HealthStates
<1> QED BY <1>1, <1>2, <1>4 DEF HealthStates, n

LEMMA RecordedFailure ==
    ASSUME NEW h \in HealthStates
    PROVE  /\ Recorded(h, FALSE).healthy =
                IF h.failures + 1 >= FailureThreshold THEN FALSE ELSE h.healthy
           /\ Recorded(h, FALSE).successes = 0
           /\ Recorded(h, FALSE).failures = Min2(h.failures + 1, FailureThreshold)
           /\ Recorded(h, FALSE) \in HealthStates
<1> DEFINE n == Min2(h.failures + 1, FailureThreshold)
<1>1. n \in 0..FailureThreshold /\ (n >= FailureThreshold <=> h.failures + 1 >= FailureThreshold)
  BY HealthAssumption DEF HealthStates, Min2
<1> HIDE DEF n
<1>2. Recorded(h, FALSE) =
        [h EXCEPT !.successes = 0, !.failures = n,
                  !.healthy = IF n >= FailureThreshold THEN FALSE ELSE @]
  BY DEF Recorded, n
<1>3. 0 \in 0..SuccessThreshold
  BY HealthAssumption
<1>4. Recorded(h, FALSE) \in HealthStates
  BY <1>1, <1>2, <1>3 DEF HealthStates
<1> QED BY <1>1, <1>2, <1>4 DEF HealthStates, n

\* A result keeps the counters below their thresholds, as far as the verdict
\* depends on them.
LEMMA RecordedState ==
    ASSUME NEW h \in HealthStates, Justified(h), NEW success \in BOOLEAN
    PROVE  Recorded(h, success) \in HealthStates /\ Justified(Recorded(h, success))
<1> h.failures \in Nat /\ h.successes \in Nat /\ h.healthy \in BOOLEAN
  BY HealthAssumption DEF HealthStates
<1>1. CASE success = TRUE
  <2> DEFINE g == Recorded(h, TRUE)
  <2>1. /\ g \in HealthStates
        /\ g.healthy = IF h.successes + 1 >= SuccessThreshold THEN TRUE ELSE h.healthy
        /\ g.failures = 0
        /\ g.successes = Min2(h.successes + 1, SuccessThreshold)
    BY RecordedSuccess
  <2> HIDE DEF g
  <2>2. Justified(g)
    BY <2>1, HealthAssumption DEF Justified, Min2
  <2> QED BY <1>1, <2>1, <2>2 DEF g
<1>2. CASE success = FALSE
  <2> DEFINE g == Recorded(h, FALSE)
  <2>1. /\ g \in HealthStates
        /\ g.healthy = IF h.failures + 1 >= FailureThreshold THEN FALSE ELSE h.healthy
        /\ g.successes = 0
        /\ g.failures = Min2(h.failures + 1, FailureThreshold)
    BY RecordedFailure
  <2> HIDE DEF g
  <2>2. Justified(g)
    BY <2>1, HealthAssumption DEF Justified, Min2
  <2> QED BY <1>2, <2>1, <2>2 DEF g
<1> QED BY <1>1, <1>2

LEMMA ThresholdOf ==
    /\ Verdict!Threshold(TRUE) = SuccessThreshold
    /\ Verdict!Threshold(FALSE) = FailureThreshold
  BY DEF Verdict!Threshold

LEMMA ExtendedRun ==
    ASSUME NEW n \in Nat
    PROVE  /\ n <= SuccessThreshold =>
                Verdict!Extended([ok |-> TRUE, length |-> n], TRUE) =
                  [ok |-> TRUE, length |-> Min2(n + 1, SuccessThreshold)]
           /\ n <= FailureThreshold =>
                Verdict!Extended([ok |-> FALSE, length |-> n], FALSE) =
                  [ok |-> FALSE, length |-> Min2(n + 1, FailureThreshold)]
           /\ Verdict!Extended([ok |-> FALSE, length |-> n], TRUE) = [ok |-> TRUE, length |-> 1]
           /\ Verdict!Extended([ok |-> TRUE, length |-> n], FALSE) = [ok |-> FALSE, length |-> 1]
<1>1. Verdict!Extended([ok |-> TRUE, length |-> n], TRUE) =
        [ok |-> TRUE, length |-> IF n < SuccessThreshold THEN n + 1 ELSE n]
  BY ThresholdOf DEF Verdict!Extended
<1>2. Verdict!Extended([ok |-> FALSE, length |-> n], FALSE) =
        [ok |-> FALSE, length |-> IF n < FailureThreshold THEN n + 1 ELSE n]
  BY ThresholdOf DEF Verdict!Extended
<1>3. /\ n <= SuccessThreshold =>
           (IF n < SuccessThreshold THEN n + 1 ELSE n) = Min2(n + 1, SuccessThreshold)
      /\ n <= FailureThreshold =>
           (IF n < FailureThreshold THEN n + 1 ELSE n) = Min2(n + 1, FailureThreshold)
  BY HealthAssumption DEF Min2
<1>4. /\ Verdict!Extended([ok |-> FALSE, length |-> n], TRUE) = [ok |-> TRUE, length |-> 1]
      /\ Verdict!Extended([ok |-> TRUE, length |-> n], FALSE) = [ok |-> FALSE, length |-> 1]
  BY DEF Verdict!Extended
<1> QED BY <1>1, <1>2, <1>3, <1>4

\* The two counters implement the run of equal results.
LEMMA RecordedJudges ==
    ASSUME NEW h \in HealthStates, Justified(h), NEW success \in BOOLEAN
    PROVE  View(Recorded(h, success)) = Verdict!Judged(View(h), success)
<1> /\ h.failures \in Nat /\ h.failures <= FailureThreshold
    /\ h.successes \in Nat /\ h.successes <= SuccessThreshold
    /\ h.healthy \in BOOLEAN
  BY HealthAssumption DEF HealthStates
<1>1. CASE success = TRUE
  <2> DEFINE g == Recorded(h, TRUE)
             longer == [ok |-> TRUE, length |-> Min2(h.successes + 1, SuccessThreshold)]
  <2>1. /\ g.healthy = IF h.successes + 1 >= SuccessThreshold THEN TRUE ELSE h.healthy
        /\ g.failures = 0
        /\ g.successes = Min2(h.successes + 1, SuccessThreshold)
    BY RecordedSuccess
  <2> HIDE DEF g
  <2>2. RunOf(g) = longer
    BY <2>1, HealthAssumption DEF RunOf, Min2
  <2>3. Verdict!Extended(RunOf(h), TRUE) = longer
    <3>1. CASE h.failures > 0
      <4>1. RunOf(h) = [ok |-> FALSE, length |-> h.failures]
        BY <3>1 DEF RunOf
      <4>2. Min2(h.successes + 1, SuccessThreshold) = 1
        BY <3>1, HealthAssumption DEF Justified, Min2
      <4> QED BY <4>1, <4>2, ExtendedRun
    <3>2. CASE h.failures = 0
      <4>1. RunOf(h) = [ok |-> TRUE, length |-> h.successes]
        BY <3>2 DEF RunOf
      <4> QED BY <4>1, ExtendedRun
    <3>3. h.failures > 0 \/ h.failures = 0
      OBVIOUS
    <3> QED BY <3>1, <3>2, <3>3, Zenon
  <2>4. longer.length = SuccessThreshold <=> h.successes + 1 >= SuccessThreshold
    BY HealthAssumption DEF Min2
  <2>5. View(h).healthy = h.healthy /\ View(h).run = RunOf(h)
    BY DEF View
  <2> HIDE DEF longer
  <2>6. Verdict!Judged(View(h), TRUE) =
          [healthy |-> IF longer.length = SuccessThreshold THEN TRUE ELSE h.healthy, run |-> longer]
    BY <2>3, <2>5, ThresholdOf DEF Verdict!Judged
  <2>7. View(g) = Verdict!Judged(View(h), TRUE)
    BY <2>1, <2>2, <2>4, <2>6 DEF View
  <2> QED BY <1>1, <2>7 DEF g
<1>2. CASE success = FALSE
  <2> DEFINE g == Recorded(h, FALSE)
             longer == [ok |-> FALSE, length |-> Min2(h.failures + 1, FailureThreshold)]
  <2>1. /\ g.healthy = IF h.failures + 1 >= FailureThreshold THEN FALSE ELSE h.healthy
        /\ g.successes = 0
        /\ g.failures = Min2(h.failures + 1, FailureThreshold)
    BY RecordedFailure
  <2> HIDE DEF g
  <2>2. RunOf(g) = longer
    BY <2>1, HealthAssumption DEF RunOf, Min2
  <2>3. Verdict!Extended(RunOf(h), FALSE) = longer
    <3>1. CASE h.failures > 0
      <4>1. RunOf(h) = [ok |-> FALSE, length |-> h.failures]
        BY <3>1 DEF RunOf
      <4> QED BY <4>1, ExtendedRun
    <3>2. CASE h.failures = 0
      <4>1. RunOf(h) = [ok |-> TRUE, length |-> h.successes]
        BY <3>2 DEF RunOf
      <4>2. Min2(h.failures + 1, FailureThreshold) = 1
        BY <3>2, HealthAssumption DEF Min2
      <4> QED BY <4>1, <4>2, ExtendedRun
    <3>3. h.failures > 0 \/ h.failures = 0
      OBVIOUS
    <3> QED BY <3>1, <3>2, <3>3, Zenon
  <2>4. longer.length = FailureThreshold <=> h.failures + 1 >= FailureThreshold
    BY HealthAssumption DEF Min2
  <2>5. View(h).healthy = h.healthy /\ View(h).run = RunOf(h)
    BY DEF View
  <2> HIDE DEF longer
  <2>6. Verdict!Judged(View(h), FALSE) =
          [healthy |-> IF longer.length = FailureThreshold THEN FALSE ELSE h.healthy, run |-> longer]
    BY <2>3, <2>5, ThresholdOf DEF Verdict!Judged
  <2>7. View(g) = Verdict!Judged(View(h), FALSE)
    BY <2>1, <2>2, <2>4, <2>6 DEF View
  <2> QED BY <1>2, <2>7 DEF g
<1> QED BY <1>1, <1>2

\* next_check is not part of the verdict.
LEMMA DueIsInvisible ==
    ASSUME NEW h \in HealthStates, Justified(h), NEW due \in BOOLEAN
    PROVE  LET later == [h EXCEPT !.due = due]
           IN  later \in HealthStates /\ Justified(later) /\ View(later) = View(h)
               /\ later.healthy = h.healthy
  BY DEF HealthStates, Justified, View, RunOf

\* A pass of advance_probes leaves the counters alone or records one result.
LEMMA AdvanceState ==
    ASSUME NEW h, NEW p \in Probes, NEW server, NEW o \in Advance(h, p, server)
    PROVE  /\ o[2] \in Probes
           /\ o[1] = h \/ \E success \in BOOLEAN : o[1] = Recorded(h, success)
<1>1. CASE p = NoProbe
  BY <1>1 DEF Advance, Probes
<1>2. CASE p # NoProbe /\ o \in Pending(h, p, server)
  <2> DEFINE rest == IF p.left = 0 THEN 0 ELSE p.left - 1
  <2>1. PICK q \in Phases : o = <<h, [p EXCEPT !.phase = q, !.left = rest]>>
    BY <1>2 DEF Pending
  <2>2. p \in [phase: Phases, left: 0..ProbeTicks, overdue: BOOLEAN]
    BY <1>2 DEF Probes
  <2>3. rest \in 0..ProbeTicks
    BY <2>2, HealthAssumption
  <2> HIDE DEF rest
  <2>4. [p EXCEPT !.phase = q, !.left = rest] \in Probes
    BY <2>2, <2>3 DEF Probes
  <2> QED BY <2>1, <2>4
<1>3. ASSUME NEW success \in BOOLEAN, o = Finished(h, success)
      PROVE  o[1] = Recorded(h, success) /\ o[2] \in Probes
  BY <1>3 DEF Finished, Probes
<1>4. \/ p = NoProbe
      \/ p # NoProbe /\ o \in Pending(h, p, server)
      \/ \E success \in BOOLEAN : o = Finished(h, success)
  BY DEF Advance
<1> QED BY <1>1, <1>2, <1>3, <1>4

\* Starting a probe leaves the counters alone or records a failure.
LEMMA StartState ==
    ASSUME NEW h \in HealthStates, Justified(h), NEW p \in Probes, NEW server,
           NEW o \in StartIfDue(h, p, server)
    PROVE  /\ o[1] \in HealthStates /\ Justified(o[1])
           /\ o[2] \in Probes
           /\ View(o[1]) = View(h) \/ View(o[1]) = Verdict!Judged(View(h), FALSE)
<1> DEFINE later == [h EXCEPT !.due = FALSE]
<1>1. later \in HealthStates /\ Justified(later) /\ View(later) = View(h)
  BY DueIsInvisible
<1> HIDE DEF later
<1>2. CASE o = <<h, p>>
  BY <1>2
<1>3. ASSUME NEW q \in {"Connecting", "Sending"},
             o = <<later, [phase |-> q, left |-> ProbeTicks, overdue |-> FALSE]>>
      PROVE  /\ o[1] = later
             /\ o[2] \in Probes
  BY <1>3, HealthAssumption DEF Probes, Phases
<1>4. CASE o = <<Recorded(later, FALSE), NoProbe>>
  <2>1. o[1] = Recorded(later, FALSE) /\ o[2] \in Probes
    BY <1>4 DEF Probes
  <2> QED BY <1>1, <2>1, RecordedState, RecordedJudges
<1>5. \/ o = <<h, p>>
      \/ \E q \in {"Connecting", "Sending"} :
           o = <<later, [phase |-> q, left |-> ProbeTicks, overdue |-> FALSE]>>
      \/ o = <<Recorded(later, FALSE), NoProbe>>
  BY DEF StartIfDue, Started, later
<1> QED BY <1>1, <1>2, <1>3, <1>4, <1>5

LEMMA OutcomesOf ==
    ASSUME NEW e
    PROVE  /\ e \in Verdict!Outcomes(e)
           /\ \A first \in BOOLEAN :
                /\ Verdict!Judged(e, first) \in Verdict!Outcomes(e)
                /\ \A second \in BOOLEAN :
                     Verdict!Judged(Verdict!Judged(e, first), second) \in Verdict!Outcomes(e)
  BY DEF Verdict!Outcomes

\* One tick records at most two results about an endpoint, as HealthVerdict
\* allows.
LEMMA TickedState ==
    ASSUME NEW h \in HealthStates, Justified(h), NEW p \in Probes, NEW server,
           NEW o \in Ticked(h, p, server)
    PROVE  /\ o[1] \in HealthStates /\ Justified(o[1])
           /\ o[2] \in Probes
           /\ View(o[1]) \in Verdict!Outcomes(View(h))
<1>1. PICK a \in Advance(h, p, server) : o \in StartIfDue(a[1], a[2], server)
  BY DEF Ticked
<1>2. a[2] \in Probes /\ (a[1] = h \/ \E success \in BOOLEAN : a[1] = Recorded(h, success))
  BY AdvanceState
<1>3. a[1] \in HealthStates /\ Justified(a[1])
  BY <1>2, RecordedState
<1>4. /\ o[1] \in HealthStates /\ Justified(o[1]) /\ o[2] \in Probes
      /\ View(o[1]) = View(a[1]) \/ View(o[1]) = Verdict!Judged(View(a[1]), FALSE)
  BY <1>1, <1>2, <1>3, StartState
<1>5. CASE a[1] = h
  BY <1>4, <1>5, OutcomesOf
<1>6. ASSUME NEW success \in BOOLEAN, a[1] = Recorded(h, success)
      PROVE  View(o[1]) \in Verdict!Outcomes(View(h))
  <2>1. View(a[1]) = Verdict!Judged(View(h), success)
    BY <1>6, RecordedJudges
  <2> QED BY <1>4, <2>1, OutcomesOf
<1> QED BY <1>2, <1>4, <1>5, <1>6

--------------------------------------------------------------------------------
(* The table *)

\* set_endpoint_health carries every changed verdict into all slots of both copies.
LEMMA TableFollows ==
    ASSUME TypeOK, CopiesAgree,
           NEW after \in [DOMAIN health -> HealthStates]
    PROVE  LET table == SetEndpointHealth(routes, health, after)
           IN  /\ table = [endpoint |-> routes.endpoint, states |-> table.states,
                           public |-> table.public]
               /\ table.states \in [DOMAIN routes.endpoint -> BOOLEAN]
               /\ table.public \in [DOMAIN routes.endpoint -> BOOLEAN]
               /\ \A s \in DOMAIN routes.endpoint :
                    /\ table.states[s] = after[routes.endpoint[s]].healthy
                    /\ table.public[s] = after[routes.endpoint[s]].healthy
<1> DEFINE update(copy) ==
             [s \in DOMAIN routes.endpoint |->
                LET k == routes.endpoint[s]
                IN  IF health[k].healthy # after[k].healthy THEN after[k].healthy ELSE copy[s]]
           table == SetEndpointHealth(routes, health, after)
<1>1. DOMAIN health = EndpointsOf(routes.endpoint)
  BY DEF TypeOK
<1>2. \A s \in DOMAIN routes.endpoint : routes.endpoint[s] \in DOMAIN health
  BY <1>1 DEF EndpointsOf
<1>3. table = [endpoint |-> routes.endpoint, states |-> update(routes.states),
               public |-> update(routes.public)]
  BY DEF TypeOK, SetEndpointHealth
<1>4. \A k \in DOMAIN health : health[k].healthy \in BOOLEAN /\ after[k].healthy \in BOOLEAN
  BY DEF TypeOK, HealthStates
<1>5. ASSUME NEW s \in DOMAIN routes.endpoint
      PROVE  /\ update(routes.states)[s] = after[routes.endpoint[s]].healthy
             /\ update(routes.public)[s] = after[routes.endpoint[s]].healthy
  <2>1. /\ routes.states[s] = health[routes.endpoint[s]].healthy
        /\ routes.public[s] = health[routes.endpoint[s]].healthy
    BY DEF CopiesAgree
  <2> QED BY <2>1
<1>6. /\ update(routes.states) \in [DOMAIN routes.endpoint -> BOOLEAN]
      /\ update(routes.public) \in [DOMAIN routes.endpoint -> BOOLEAN]
  BY <1>2, <1>4, <1>5
<1> HIDE DEF update
<1> QED BY <1>3, <1>5, <1>6

--------------------------------------------------------------------------------
(* The inductive invariant *)

IInv == TypeOK /\ CopiesAgree /\ CountersJustify /\ ProbesAreConfigured

\* What an action that touches only tables and counters has to preserve.
TablesOK ==
    /\ routes.endpoint \in Configurations
    /\ routes = [endpoint |-> routes.endpoint, states |-> routes.states, public |-> routes.public]
    /\ routes.states \in [DOMAIN routes.endpoint -> BOOLEAN]
    /\ routes.public \in [DOMAIN routes.endpoint -> BOOLEAN]
    /\ health \in [EndpointsOf(routes.endpoint) -> HealthStates]
    /\ CopiesAgree
    /\ CountersJustify

\* The rest of the types.
OthersOK ==
    /\ probes \in [Keys -> Probes]
    /\ running \in BOOLEAN
    /\ requests \in [Requests -> {Idle} \cup Attempts]
    /\ servers \in [Keys -> Behaviours]
    /\ reloads \in 0..MaxReloads

LEMMA ConfigurationKeys ==
    ASSUME NEW configuration \in Configurations
    PROVE  /\ \A s \in DOMAIN configuration : s \in Slots /\ configuration[s] \in Keys
           /\ EndpointsOf(configuration) \subseteq Keys
  BY DEF Configurations, EndpointsOf

\* New counters, carried into the table.
LEMMA TablesStep ==
    ASSUME IInv,
           NEW after \in [DOMAIN health -> HealthStates],
           \A k \in DOMAIN health : Justified(after[k]),
           health' = after, routes' = SetEndpointHealth(routes, health, after)
    PROVE  /\ TablesOK'
           /\ DOMAIN health' = DOMAIN health
           /\ routes'.endpoint = routes.endpoint
<1> DEFINE table == SetEndpointHealth(routes, health, after)
<1>1. /\ table = [endpoint |-> routes.endpoint, states |-> table.states, public |-> table.public]
      /\ table.states \in [DOMAIN routes.endpoint -> BOOLEAN]
      /\ table.public \in [DOMAIN routes.endpoint -> BOOLEAN]
      /\ \A s \in DOMAIN routes.endpoint :
           /\ table.states[s] = after[routes.endpoint[s]].healthy
           /\ table.public[s] = after[routes.endpoint[s]].healthy
  BY TableFollows DEF IInv
<1>2. routes' = table
  OBVIOUS
<1> HIDE DEF table
<1>3. routes'.endpoint = routes.endpoint
  BY <1>1, <1>2
<1>4. DOMAIN health = EndpointsOf(routes.endpoint)
  BY DEF IInv, TypeOK
<1>5. CopiesAgree'
  BY <1>1, <1>2, <1>3 DEF CopiesAgree
<1>6. CountersJustify'
  BY DEF CountersJustify
<1>7. routes.endpoint \in Configurations
  BY DEF IInv, TypeOK
<1>8. health' \in [EndpointsOf(routes'.endpoint) -> HealthStates]
  BY <1>3, <1>4
<1> QED BY <1>1, <1>2, <1>3, <1>5, <1>6, <1>7, <1>8 DEF TablesOK

\* A result of a request about any key, configured or not.
LEMMA ResultStep ==
    ASSUME IInv, NEW k \in Keys, NEW success \in BOOLEAN, RecordUpstreamResult(k, success)
    PROVE  /\ TablesOK'
           /\ DOMAIN health' = DOMAIN health
           /\ routes'.endpoint = routes.endpoint
           /\ \A j \in DOMAIN health : View(health'[j]) \in Verdict!Outcomes(View(health[j]))
<1> DEFINE after == IF k \in DOMAIN health
                    THEN [health EXCEPT ![k] = Recorded(@, success)] ELSE health
<1>1. health' = after /\ routes' = SetEndpointHealth(routes, health, after)
  BY DEF RecordUpstreamResult
<1>2. health \in [DOMAIN health -> HealthStates] /\ \A j \in DOMAIN health : Justified(health[j])
  BY DEF IInv, TypeOK, CountersJustify
<1>3. \A j \in DOMAIN health :
        /\ after[j] \in HealthStates /\ Justified(after[j])
        /\ View(after[j]) \in Verdict!Outcomes(View(health[j]))
  BY <1>2, RecordedState, RecordedJudges, OutcomesOf
<1>4. after \in [DOMAIN health -> HealthStates]
  BY <1>2, <1>3
<1> HIDE DEF after
<1> QED BY <1>1, <1>3, <1>4, TablesStep

\* The tick, for all endpoints at once.
LEMMA TickStep ==
    ASSUME IInv, Tick
    PROVE  /\ IInv'
           /\ DOMAIN health' = DOMAIN health
           /\ \A j \in DOMAIN health : View(health'[j]) \in Verdict!Outcomes(View(health[j]))
<1>1. PICK outcome :
        /\ \A k \in DOMAIN health : outcome[k] \in Ticked(health[k], probes[k], servers[k])
        /\ health' = [k \in DOMAIN health |-> outcome[k][1]]
        /\ routes' = SetEndpointHealth(routes, health, [k \in DOMAIN health |-> outcome[k][1]])
        /\ probes' = [k \in Keys |-> IF k \in DOMAIN health THEN outcome[k][2] ELSE probes[k]]
  BY DEF Tick
<1> DEFINE after == [k \in DOMAIN health |-> outcome[k][1]]
<1>2. DOMAIN health \subseteq Keys
  BY ConfigurationKeys DEF IInv, TypeOK
<1>3. \A k \in DOMAIN health :
        /\ health[k] \in HealthStates /\ Justified(health[k]) /\ probes[k] \in Probes
  BY <1>2 DEF IInv, TypeOK, CountersJustify
<1>4. \A k \in DOMAIN health :
        /\ outcome[k][1] \in HealthStates /\ Justified(outcome[k][1]) /\ outcome[k][2] \in Probes
        /\ View(outcome[k][1]) \in Verdict!Outcomes(View(health[k]))
  BY <1>1, <1>3, TickedState
<1>5. /\ after \in [DOMAIN health -> HealthStates]
      /\ \A k \in DOMAIN health :
           Justified(after[k]) /\ View(after[k]) \in Verdict!Outcomes(View(health[k]))
      /\ health' = after /\ routes' = SetEndpointHealth(routes, health, after)
  BY <1>1, <1>4
<1> HIDE DEF after
<1>6. TablesOK' /\ DOMAIN health' = DOMAIN health
  BY <1>5, TablesStep
<1>7. probes' \in [Keys -> Probes]
  BY <1>1, <1>4 DEF IInv, TypeOK
<1>8. OthersOK'
  BY <1>7 DEF IInv, TypeOK, OthersOK, Tick
<1>9. ProbesAreConfigured'
  BY <1>1, <1>6 DEF IInv, ProbesAreConfigured
<1> QED BY <1>5, <1>6, <1>8, <1>9 DEF IInv, TypeOK, TablesOK, OthersOK

LEMMA RetryKeysType ==
    ASSUME NEW a \in Attempts, NEW table, table.endpoint \in Configurations
    PROVE  RetryKeys(a, table) \subseteq Keys
  BY ConfigurationKeys DEF RetryKeys, Attempts

\* The two results of an attempt.
LEMMA AttemptStep ==
    ASSUME IInv, NEW r \in Requests, AttemptSucceeds(r) \/ AttemptFails(r)
    PROVE  /\ IInv'
           /\ DOMAIN health' = DOMAIN health
           /\ \A j \in DOMAIN health : View(health'[j]) \in Verdict!Outcomes(View(health[j]))
<1>1. requests[r] \in Attempts
  BY DEF IInv, TypeOK, AttemptSucceeds, AttemptFails
<1>2. requests[r].key \in Keys
  BY <1>1 DEF Attempts
<1>3. \E success \in BOOLEAN : RecordUpstreamResult(requests[r].key, success)
  BY DEF AttemptSucceeds, AttemptFails
<1>4. /\ TablesOK'
      /\ DOMAIN health' = DOMAIN health
      /\ routes'.endpoint = routes.endpoint
      /\ \A j \in DOMAIN health : View(health'[j]) \in Verdict!Outcomes(View(health[j]))
  BY <1>2, <1>3, ResultStep
<1>5. requests' \in [Requests -> {Idle} \cup Attempts]
  <2>1. CASE AttemptSucceeds(r)
    <3>1. [requests[r] EXCEPT !.phase = "Answered"] \in Attempts
      BY <1>1 DEF Attempts
    <3> QED BY <2>1, <3>1 DEF AttemptSucceeds, IInv, TypeOK
  <2>2. CASE AttemptFails(r)
    <3>1. CASE requests' = [requests EXCEPT ![r] = Idle]
      BY <3>1 DEF IInv, TypeOK
    <3>2. ASSUME NEW k \in RetryKeys(requests[r], routes'),
                 requests' = [requests EXCEPT ![r] =
                                [@ EXCEPT !.phase = "Waiting", !.key = k, !.retried = TRUE,
                                          !.answerable = servers[k] # Down, !.spare = {}]]
          PROVE  requests' \in [Requests -> {Idle} \cup Attempts]
      <4>1. k \in Keys
        BY <1>1, <1>4, RetryKeysType DEF TablesOK
      <4>2. (servers[k] # Down) \in BOOLEAN
        OBVIOUS
      <4>3. [requests[r] EXCEPT !.phase = "Waiting", !.key = k, !.retried = TRUE,
                                !.answerable = servers[k] # Down, !.spare = {}] \in Attempts
        BY <1>1, <4>1, <4>2 DEF Attempts
      <4> QED BY <3>2, <4>3 DEF IInv, TypeOK
    <3> QED BY <2>2, <3>1, <3>2 DEF AttemptFails
  <2> QED BY <2>1, <2>2
<1>6. OthersOK' /\ ProbesAreConfigured'
  BY <1>4, <1>5 DEF IInv, TypeOK, OthersOK, ProbesAreConfigured, AttemptSucceeds, AttemptFails
<1> QED BY <1>4, <1>6 DEF IInv, TypeOK, TablesOK, OthersOK

\* Nothing of the old configuration survives a reload.
LEMMA FreshTables ==
    ASSUME NEW configuration \in Configurations
    PROVE  /\ [k \in EndpointsOf(configuration) |-> FreshHealth]
                 \in [EndpointsOf(configuration) -> HealthStates]
           /\ Justified(FreshHealth)
           /\ View(FreshHealth) = Verdict!Fresh
<1>1. FreshHealth \in HealthStates
  BY HealthAssumption DEF FreshHealth, HealthStates
<1>2. Justified(FreshHealth)
  BY HealthAssumption DEF FreshHealth, Justified
<1>3. View(FreshHealth) = Verdict!Fresh
  BY DEF FreshHealth, View, RunOf, Verdict!Fresh
<1> QED BY <1>1, <1>2, <1>3

LEMMA ReloadStep ==
    ASSUME IInv, Reload
    PROVE  /\ IInv'
           /\ \E keys \in SUBSET Keys : health' = [k \in keys |-> FreshHealth]
<1>1. PICK configuration \in Configurations :
        routes' = NewTable(configuration) /\ health' = RebuiltHealth(configuration)
  BY DEF Reload
<1>2. /\ routes'.endpoint = configuration
      /\ routes'.states = [s \in DOMAIN configuration |-> TRUE]
      /\ routes'.public = [s \in DOMAIN configuration |-> TRUE]
      /\ routes' = [endpoint |-> routes'.endpoint, states |-> routes'.states,
                    public |-> routes'.public]
  BY <1>1 DEF NewTable
<1>3. health' = [k \in EndpointsOf(configuration) |-> FreshHealth]
  BY <1>1 DEF RebuiltHealth
<1>4. CopiesAgree'
  <2>1. \A s \in DOMAIN configuration : configuration[s] \in EndpointsOf(configuration)
    BY DEF EndpointsOf
  <2>2. \A k \in EndpointsOf(configuration) : health'[k].healthy = TRUE
    BY <1>3 DEF FreshHealth
  <2>3. \A s \in DOMAIN configuration :
          routes'.states[s] = TRUE /\ routes'.public[s] = TRUE
    BY <1>2
  <2>4. ASSUME NEW s \in DOMAIN routes'.endpoint
        PROVE  /\ routes'.states[s] = health'[routes'.endpoint[s]].healthy
               /\ routes'.public[s] = routes'.states[s]
    BY <1>2, <2>1, <2>2, <2>3
  <2> QED BY <2>4 DEF CopiesAgree
<1>5. TablesOK'
  BY <1>2, <1>3, <1>4, FreshTables DEF TablesOK, CountersJustify
<1>6. probes' = [k \in Keys |-> NoProbe] /\ ProbesAreConfigured'
  BY DEF Reload, ProbesCleared, ProbesAreConfigured
<1>7. \A r \in Requests : Overtaken(requests[r]) \in {Idle} \cup Attempts
  <2> SUFFICES ASSUME NEW r \in Requests, requests[r] # Idle
               PROVE  Overtaken(requests[r]) \in Attempts
    BY DEF Overtaken
  <2>1. requests[r] \in Attempts /\ RetryKeys(requests[r], routes) \subseteq Keys
    BY RetryKeysType DEF IInv, TypeOK
  <2> QED BY <2>1 DEF Overtaken, Attempts
<1>8. OthersOK'
  BY <1>6, <1>7, HealthAssumption DEF OthersOK, Reload, IInv, TypeOK, Probes
<1>9. EndpointsOf(configuration) \subseteq Keys
  BY ConfigurationKeys
<1> QED BY <1>3, <1>5, <1>6, <1>8, <1>9 DEF IInv, TypeOK, TablesOK, OthersOK

\* The steps that record nothing.
LEMMA CheckDueStep ==
    ASSUME IInv, NEW k \in Keys, CheckDue(k)
    PROVE  /\ IInv'
           /\ DOMAIN health' = DOMAIN health
           /\ \A j \in DOMAIN health : View(health'[j]) = View(health[j])
<1>1. /\ health' = [health EXCEPT ![k] = [@ EXCEPT !.due = TRUE]]
      /\ UNCHANGED <<routes, probes, running, requests, servers, reloads>>
  BY DEF CheckDue
<1>2. \A j \in DOMAIN health : health[j] \in HealthStates /\ Justified(health[j])
  BY DEF IInv, TypeOK, CountersJustify
<1>3. \A j \in DOMAIN health :
        /\ health'[j] \in HealthStates /\ Justified(health'[j])
        /\ View(health'[j]) = View(health[j])
        /\ health'[j].healthy = health[j].healthy
  BY <1>1, <1>2, DueIsInvisible
<1>4. DOMAIN health' = DOMAIN health /\ health' \in [DOMAIN health -> HealthStates]
  BY <1>1, <1>3 DEF IInv, TypeOK
<1>5. CopiesAgree'
  <2>1. \A s \in DOMAIN routes.endpoint : routes.endpoint[s] \in DOMAIN health
    BY DEF IInv, TypeOK, EndpointsOf
  <2>2. ASSUME NEW s \in DOMAIN routes.endpoint
        PROVE  /\ routes.states[s] = health'[routes.endpoint[s]].healthy
               /\ routes.public[s] = routes.states[s]
    BY <1>3, <2>1 DEF IInv, CopiesAgree
  <2> QED BY <1>1, <2>2 DEF CopiesAgree
<1>6. TypeOK'
  BY <1>1, <1>4 DEF IInv, TypeOK
<1>7. (CountersJustify /\ ProbesAreConfigured)'
  BY <1>1, <1>3, <1>4 DEF IInv, CountersJustify, ProbesAreConfigured
<1> QED BY <1>3, <1>4, <1>5, <1>6, <1>7 DEF IInv

LEMMA OtherSteps ==
    ASSUME IInv,
           \/ \E k \in Keys : ProbeOverdue(k) \/ ServerChanges(k)
           \/ \E r \in Requests, s \in Slots : BeginAttempt(r, s)
           \/ \E r \in Requests : AttemptEnds(r)
           \/ RequestDrain
           \/ UNCHANGED vars
    PROVE  IInv' /\ UNCHANGED <<routes, health>>
<1>1. UNCHANGED <<routes, health>>
  BY DEF ProbeOverdue, ServerChanges, BeginAttempt, AttemptEnds, RequestDrain, vars
<1>2. TablesOK'
  BY <1>1 DEF IInv, TypeOK, TablesOK, CopiesAgree, CountersJustify
<1>3. OthersOK' /\ ProbesAreConfigured'
  <2>1. ASSUME NEW k \in Keys, ProbeOverdue(k)
        PROVE  OthersOK' /\ ProbesAreConfigured'
    <3>1. [probes[k] EXCEPT !.overdue = TRUE] \in Probes
      BY <2>1 DEF ProbeOverdue, IInv, TypeOK, Probes
    <3> QED BY <2>1, <3>1 DEF ProbeOverdue, IInv, TypeOK, OthersOK, ProbesAreConfigured
  <2>2. ASSUME NEW k \in Keys, ServerChanges(k)
        PROVE  OthersOK' /\ ProbesAreConfigured'
    BY <2>2 DEF ServerChanges, IInv, TypeOK, OthersOK, ProbesAreConfigured
  <2>3. ASSUME NEW r \in Requests, NEW s \in Slots, BeginAttempt(r, s)
        PROVE  OthersOK' /\ ProbesAreConfigured'
    <3>1. routes.endpoint[s] \in Keys
      BY <2>3, ConfigurationKeys DEF BeginAttempt, IInv, TypeOK
    <3>2. [phase |-> "Waiting", key |-> routes.endpoint[s], slot |-> s, live |-> TRUE,
           retried |-> FALSE, answerable |-> servers[routes.endpoint[s]] # Down,
           spare |-> {}] \in Attempts
      BY <3>1 DEF Attempts
    <3> QED BY <2>3, <3>2 DEF BeginAttempt, IInv, TypeOK, OthersOK, ProbesAreConfigured
  <2>4. ASSUME NEW r \in Requests, AttemptEnds(r)
        PROVE  OthersOK' /\ ProbesAreConfigured'
    BY <2>4 DEF AttemptEnds, IInv, TypeOK, OthersOK, ProbesAreConfigured
  <2>5. CASE RequestDrain \/ UNCHANGED vars
    BY <2>5 DEF RequestDrain, vars, IInv, TypeOK, OthersOK, ProbesAreConfigured
  <2> QED BY <2>1, <2>2, <2>3, <2>4, <2>5
<1> QED BY <1>1, <1>2, <1>3 DEF IInv, TypeOK, TablesOK, OthersOK

LEMMA InitInvariant == Init => IInv
<1> SUFFICES ASSUME Init PROVE IInv
  OBVIOUS
<1>1. PICK configuration \in Configurations :
        /\ routes = NewTable(configuration)
        /\ health = [k \in EndpointsOf(configuration) |-> FreshHealth]
  BY DEF Init
<1>2. /\ routes.endpoint = configuration
      /\ routes.states = [s \in DOMAIN configuration |-> TRUE]
      /\ routes.public = [s \in DOMAIN configuration |-> TRUE]
      /\ routes = [endpoint |-> routes.endpoint, states |-> routes.states,
                   public |-> routes.public]
  BY <1>1 DEF NewTable
<1>3. CopiesAgree
  <2>1. \A s \in DOMAIN configuration : configuration[s] \in EndpointsOf(configuration)
    BY DEF EndpointsOf
  <2>2. \A k \in EndpointsOf(configuration) : health[k].healthy = TRUE
    BY <1>1 DEF FreshHealth
  <2>3. \A s \in DOMAIN configuration : routes.states[s] = TRUE /\ routes.public[s] = TRUE
    BY <1>2
  <2>4. ASSUME NEW s \in DOMAIN routes.endpoint
        PROVE  /\ routes.states[s] = health[routes.endpoint[s]].healthy
               /\ routes.public[s] = routes.states[s]
    BY <1>2, <2>1, <2>2, <2>3
  <2> QED BY <2>4 DEF CopiesAgree
<1>4. TablesOK
  BY <1>1, <1>2, <1>3, FreshTables DEF TablesOK, CountersJustify
<1>5. ProbesAreConfigured
  BY DEF Init, ProbesAreConfigured
<1>6. OthersOK
  BY HealthAssumption DEF Init, OthersOK, Probes
<1> QED BY <1>4, <1>5, <1>6 DEF IInv, TypeOK, TablesOK, OthersOK

\* The inductive invariant holds in every state.
THEOREM Invariant == Spec => []IInv
<1>1. IInv /\ [Next]_vars => IInv'
  BY TickStep, AttemptStep, ReloadStep, CheckDueStep, OtherSteps DEF Next
<1> QED BY InitInvariant, <1>1, PTL DEF Spec

\* Type correctness: also after a reload the counters are exactly those of the
\* configured endpoints.
THEOREM TypeCorrect == Spec => []TypeOK
<1>1. IInv => TypeOK
  BY DEF IInv
<1> QED BY Invariant, <1>1, PTL

\* Lookups, the management API and the counters never disagree about an endpoint.
THEOREM Agreement == Spec => []CopiesAgree
<1>1. IInv => CopiesAgree
  BY DEF IInv
<1> QED BY Invariant, <1>1, PTL

\* No verdict is overdue.
THEOREM Justification == Spec => []CountersJustify
<1>1. IInv => CountersJustify
  BY DEF IInv
<1> QED BY Invariant, <1>1, PTL

\* No probe of a forgotten endpoint is left.
THEOREM NoStaleProbe == Spec => []ProbesAreConfigured
<1>1. IInv => ProbesAreConfigured
  BY DEF IInv
<1> QED BY Invariant, <1>1, PTL

--------------------------------------------------------------------------------
(* Refinement *)

\* The refinement mapping of Verdict.
Mapped == [k \in DOMAIN health |-> [healthy |-> SeenByLookup(k), run |-> RunOf(health[k])]]

\* A lookup finds an endpoint in service exactly when its counters say so: every
\* configured endpoint has a slot, and all its slots agree.
MappedIsView == Mapped = [k \in DOMAIN health |-> View(health[k])]

LEMMA MappedView == IInv => MappedIsView
<1> SUFFICES ASSUME IInv PROVE MappedIsView
  OBVIOUS
<1>1. ASSUME NEW k \in DOMAIN health
      PROVE  SeenByLookup(k) = health[k].healthy
  <2>1. PICK s \in DOMAIN routes.endpoint : routes.endpoint[s] = k
    BY DEF IInv, TypeOK, EndpointsOf
  <2>2. health[k].healthy \in BOOLEAN
    BY DEF IInv, TypeOK, HealthStates
  <2>3. \A t \in DOMAIN routes.endpoint :
          routes.endpoint[t] = k => routes.states[t] = health[k].healthy
    BY DEF IInv, CopiesAgree
  <2>4. SeenByLookup(k) <=> health[k].healthy = TRUE
    BY <2>1, <2>3 DEF SeenByLookup
  <2>5. SeenByLookup(k) \in BOOLEAN
    BY DEF SeenByLookup
  <2> QED BY <2>2, <2>4, <2>5
<1> QED BY <1>1 DEF MappedIsView, Mapped, View

\* Results are observations, a reload is a reconfiguration, and nothing else moves
\* a verdict.
LEMMA ViewStep ==
    ASSUME IInv, [Next]_vars
    PROVE  \/ /\ DOMAIN health' = DOMAIN health
              /\ \A k \in DOMAIN health :
                   View(health'[k]) \in Verdict!Outcomes(View(health[k]))
           \/ \E keys \in SUBSET Keys : health' = [k \in keys |-> FreshHealth]
<1>1. CASE Tick
  BY <1>1, TickStep
<1>2. ASSUME NEW k \in Keys, CheckDue(k)
      PROVE  /\ DOMAIN health' = DOMAIN health
             /\ \A j \in DOMAIN health : View(health'[j]) \in Verdict!Outcomes(View(health[j]))
  BY <1>2, CheckDueStep, OutcomesOf
<1>3. ASSUME NEW r \in Requests, AttemptSucceeds(r) \/ AttemptFails(r)
      PROVE  /\ DOMAIN health' = DOMAIN health
             /\ \A j \in DOMAIN health : View(health'[j]) \in Verdict!Outcomes(View(health[j]))
  BY <1>3, AttemptStep
<1>4. CASE Reload
  BY <1>4, ReloadStep
<1>5. ASSUME UNCHANGED <<routes, health>>
      PROVE  /\ DOMAIN health' = DOMAIN health
             /\ \A j \in DOMAIN health : View(health'[j]) \in Verdict!Outcomes(View(health[j]))
  BY <1>5, OutcomesOf
<1> QED BY <1>1, <1>2, <1>3, <1>4, <1>5, OtherSteps DEF Next

\* What lookups see of an endpoint changes with the threshold-th equal result in a
\* row and never otherwise: the health module implements HealthVerdict.
THEOREM Refinement == Spec => VerdictsAsPromised
<1>1. Init => Verdict!Init
  <2> SUFFICES ASSUME Init PROVE Verdict!Init
    OBVIOUS
  <2>1. PICK configuration \in Configurations :
          health = [k \in EndpointsOf(configuration) |-> FreshHealth]
    BY DEF Init
  <2>2. Mapped = [k \in DOMAIN health |-> View(health[k])]
    BY InitInvariant, MappedView DEF MappedIsView
  <2>3. Mapped = [k \in EndpointsOf(configuration) |-> Verdict!Fresh]
    BY <2>1, <2>2, FreshTables
  <2>4. EndpointsOf(configuration) \subseteq Keys
    BY ConfigurationKeys
  <2> QED BY <2>3, <2>4 DEF Verdict!Init, Verdict!Configuration, Mapped
<1>2. IInv /\ IInv' /\ [Next]_vars => [Verdict!Next]_Mapped
  <2> SUFFICES ASSUME IInv, IInv', [Next]_vars PROVE Verdict!Next
    OBVIOUS
  <2>1. Mapped = [k \in DOMAIN health |-> View(health[k])]
    BY MappedView DEF MappedIsView
  <2>2. Mapped' = [k \in DOMAIN health' |-> View(health'[k])]
    <3>1. MappedIsView'
      BY MappedView, PTL
    <3> QED BY <3>1 DEF MappedIsView
  <2>3. CASE /\ DOMAIN health' = DOMAIN health
             /\ \A k \in DOMAIN health :
                  View(health'[k]) \in Verdict!Outcomes(View(health[k]))
    BY <2>1, <2>2, <2>3 DEF Verdict!Next, Verdict!Observe, Mapped
  <2>4. ASSUME NEW keys \in SUBSET Keys, health' = [k \in keys |-> FreshHealth]
        PROVE  Verdict!Next
    <3>1. View(FreshHealth) = Verdict!Fresh
      BY DEF FreshHealth, View, RunOf, Verdict!Fresh
    <3>2. Mapped' = [k \in keys |-> Verdict!Fresh]
      BY <2>2, <2>4, <3>1
    <3> QED BY <3>2
       DEF Verdict!Next, Verdict!Reconfigure, Verdict!Configuration, Mapped
  <2> QED BY <2>3, <2>4, ViewStep
<1> QED BY Invariant, <1>1, <1>2, PTL DEF Spec, VerdictsAsPromised, Verdict!Spec, Mapped
================================================================================
