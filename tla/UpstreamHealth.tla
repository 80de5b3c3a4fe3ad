---------------------------- MODULE UpstreamHealth -----------------------------
(***************************************************************************)
(* Health of the upstream endpoints: the part of ReliableRuntime (src/     *)
(* proxy/reliable_proxy_server.cpp) that probes them and counts results,   *)
(* and the copies of the verdict that RouteTable (src/routing/             *)
(* route_table.cpp) keeps for lookups and for the management API.          *)
(*                                                                         *)
(* Results come from two sides, the probes of the 100 ms tick and the      *)
(* requests in flight, and a reload replaces table, counters and probes    *)
(* under both.  Everything runs on one thread, so an action is a whole     *)
(* callback.                                                               *)
(***************************************************************************)
EXTENDS Naturals, FiniteSets

CONSTANTS
    Slots,             \* upstream entries of a configuration; several may name one endpoint
    Keys,              \* endpoints, "address:port"
    Requests,          \* requests that may be in flight at the same time
    Behaviours,        \* how endpoints may behave: any of Up, Slow and Down below
    FailureThreshold,  \* health_check.failure_threshold
    SuccessThreshold,  \* health_check.success_threshold
    ProbeTicks,        \* ticks behind the start of a probe that come before its deadline: as
                       \* many as health_check.timeout_ms has room for, 0 for one of 100 ms
    MaxReloads         \* bound: successful reloads

ASSUME HealthAssumption ==
    /\ FailureThreshold \in Nat \ {0}
    /\ SuccessThreshold \in Nat \ {0}
    /\ ProbeTicks \in Nat
    /\ MaxReloads \in Nat
    /\ Behaviours \subseteq {"Up", "Slow", "Down"}

Up == "Up"       \* answers every step of a probe before the next tick, in time or not
Slow == "Slow"   \* answers, or fails, at any time: all that the two others do, and more
Down == "Down"   \* never answers

VARIABLES
    routes,     \* routes_: the endpoint of every slot, and the two copies of its health
    health,     \* health_: the state of every configured key
    probes,     \* probes_: the probe of every key, at most one
    running,    \* mode_ = kRunning
    requests,   \* the attempts of the requests in flight
    servers,    \* what the endpoints are doing
    reloads     \* successful reloads so far

vars == <<routes, health, probes, running, requests, servers, reloads>>

--------------------------------------------------------------------------------
(* State *)

Phases == {"Connecting", "Sending", "Reading"}

\* HealthProbe.  Its deadline is no earlier than the tick after the next left ones.
NoProbe == [phase |-> "None", left |-> 0, overdue |-> FALSE]
Probes == {NoProbe} \cup [phase: Phases, left: 0..ProbeTicks, overdue: BOOLEAN]

\* HealthState.  due says that next_check has passed.  A counter is compared only
\* with its own threshold, so it stops there.
HealthStates == [healthy: BOOLEAN, failures: 0..FailureThreshold,
                 successes: 0..SuccessThreshold, due: BOOLEAN]

\* A live request looks up the current table, one that a reload has overtaken its
\* own old table: of that only the endpoints a retry could still choose matter.
Idle == [phase |-> "Idle"]
Attempts == [phase: {"Waiting", "Answered"}, key: Keys, slot: Slots, live: BOOLEAN,
             retried: BOOLEAN, answerable: BOOLEAN, spare: SUBSET Keys]

\* Configurations: route_table.cpp refuses an empty one.
Configurations == UNION {[slots -> Keys] : slots \in SUBSET Slots \ {{}}}

FreshHealth == [healthy |-> TRUE, failures |-> 0, successes |-> 0, due |-> FALSE]

EndpointsOf(configuration) == {configuration[s] : s \in DOMAIN configuration}

\* RouteTable's constructor: states_ takes the routes, public_routes_ copies it.
NewTable(configuration) ==
    [endpoint |-> configuration,
     states |-> [s \in DOMAIN configuration |-> TRUE],
     public |-> [s \in DOMAIN configuration |-> TRUE]]

\* Slip: rebuild_health without health_.clear(), where emplace keeps what is known.
RebuiltKeepingKnown(configuration) ==
    [k \in EndpointsOf(configuration) |->
       IF k \in DOMAIN health THEN health[k] ELSE FreshHealth]

\* rebuild_health: one fresh state per distinct endpoint, whatever was known.
RebuiltHealth(configuration) == [k \in EndpointsOf(configuration) |-> FreshHealth]

\* Slip: rebuild_health without probes_.clear().
ProbesKept == probes

ProbesCleared == [k \in Keys |-> NoProbe]

--------------------------------------------------------------------------------
(* Results *)

Min2(m, n) == IF m <= n THEN m ELSE n

\* Slip: a failure does not break a run of successes.
RecordedKeepingSuccesses(h, success) ==
    IF success
    THEN LET n == Min2(h.successes + 1, SuccessThreshold)
         IN  [h EXCEPT !.failures = 0, !.successes = n,
                       !.healthy = IF n >= SuccessThreshold THEN TRUE ELSE @]
    ELSE LET n == Min2(h.failures + 1, FailureThreshold)
         IN  [h EXCEPT !.failures = n, !.healthy = IF n >= FailureThreshold THEN FALSE ELSE @]

\* record_result on the state of the key.
Recorded(h, success) ==
    IF success
    THEN LET n == Min2(h.successes + 1, SuccessThreshold)
         IN  [h EXCEPT !.failures = 0, !.successes = n,
                       !.healthy = IF n >= SuccessThreshold THEN TRUE ELSE @]
    ELSE LET n == Min2(h.failures + 1, FailureThreshold)
         IN  [h EXCEPT !.successes = 0, !.failures = n,
                       !.healthy = IF n >= FailureThreshold THEN FALSE ELSE @]

\* Slip: only the first slot of the endpoint is updated.
FirstSlotOnly(table, before, after) ==
    LET update(copy) ==
          [s \in DOMAIN table.endpoint |->
             LET k == table.endpoint[s]
             IN  IF /\ before[k].healthy # after[k].healthy
                    /\ s = CHOOSE t \in DOMAIN table.endpoint : table.endpoint[t] = k
                 THEN after[k].healthy ELSE copy[s]]
    IN  [endpoint |-> table.endpoint, states |-> update(table.states),
         public |-> update(table.public)]

\* set_endpoint_health for the keys whose health has just changed: every slot
\* with that address and port, in both copies of the table.
SetEndpointHealth(table, before, after) ==
    LET update(copy) ==
          [s \in DOMAIN table.endpoint |->
             LET k == table.endpoint[s]
             IN  IF before[k].healthy # after[k].healthy THEN after[k].healthy ELSE copy[s]]
    IN  [endpoint |-> table.endpoint, states |-> update(table.states),
         public |-> update(table.public)]

\* record_upstream_result: a result about a key that is not configured (any more)
\* is dropped.
RecordUpstreamResult(k, success) ==
    LET after == IF k \in DOMAIN health
                 THEN [health EXCEPT ![k] = Recorded(@, success)] ELSE health
    IN  /\ health' = after
        /\ routes' = SetEndpointHealth(routes, health, after)

--------------------------------------------------------------------------------
(* Probes *)

\* What one pass of advance_probes may make of probe p of endpoint k: the phases
\* fall through, so it may stop in its own phase or in any later one, or finish.
Rank(phase) == CASE phase = "Connecting" -> 1 [] phase = "Sending" -> 2 [] phase = "Reading" -> 3

Pending(h, p, server) ==
    {<<h, [p EXCEPT !.phase = q, !.left = IF @ = 0 THEN 0 ELSE @ - 1]>> :
       q \in {r \in Phases : IF server = Up THEN Rank(r) > Rank(p.phase)
                                            ELSE Rank(r) >= Rank(p.phase)}}

Finished(h, success) == <<Recorded(h, success), NoProbe>>

\* Slip: a probe that ran out of time is removed without a verdict.
OverdueIgnored(h, p, server) ==
    IF p = NoProbe \/ p.overdue THEN {<<h, NoProbe>>}
    ELSE Pending(h, p, server)
         \cup (IF server = Down THEN {} ELSE {Finished(h, TRUE)})
         \cup (IF server = Up THEN {} ELSE {Finished(h, FALSE)})

Advance(h, p, server) ==
    IF p = NoProbe THEN {<<h, NoProbe>>}
    ELSE IF p.overdue THEN {Finished(h, FALSE)}
    ELSE Pending(h, p, server)
         \cup (IF server = Down THEN {} ELSE {Finished(h, TRUE)})
         \cup (IF server = Up THEN {} ELSE {Finished(h, FALSE)})

\* start_probe and the new next_check.  The connect may be under way, complete, or
\* refused at once.
Started(h, server) ==
    LET later == [h EXCEPT !.due = FALSE]
    IN  {<<later, [phase |-> q, left |-> ProbeTicks, overdue |-> FALSE]>> :
           q \in {"Connecting", "Sending"}}
        \cup (IF server = Up THEN {} ELSE {<<Recorded(later, FALSE), NoProbe>>})

\* Slip: endpoints that are out of service are not probed.
StartHealthyOnly(h, p, server) ==
    IF p = NoProbe /\ h.due /\ h.healthy THEN Started(h, server) ELSE {<<h, p>>}

StartIfDue(h, p, server) ==
    IF p = NoProbe /\ h.due THEN Started(h, server) ELSE {<<h, p>>}

\* The two loops of tick, for one key: results of distinct keys do not depend on
\* one another.
Ticked(h, p, server) == UNION {StartIfDue(o[1], o[2], server) : o \in Advance(h, p, server)}

--------------------------------------------------------------------------------
(* Actions *)

Init ==
    /\ \E configuration \in Configurations :
         /\ routes = NewTable(configuration)
         /\ health = [k \in EndpointsOf(configuration) |-> FreshHealth]
    /\ probes = [k \in Keys |-> NoProbe]
    /\ running = TRUE
    /\ requests = [r \in Requests |-> Idle]
    /\ servers \in [Keys -> Behaviours]
    /\ reloads = 0

\* ReliableRuntime::tick in running mode, the part behind the sessions.  It is
\* left out while there is nothing for it to do.
Tick ==
    /\ running
    /\ \E k \in DOMAIN health : health[k].due \/ probes[k] # NoProbe
    /\ \E outcome \in
            {f \in [DOMAIN health -> UNION {Ticked(health[k], probes[k], servers[k]) :
                                               k \in DOMAIN health}] :
               \A k \in DOMAIN health : f[k] \in Ticked(health[k], probes[k], servers[k])} :
         LET after == [k \in DOMAIN health |-> outcome[k][1]]
         IN  /\ health' = after
             /\ routes' = SetEndpointHealth(routes, health, after)
             /\ probes' = [k \in Keys |-> IF k \in DOMAIN health THEN outcome[k][2]
                                                                  ELSE probes[k]]
    /\ UNCHANGED <<running, requests, servers, reloads>>

\* Time passes: the next check of k is due.
CheckDue(k) ==
    /\ k \in DOMAIN health
    /\ ~health[k].due
    /\ health' = [health EXCEPT ![k].due = TRUE]
    /\ UNCHANGED <<routes, probes, running, requests, servers, reloads>>

\* Time passes: the deadline of the probe of k is reached.  The pass that finds it so
\* looks at nothing else, not at an answer that has already come either.
ProbeOverdue(k) ==
    /\ probes[k] # NoProbe
    /\ ~probes[k].overdue
    /\ probes[k].left = 0
    /\ probes' = [probes EXCEPT ![k].overdue = TRUE]
    /\ UNCHANGED <<routes, health, running, requests, servers, reloads>>

\* A request is sent to a slot the lookup found healthy.
BeginAttempt(r, s) ==
    /\ requests[r] = Idle
    /\ s \in DOMAIN routes.endpoint
    /\ routes.states[s]
    /\ requests' = [requests EXCEPT ![r] =
                      [phase |-> "Waiting", key |-> routes.endpoint[s], slot |-> s, live |-> TRUE,
                       retried |-> FALSE, answerable |-> servers[routes.endpoint[s]] # Down,
                       spare |-> {}]]
    /\ UNCHANGED <<routes, health, probes, running, servers, reloads>>

\* complete_response: the upstream has answered in full.
AttemptSucceeds(r) ==
    /\ requests[r] # Idle
    /\ requests[r].phase = "Waiting"
    /\ requests[r].answerable
    /\ RecordUpstreamResult(requests[r].key, TRUE)
    /\ requests' = [requests EXCEPT ![r].phase = "Answered"]
    /\ UNCHANGED <<probes, running, servers, reloads>>

\* What a retry may still choose: the healthy slots of the request's table except
\* the one it has tried.
RetryKeys(a, table) ==
    IF a.retried THEN {}
    ELSE IF ~a.live THEN a.spare
    ELSE {table.endpoint[s] : s \in {t \in DOMAIN table.endpoint \ {a.slot} : table.states[t]}}

\* upstream_failure, also of an attempt already answered whose client is slow: the
\* request is retried or is over.
AttemptFails(r) ==
    /\ requests[r] # Idle
    /\ RecordUpstreamResult(requests[r].key, FALSE)
    /\ \/ requests' = [requests EXCEPT ![r] = Idle]
       \/ \E k \in RetryKeys(requests[r], routes') :
            requests' = [requests EXCEPT ![r] =
                           [@ EXCEPT !.phase = "Waiting", !.key = k, !.retried = TRUE,
                                     !.answerable = servers[k] # Down, !.spare = {}]]
    /\ UNCHANGED <<probes, running, servers, reloads>>

\* The session ends without another result: its answer was delivered or its
\* client went away.
AttemptEnds(r) ==
    /\ requests[r] # Idle
    /\ requests' = [requests EXCEPT ![r] = Idle]
    /\ UNCHANGED <<routes, health, probes, running, servers, reloads>>

\* A request in flight keeps the table it was looked up in.
Overtaken(a) ==
    IF a = Idle THEN a
    ELSE [a EXCEPT !.spare = RetryKeys(a, routes), !.live = FALSE]

\* reload_configuration, once the new file was accepted; it is not bound to a mode.
Reload ==
    /\ reloads < MaxReloads
    /\ \E configuration \in Configurations :
         /\ routes' = NewTable(configuration)
         /\ health' = RebuiltHealth(configuration)
    /\ probes' = ProbesCleared
    /\ requests' = [r \in Requests |-> Overtaken(requests[r])]
    /\ reloads' = reloads + 1
    /\ UNCHANGED <<running, servers>>

\* request_drain: the tick returns before the probes from now on.
RequestDrain ==
    /\ running
    /\ running' = FALSE
    /\ UNCHANGED <<routes, health, probes, requests, servers, reloads>>

ServerChanges(k) ==
    /\ \E status \in Behaviours \ {servers[k]} :
         servers' = [servers EXCEPT ![k] = status]
    /\ UNCHANGED <<routes, health, probes, running, requests, reloads>>

Next ==
    \/ Tick
    \/ \E k \in Keys : CheckDue(k) \/ ProbeOverdue(k) \/ ServerChanges(k)
    \/ \E r \in Requests, s \in Slots : BeginAttempt(r, s)
    \/ \E r \in Requests : AttemptSucceeds(r) \/ AttemptFails(r) \/ AttemptEnds(r)
    \/ Reload
    \/ RequestDrain

\* The timer fires and time passes; requests come and go as they like.
Fairness ==
    /\ WF_vars(Tick)
    /\ \A k \in Keys : WF_vars(CheckDue(k)) /\ WF_vars(ProbeOverdue(k))

Spec == Init /\ [][Next]_vars
FairSpec == Spec /\ Fairness

--------------------------------------------------------------------------------
(* Properties *)

\* The one type invariant of the module.
TypeOK ==
    /\ routes.endpoint \in Configurations
    /\ routes = [endpoint |-> routes.endpoint, states |-> routes.states, public |-> routes.public]
    /\ routes.states \in [DOMAIN routes.endpoint -> BOOLEAN]
    /\ routes.public \in [DOMAIN routes.endpoint -> BOOLEAN]
    /\ health \in [EndpointsOf(routes.endpoint) -> HealthStates]
    /\ probes \in [Keys -> Probes]
    /\ running \in BOOLEAN
    /\ requests \in [Requests -> {Idle} \cup Attempts]
    /\ servers \in [Keys -> Behaviours]
    /\ reloads \in 0..MaxReloads

\* The three copies of a verdict agree after every callback: the health counters'
\* (HealthState.endpoint), the one lookups use (states_) and the one the
\* management API shows (public_routes_), in every slot of the endpoint, also when
\* results of requests from before a reload arrive after it.
CopiesAgree ==
    \A s \in DOMAIN routes.endpoint :
      /\ routes.states[s] = health[routes.endpoint[s]].healthy
      /\ routes.public[s] = routes.states[s]

\* No verdict is overdue and no run is mixed: an endpoint in service has fewer
\* failures in a row than failure_threshold, one out of service fewer successes
\* than success_threshold, and a result of one kind ends the run of the other.
Justified(h) ==
    /\ h.healthy => h.failures < FailureThreshold
    /\ ~h.healthy => h.successes < SuccessThreshold
    /\ h.failures = 0 \/ h.successes = 0

CountersJustify == \A k \in DOMAIN health : Justified(health[k])

\* Only configured endpoints are probed: a reload leaves no probe behind whose
\* result would be dropped.
ProbesAreConfigured == \A k \in Keys : probes[k] # NoProbe => k \in DOMAIN health

\* What lookups see is what HealthVerdict promises: the verdict on an endpoint
\* changes with the threshold-th equal result in a row and never otherwise.
RunOf(h) ==
    IF h.failures > 0 THEN [ok |-> FALSE, length |-> h.failures]
    ELSE [ok |-> TRUE, length |-> h.successes]

SeenByLookup(k) == \E s \in DOMAIN routes.endpoint : routes.endpoint[s] = k /\ routes.states[s]

Verdict == INSTANCE HealthVerdict WITH
    endpoints <- [k \in DOMAIN health |->
                    [healthy |-> SeenByLookup(k), run |-> RunOf(health[k])]]

VerdictsAsPromised == Verdict!Spec

\* An endpoint that is down for good goes out of service for good, if the service
\* keeps running.
DownIsRemoved ==
    \A k \in Keys :
      <>[](running /\ k \in DOMAIN health /\ servers[k] = Down) =>
        <>[](k \in DOMAIN health => ~SeenByLookup(k))

\* An endpoint that is up for good comes back into service, if the service keeps
\* running and its probes are given the time: one tick each to connect, to send and
\* to read the answer.  The loader takes any timeout_ms above 0; with one that is
\* over by the third tick a prompt endpoint may fail every probe and stay out.
PromptTicks == 3

UpIsRestored ==
    ProbeTicks >= PromptTicks =>
      \A k \in Keys :
        <>[](running /\ k \in DOMAIN health /\ servers[k] = Up) =>
          []<>(k \in DOMAIN health => SeenByLookup(k))
================================================================================
