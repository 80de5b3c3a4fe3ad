------------------------------ MODULE RouteLookup ------------------------------
(***************************************************************************)
(* One RouteTable object (src/routing/route_table.cpp) and the requests    *)
(* that look it up: the choice of a route, the round-robin cursor that all *)
(* requests, retries and skips of a route share, and the health marks that *)
(* change between two lookups.                                             *)
(*                                                                         *)
(* A host is the sequence of its labels, from left to right: two wildcard  *)
(* suffixes of one host are ordered by their labels as by their lengths.   *)
(* A request target is the sequence of its characters, of which only the   *)
(* slash and the question mark mean anything.                              *)
(***************************************************************************)
EXTENDS Naturals, FiniteSets, SequencesExt

CONSTANTS
    Tables,     \* the configured route lists from which a table is constructed
    Headers,    \* Host header values: records [labels, port]
    Targets,    \* request targets
    Requests    \* requests in progress at one time

\* Route lists and the pools in them are vectors, a host is made of labels and a
\* prefix of characters.
ASSUME TableAssumption ==
    \A t \in Tables :
        /\ Len(t) \in Nat /\ DOMAIN t = 1..Len(t)
        /\ \A i \in DOMAIN t : /\ Len(t[i].upstreams) \in Nat
                             /\ DOMAIN t[i].upstreams = 1..Len(t[i].upstreams)
                             /\ t[i].wildcard \in BOOLEAN
                             /\ t[i].host \in Seq(ToSet(t[i].host))
                             /\ t[i].prefix \in Seq(ToSet(t[i].prefix))

ASSUME HeaderAssumption == \A h \in Headers : h.labels \in Seq(ToSet(h.labels))

VARIABLES
    table,      \* states_: the accepted route list
    healthy,    \* UpstreamEndpoint::healthy: the healthy slots of each route
    cursor,     \* round_robin_cursor of each route
    requests,   \* request_host_, request_target_ and attempted_upstream_ids_
    waited,     \* history: lookups that passed a slot over which they could have taken
    turnedAway  \* history: a lookup found no upstream although there was one

vars == <<table, healthy, cursor, requests, waited, turnedAway>>

\* The pool of route i; slots are counted from 0, as the cursor is.
Size(i) == Len(table[i].upstreams)
Slots(i) == 0..(Size(i) - 1)
Upstream(i, k) == table[i].upstreams[k + 1]

NoRequest == [header |-> <<>>, target |-> <<>>, attempted |-> <<>>]

--------------------------------------------------------------------------------
(* The constructor *)

\* What the constructor insists on; it throws on any other list.
Accepted(routes) ==
    /\ IsInjective([i \in DOMAIN routes |-> routes[i].id])
    /\ IsInjective([i \in DOMAIN routes |->
                      <<routes[i].wildcard, routes[i].host, routes[i].prefix>>])
    /\ \A i \in DOMAIN routes :
         /\ routes[i].host # <<>>
         /\ routes[i].prefix # <<>> /\ Head(routes[i].prefix) = "/"
         /\ Len(routes[i].upstreams) > 0
         /\ IsInjective([k \in DOMAIN routes[i].upstreams |-> routes[i].upstreams[k].id])

--------------------------------------------------------------------------------
(* The choice of a route *)

\* normalize_host: the port is dropped if it is one, else the header is refused.
NormalizeHost(header) == IF header.port = "malformed" THEN <<>> ELSE header.labels

\* target_path: up to the query, of a target in origin form only.
TargetPath(target) ==
    IF target = <<>> \/ Head(target) # "/" THEN <<>>
    ELSE CHOOSE path \in {SubSeq(target, 1, n) : n \in DOMAIN target} :
           /\ \A n \in DOMAIN path : path[n] # "?"
           /\ path = target \/ target[Len(path) + 1] = "?"

\* host_matches: a wildcard stands for one label or more.
HostMatches(route, host) ==
    IF route.wildcard THEN IsStrictSuffix(route.host, host) ELSE route.host = host

Matches(route, host, path) == HostMatches(route, host) /\ IsPrefix(route.prefix, path)

\* Slip: the longer path counts before the longer host.
BetterByPath(a, b) ==
    \/ b.wildcard /\ ~a.wildcard
    \/ b.wildcard = a.wildcard /\ Len(a.prefix) > Len(b.prefix)
    \/ b.wildcard = a.wildcard /\ Len(a.prefix) = Len(b.prefix) /\ Len(a.host) > Len(b.host)

\* The comparison of lookup: candidate a replaces the best so far, b.
Better(a, b) ==
    \/ b.wildcard /\ ~a.wildcard
    \/ b.wildcard = a.wildcard /\ Len(a.host) > Len(b.host)
    \/ /\ b.wildcard = a.wildcard
       /\ Len(a.host) = Len(b.host)
       /\ Len(a.prefix) > Len(b.prefix)

\* The scan of lookup, in the order of the configuration; 0 is nullptr.
Best(host, path) ==
    LET Scan(best, i) ==
          IF /\ Matches(table[i], host, path)
             /\ best = 0 \/ Better(table[i], table[best])
          THEN i ELSE best
    IN  IF host = <<>> \/ path = <<>> THEN 0
        ELSE FoldLeft(Scan, 0, [i \in 1..Len(table) |-> i])

--------------------------------------------------------------------------------
(* The choice of an upstream *)

Eligible(i, k, excluded) == k \in healthy[i] /\ Upstream(i, k).id \notin excluded

\* Slip: the loop ends one short of the count.
FirstEligibleShort(i, excluded) ==
    LET at(offset) == (cursor[i] + offset) % Size(i)
    IN  {offset \in Slots(i) \ {Size(i) - 1} :
           /\ Eligible(i, at(offset), excluded)
           /\ \A earlier \in Slots(i) : earlier < offset => ~Eligible(i, at(earlier), excluded)}

\* The offsets at which the loop of lookup stops.
FirstEligible(i, excluded) ==
    LET at(offset) == (cursor[i] + offset) % Size(i)
    IN  {offset \in Slots(i) :
           /\ Eligible(i, at(offset), excluded)
           /\ \A earlier \in Slots(i) : earlier < offset => ~Eligible(i, at(earlier), excluded)}

\* Slip: the cursor is left at the upstream that was taken.
NextCursorStays(i, k) == k

\* Behind the upstream that was taken.
NextCursor(i, k) == (k + 1) % Size(i)

\* A lookup answers with slot k of route i.
Take(i, k, excluded) ==
    /\ cursor' = [cursor EXCEPT ![i] = NextCursor(i, k)]
    /\ waited' = [waited EXCEPT ![i] =
         [s \in Slots(i) |-> IF s # k /\ Eligible(i, s, excluded) THEN waited[i][s] + 1 ELSE 0]]
    /\ UNCHANGED <<table, healthy, turnedAway>>

\* lookup: request r, which has attempted the upstreams in "attempted", gets an
\* upstream or an error, which ends it.
Matched(r, header, target, attempted) ==
    \E i \in DOMAIN table :
        /\ i = Best(NormalizeHost(header), TargetPath(target))
        /\ \E offset \in FirstEligible(i, ToSet(attempted)) :
             LET k == (cursor[i] + offset) % Size(i)
             IN  /\ Take(i, k, ToSet(attempted))
                 /\ requests' = [requests EXCEPT ![r] =
                      [header |-> header, target |-> target,
                       attempted |-> Append(attempted, Upstream(i, k).id)]]

NoHealthyUpstream(r, header, target, attempted) ==
    \E i \in DOMAIN table :
        /\ i = Best(NormalizeHost(header), TargetPath(target))
        /\ FirstEligible(i, ToSet(attempted)) = {}
        /\ turnedAway' = (turnedAway \/ \E k \in healthy[i] :
                                         Upstream(i, k).id \notin ToSet(attempted))
        /\ requests' = [requests EXCEPT ![r] = NoRequest]
        /\ UNCHANGED <<table, healthy, cursor, waited>>

NoRoute(r, header, target) ==
    /\ Best(NormalizeHost(header), TargetPath(target)) = 0
    /\ requests' = [requests EXCEPT ![r] = NoRequest]
    /\ UNCHANGED <<table, healthy, cursor, waited, turnedAway>>

Lookup(r, header, target, attempted) ==
    \/ Matched(r, header, target, attempted)
    \/ NoHealthyUpstream(r, header, target, attempted)
    \/ NoRoute(r, header, target)

--------------------------------------------------------------------------------
(* The callers *)

\* finish_request_head.
FirstLookup(r) ==
    /\ requests[r] = NoRequest
    /\ \E header \in Headers, target \in Targets : Lookup(r, header, target, <<>>)

\* retry_upstream, which refuses a third attempt; its other conditions are about
\* the request and the response, and part of ReliableSession.
RetryLookup(r) ==
    /\ Len(requests[r].attempted) = 1
    /\ Lookup(r, requests[r].header, requests[r].target, requests[r].attempted)

\* reset_for_keep_alive, or the end of the session.
Finish(r) ==
    /\ requests[r] # NoRequest
    /\ requests' = [requests EXCEPT ![r] = NoRequest]
    /\ UNCHANGED <<table, healthy, cursor, waited, turnedAway>>

\* A slot that became unhealthy waits for nothing.
Forget(i) == [s \in Slots(i) |-> IF s \in healthy'[i] THEN waited[i][s] ELSE 0]

\* set_endpoint_health: an address is marked in every route that names it.
SetEndpointHealth(address, up) ==
    /\ healthy' = [i \in DOMAIN table |->
                     LET named == {k \in Slots(i) : Upstream(i, k).address = address}
                     IN  IF up THEN healthy[i] \cup named ELSE healthy[i] \ named]
    /\ waited' = [i \in DOMAIN table |-> Forget(i)]
    /\ UNCHANGED <<table, cursor, requests, turnedAway>>

\* set_upstream_health: one upstream of one route.
SetUpstreamHealth(i, k, up) ==
    /\ healthy' = [healthy EXCEPT ![i] = IF up THEN @ \cup {k} ELSE @ \ {k}]
    /\ waited' = [j \in DOMAIN table |-> Forget(j)]
    /\ UNCHANGED <<table, cursor, requests, turnedAway>>

Init ==
    /\ table \in {t \in Tables : Accepted(t)}
    /\ healthy = [i \in DOMAIN table |-> Slots(i)]
    /\ cursor = [i \in DOMAIN table |-> 0]
    /\ requests = [r \in Requests |-> NoRequest]
    /\ waited = [i \in DOMAIN table |-> [s \in Slots(i) |-> 0]]
    /\ turnedAway = FALSE

Next ==
    \/ \E r \in Requests : FirstLookup(r) \/ RetryLookup(r) \/ Finish(r)
    \/ \E i \in DOMAIN table : \E k \in Slots(i), up \in BOOLEAN :
         \/ SetEndpointHealth(Upstream(i, k).address, up)
         \/ SetUpstreamHealth(i, k, up)

Spec == Init /\ [][Next]_vars

--------------------------------------------------------------------------------
(* Properties *)

\* The cursor of a route is a position in its pool.
TypeOK ==
    /\ table \in Tables /\ Accepted(table)
    /\ DOMAIN healthy = DOMAIN table
    /\ \A i \in DOMAIN table : healthy[i] \subseteq Slots(i)
    /\ cursor \in [DOMAIN table -> Nat]
    /\ \A i \in DOMAIN table : cursor[i] \in Slots(i)
    /\ turnedAway \in BOOLEAN

\* The rule the header comment of RouteTable states, over sets: of the routes
\* whose host pattern covers the host and whose prefix the path has, an exact host
\* before a wildcard, then the longer suffix, then the longer prefix.
Covers(route, host) ==
    IF route.wildcard
    THEN \E n \in 2..Len(host) : route.host = SubSeq(host, n, Len(host))
    ELSE route.host = host

MostSpecific(host, path) ==
    LET matching == {i \in DOMAIN table : /\ Covers(table[i], host)
                                          /\ IsPrefix(table[i].prefix, path)}
        exact == {i \in matching : ~table[i].wildcard}
        hosts == IF exact # {} THEN exact
                 ELSE {i \in matching : \A j \in matching : Len(table[j].host) <= Len(table[i].host)}
    IN  {i \in hosts : \A j \in hosts : Len(table[j].prefix) <= Len(table[i].prefix)}

\* Whatever the order of the routes, lookup finds the most specific one, and none
\* only if none matches: no configured route is hidden by one in front of it.
FindsMostSpecific ==
    \A header \in Headers, target \in Targets :
        LET host == NormalizeHost(header)
            path == TargetPath(target)
            best == Best(host, path)
        IN  host # <<>> /\ path # <<>> => {best} \ {0} = MostSpecific(host, path)

\* No request is sent to one upstream twice, although retries of other requests
\* and changes of health have moved the cursor since its first attempt.
TriedOnce == \A r \in Requests : IsInjective(requests[r].attempted)

\* The cursor is shared by all requests, retries exclude upstreams and health
\* changes: still a healthy upstream is passed over less often in a row, by
\* lookups that could have taken it, than its pool has members.
NobodyStarves ==
    \A i \in DOMAIN table : \A k \in Slots(i) : waited[i][k] < Size(i)

\* No lookup ends in 503 while the route has a healthy upstream left to try,
\* wherever the cursor stands.
AvailableIsFound == ~turnedAway
================================================================================
