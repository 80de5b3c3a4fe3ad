----------------------------- MODULE HealthVerdict -----------------------------
(***************************************************************************)
(* What upstream health promises, without counters, probes or routing      *)
(* tables: results about the configured endpoints arrive in some order,    *)
(* and an endpoint is out of service from the FailureThreshold-th failure  *)
(* in a row until the SuccessThreshold-th success in a row.  A new         *)
(* configuration forgets everything.                                       *)
(***************************************************************************)
EXTENDS Naturals

CONSTANTS
    Keys,              \* endpoints, "address:port"
    FailureThreshold,  \* health_check.failure_threshold, positive
    SuccessThreshold   \* health_check.success_threshold, positive

VARIABLE endpoints   \* the configured keys, each with its verdict and its last results

\* How often in a row the last result was seen, as far as its threshold can tell.
Threshold(ok) == IF ok THEN SuccessThreshold ELSE FailureThreshold

Fresh == [healthy |-> TRUE, run |-> [ok |-> TRUE, length |-> 0]]

Extended(run, ok) ==
    [ok |-> ok,
     length |-> IF run.ok # ok THEN 1
                ELSE IF run.length < Threshold(ok) THEN run.length + 1
                ELSE run.length]

\* One more result decides when it completes a run as long as its threshold.
Judged(e, ok) ==
    LET run == Extended(e.run, ok)
    IN  [healthy |-> IF run.length = Threshold(ok) THEN ok ELSE e.healthy, run |-> run]

\* No result, one, or two: a tick may finish one probe of an endpoint and fail to
\* start the next.
Outcomes(e) ==
    {e} \cup {Judged(e, ok) : ok \in BOOLEAN}
        \cup {Judged(Judged(e, first), second) : first, second \in BOOLEAN}

Configuration(keys) == [k \in keys |-> Fresh]

Init == \E keys \in SUBSET Keys : endpoints = Configuration(keys)

Observe ==
    /\ DOMAIN endpoints' = DOMAIN endpoints
    /\ endpoints' = [k \in DOMAIN endpoints |-> endpoints'[k]]
    /\ \A k \in DOMAIN endpoints : endpoints'[k] \in Outcomes(endpoints[k])

Reconfigure == \E keys \in SUBSET Keys : endpoints' = Configuration(keys)

Next == Observe \/ Reconfigure

Spec == Init /\ [][Next]_endpoints
================================================================================
