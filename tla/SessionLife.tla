------------------------------ MODULE SessionLife ------------------------------
(***************************************************************************)
(* What the service needs to know of a session, whatever happens inside:   *)
(* its life, and how each kind of call may change it.  ServiceLifecycle is *)
(* built from these operators, and ReliableSession is checked to stay      *)
(* within them (LifeAsPromised), so that the one is sound for the other.   *)
(***************************************************************************)

\* Not there; between two requests, before the first byte of the next; with a
\* request in progress; closed, and destroyed at the end of the batch.
Lives == {"None", "Idle", "Busy", "Closed"}

Open == {"Idle", "Busy"}

\* A callback of its own may take an open session anywhere; a closed one is not
\* called.
AfterEvent(life) == IF life \in Open THEN Open \cup {"Closed"} ELSE {life}

\* begin_drain: a session between two requests closes at once.
Drained(life) == IF life = "Idle" THEN "Closed" ELSE life

\* The sweep of a tick: check_timeout may close any session, and out of running
\* mode begin_drain, or force_close behind the deadline, comes before it.
AfterSweep(life, draining, due) ==
    IF life \notin Open THEN {life}
    ELSE IF ~draining THEN {life, "Closed"}
    ELSE IF due THEN {"Closed"}
    ELSE {Drained(life), "Closed"}
================================================================================
