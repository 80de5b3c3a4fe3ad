-------------------------------- MODULE Exchange --------------------------------
(***************************************************************************)
(* What either proxy promises the client of a connection, whatever the       *)
(* upstream does: requests are answered one at a time; an answer, once a     *)
(* byte of it is sent, is the only one of its exchange; an answer made by     *)
(* EdgeGate is the last on its connection; a closed connection stays closed.  *)
(* A step is one callback, which may do several of these things at once.     *)
(***************************************************************************)

VARIABLES
    phase,     \* "Asking", "Serving", "Answering" (a byte was sent), "Closed"
    answer     \* whose answer it is: "none", "upstream", "edge"

vars == <<phase, answer>>

Init == phase = "Asking" /\ answer = "none"

\* A request is accepted, and perhaps refused at once with a part of an answer
\* of EdgeGate's own.
Accept ==
    /\ phase = "Asking"
    /\ phase' = "Serving"
    /\ UNCHANGED answer

Begin(source) ==
    /\ phase = "Serving" \/ (phase = "Asking" /\ source = "edge")
    /\ phase' = "Answering"
    /\ answer' = source

\* The exchange is over and the connection waits for another request.
Reuse ==
    /\ phase = "Serving" \/ (phase = "Answering" /\ answer = "upstream")
    /\ phase' = "Asking"
    /\ answer' = "none"

Close ==
    /\ phase # "Closed"
    /\ phase' = "Closed"
    /\ answer' = "none"

Next ==
    \/ Accept
    \/ \E source \in {"upstream", "edge"} : Begin(source)
    \/ Reuse
    \/ Close

Spec == Init /\ [][Next]_vars
================================================================================
