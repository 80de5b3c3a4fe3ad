--------------------------- MODULE ControlledService ---------------------------
(***************************************************************************)
(* ServiceLifecycle together with one connection that controls it: what a    *)
(* drain, a stop or a status query goes through between the accept and the   *)
(* last byte of its answer, in the same batches of the loop as the service's *)
(* own events.  Every step is a step of ServiceLifecycle or one of its       *)
(* stutters (ControlledService_proofs).                                      *)
(***************************************************************************)
EXTENDS ServiceLifecycle, ControlConnection

CONSTANT MaxBatch       \* bound: descriptors that one epoll_wait returns

VARIABLES
    console,    \* the connection (bound: one at a time)
    granted     \* the time the first stop was granted for its answer has not passed

controlled == <<vars, console, granted>>

NoConnection == Removed(NewConnection("management", CHOOSE size \in RequestSizes : TRUE))

ControlTypeOK ==
    /\ console \in Connections
    /\ granted \in BOOLEAN

ControlledInit ==
    /\ Init
    /\ console = NoConnection
    /\ granted = FALSE

\* Bytes the client may have sent and the connection has not read.
Waiting == 0..(console.size - console.received)

--------------------------------------------------------------------------------
(* The client *)

\* A close between the console's callback and the end of the batch is one after
\* that end: nobody looks in between.
PeerCloses(peer) ==
    /\ console.open /\ ~ended
    /\ ~dispatching \/ "console" \in batch
    /\ console.peer = "Open" \/ (console.peer = "HalfClosed" /\ peer = "Gone")
    /\ console' = [console EXCEPT !.peer = peer]
    /\ UNCHANGED <<vars, granted>>

--------------------------------------------------------------------------------
(* The callbacks *)

\* A connection is in a batch only while it is registered and ready.
ConsoleReady == console.open /\ \E n \in Waiting : Reported(console, n) # {}

ControlledWait ==
    /\ Wait
    /\ "console" \in batch' => ConsoleReady
    /\ Cardinality(batch') <= MaxBatch
    /\ UNCHANGED <<console, granted>>

\* ManagementListener::on_event, DashboardListener::on_event
ConsoleAccept ==
    /\ ControlEvent("management")
    /\ ~console.open
    /\ \E kind \in Kinds, size \in RequestSizes : console' = NewConnection(kind, size)
    /\ granted' = FALSE

NothingAccepted == ControlEvent("management") /\ UNCHANGED <<console, granted>>

\* The connection's event, and within it the handler: a command of the dashboard
\* never changes the service.  A stop is granted its time by request_drain.
Handled(c) ==
    \/ ~(c.runs /\ c.kind = "management") /\ ControlEvent("console") /\ UNCHANGED granted
    \/ /\ c.runs /\ c.kind = "management"
       /\ \/ ControlEvent("console") /\ UNCHANGED granted
          \/ CommandFrom("console", FALSE) /\ UNCHANGED granted
          \/ CommandFrom("console", TRUE) /\ granted' = ~stopAfterDrain

\* Nothing but its own callback removes the connection, so that it is still there.
ConsoleEvent ==
    \E n \in Waiting : \E events \in Reported(console, n) :
    \E c \in OnEvent(console, events, n) :
        /\ Handled(c)
        /\ console' = IF c.open THEN [c EXCEPT !.runs = FALSE] ELSE NoConnection

Others ==
    /\ \/ Accept \/ ListenerBreaks \/ Tick \/ CommandFrom("signals", TRUE)
       \/ \E s \in Slots : SessionEvent(s)
    /\ UNCHANGED <<console, granted>>

ControlledCallback ==
    \/ ConsoleAccept \/ NothingAccepted
    \/ ConsoleEvent
    \/ Others

ControlledGraceEnds == GraceEnds /\ granted' = FALSE /\ UNCHANGED console

Quietly == (EndBatch \/ DrainExpires) /\ UNCHANGED <<console, granted>>

ControlledNext ==
    \/ ControlledWait \/ ControlledCallback \/ Quietly \/ ControlledGraceEnds
    \/ \E peer \in {"HalfClosed", "Gone"} : PeerCloses(peer)

\* As in ServiceLifecycle; and a connection that stays ready is reported again
\* and again, too.
ControlledFairness ==
    /\ WF_controlled(ControlledCallback)
    /\ WF_controlled(Quietly)
    /\ WF_controlled(ControlledGraceEnds)
    /\ WF_controlled(DrainExpires /\ UNCHANGED <<console, granted>>)
    /\ SF_controlled(ControlledWait /\ "timer" \in batch')
    /\ SF_controlled(ControlledWait /\ "console" \in batch')

ControlledSpec == ControlledInit /\ [][ControlledNext]_controlled
ControlledFairSpec == ControlledSpec /\ ControlledFairness

--------------------------------------------------------------------------------
(* Properties *)

\* run() does not return, and take the connection with it, while the answer to the
\* stop is on its way to a client that is there and has had less than the 250 ms
\* to take it: however short the drain, and with the tick in the very batch of the
\* command.
StopIsAnswered ==
    ended /\ ~broken => ~(console.open /\ granted /\ console.peer # "Gone")

\* There is no timeout on these connections: one whose client will send no more
\* is released by what epoll reports, unless an answer still waits for a client
\* that has only finished sending.
PeerReleased ==
    /\ console.open /\ console.peer = "Gone" ~> ~console.open \/ ended
    /\ console.open /\ console.peer = "HalfClosed" ~>
         ~console.open \/ Answering(console) \/ ended
================================================================================
