---------------------------- MODULE ServiceLifecycle ---------------------------
(***************************************************************************)
(* The life of the service: ReliableRuntime's mode, its listener, its      *)
(* sessions and the loop that serves them (src/proxy/                      *)
(* reliable_proxy_server.cpp), from the first connection to the return of  *)
(* run().  Commands come from edgegatectl and from SIGTERM and SIGINT, in  *)
(* any order and any number, in the same batches of the loop in which      *)
(* connections arrive, sessions end and the timer fires.                   *)
(*                                                                         *)
(* A session is only its life here (SessionLife); what makes it move is    *)
(* ReliableSession.  A management connection is only the commands it       *)
(* brings; ControlledService adds how they get there.                      *)
(***************************************************************************)
EXTENDS FiniteSets, SessionLife

CONSTANT Slots      \* bound: sessions that may be alive at the same time

\* The timer, the proxy's listener, the signal descriptor, the management and the
\* dashboard listener, and the connections of these two (bound: one event of each
\* in a batch).
Fixed == {"timer", "listener", "signals", "management", "console"}

\* The descriptors of sessions are none of these.
ASSUME SlotAssumption == Slots \cap Fixed = {}

VARIABLES
    mode,             \* mode_
    listening,        \* listener_fd_ has a value: the listener is registered
    stopAfterDrain,   \* stop_after_drain_
    drainDue,         \* drain_deadline_ has passed
    graceOver,        \* shutdown_not_before_ has passed, as it has before it is set
    sessions,         \* the life of every session
    batch,            \* handlers with an event of this run_once not yet dispatched
    dispatching,      \* a batch is being dispatched
    stop,             \* stop_requested_
    ended,            \* run() has returned
    broken            \* a listening socket has failed

vars == <<mode, listening, stopAfterDrain, drainDue, graceOver, sessions, batch,
          dispatching, stop, ended, broken>>
service == <<mode, listening, stopAfterDrain, drainDue, graceOver>>

--------------------------------------------------------------------------------

Modes == {"Running", "Draining", "Drained", "Stopping"}

OpenSessions == {s \in Slots : sessions[s] \in Open}

\* stats_->active_sessions: a session counts until it is destroyed.
Active(lives) == {s \in Slots : lives[s] # "None"}

Init ==
    /\ mode = "Running"
    /\ listening = TRUE
    /\ stopAfterDrain = FALSE
    /\ drainDue = FALSE
    /\ graceOver = TRUE
    /\ sessions = [s \in Slots |-> "None"]
    /\ batch = {}
    /\ dispatching = FALSE
    /\ stop = FALSE
    /\ ended = FALSE
    /\ broken = FALSE

--------------------------------------------------------------------------------
(* Draining *)

\* Slip: every command sets the deadline anew.
DeadlineAnew == FALSE

\* drain_deadline_ is set once, by the command that leaves running mode.
DeadlineAfterCommand == IF mode = "Running" THEN FALSE ELSE drainDue

ModeAfterCommand(stopping) ==
    IF stopping THEN "Stopping" ELSE IF mode = "Running" THEN "Draining" ELSE mode

\* Slip: the listener is left to the end of the drain.
ListenerKept == listening

\* The listener is removed by the command that leaves running mode.
ListenerAfterCommand == IF mode = "Running" THEN FALSE ELSE listening

\* Slip: the first stop does not set shutdown_not_before_.
GraceUntouched(stopNow) == graceOver

\* The first stop leaves its client a time to take the answer.
GraceAfterCommand(stopNow) == graceOver /\ ~(stopNow /\ ~stopAfterDrain)

\* request_drain; stopNow for a stop command or a signal.
RequestDrain(stopNow) ==
    LET stopping == stopAfterDrain \/ stopNow
    IN  /\ stopAfterDrain' = stopping
        /\ graceOver' = GraceAfterCommand(stopNow)
        /\ listening' = ListenerAfterCommand
        /\ drainDue' = DeadlineAfterCommand
        /\ mode' = ModeAfterCommand(stopping)
        /\ sessions' = [s \in Slots |-> Drained(sessions[s])]

\* Slip: the sweep never gets to force_close.
SweepWithoutDeadline(life) == AfterSweep(life, mode # "Running", FALSE)

\* What the sweep of a tick may leave of a session.
Swept(life) == AfterSweep(life, mode # "Running", drainDue)

--------------------------------------------------------------------------------
(* The callbacks of a batch *)

Dispatched(x) ==
    /\ dispatching
    /\ x \in batch
    /\ batch' = batch \ {x}

\* epoll_wait returns some of the handlers that are ready.
Wait ==
    /\ ~ended /\ ~dispatching
    /\ dispatching' = TRUE
    /\ batch' \in SUBSET ((Fixed \ {"listener"}) \cup OpenSessions
                            \cup (IF listening THEN {"listener"} ELSE {})) \ {{}}
    /\ UNCHANGED <<service, sessions, stop, ended, broken>>

\* ReliableListener::on_event: it accepts what waits in its queue.  An event of
\* the listener that a command removed earlier in the batch is dropped.
Accept ==
    /\ Dispatched("listener")
    /\ \E accepted \in SUBSET (IF listening THEN {s \in Slots : sessions[s] = "None"} ELSE {}) :
         sessions' = [s \in Slots |-> IF s \in accepted THEN "Idle" ELSE sessions[s]]
    /\ UNCHANGED <<service, dispatching, stop, ended, broken>>

\* EPOLLERR or EPOLLHUP on the proxy's or the management listener ends the loop.
ListenerBreaks ==
    /\ \/ Dispatched("listener") /\ listening
       \/ Dispatched("management")
    /\ stop' = TRUE
    /\ broken' = TRUE
    /\ UNCHANGED <<service, sessions, dispatching, ended>>

SessionEvent(s) ==
    /\ Dispatched(s)
    /\ \E life \in AfterEvent(sessions[s]) : sessions' = [sessions EXCEPT ![s] = life]
    /\ UNCHANGED <<service, dispatching, stop, ended, broken>>

\* A drain or stop command of handle_management_command, or SIGTERM or SIGINT.
CommandFrom(x, stopNow) ==
    /\ Dispatched(x)
    /\ RequestDrain(stopNow)
    /\ UNCHANGED <<dispatching, stop, ended, broken>>

Command ==
    \/ \E stopNow \in BOOLEAN : CommandFrom("console", stopNow)
    \/ CommandFrom("signals", TRUE)

\* What else the listeners and the connections do leaves the service as it is.
ControlEvent(x) ==
    /\ Dispatched(x)
    /\ UNCHANGED <<service, sessions, dispatching, stop, ended, broken>>

\* What tick counts after the sweep.
StillActive(lives) == Active(lives)

\* ReliableRuntime::tick
Tick ==
    /\ Dispatched("timer")
    /\ \E swept \in {f \in [Slots -> Lives] : \A s \in Slots : f[s] \in Swept(sessions[s])} :
         LET empty == mode # "Running" /\ StillActive(swept) = {}
         IN  /\ sessions' = swept
             /\ stop' = (stop \/ (empty /\ stopAfterDrain /\ graceOver))
             /\ mode' = IF empty /\ ~stopAfterDrain THEN "Drained" ELSE mode
    /\ UNCHANGED <<listening, stopAfterDrain, drainDue, graceOver, dispatching, ended, broken>>

\* The end of run_once, which destroys what was removed, and the test of run().
EndBatch ==
    /\ dispatching
    /\ batch = {}
    /\ dispatching' = FALSE
    /\ sessions' = [s \in Slots |-> IF sessions[s] = "Closed" THEN "None" ELSE sessions[s]]
    /\ ended' = stop
    /\ UNCHANGED <<service, batch, stop, broken>>

\* Time passes.
DrainExpires ==
    /\ mode # "Running" /\ ~drainDue
    /\ drainDue' = TRUE
    /\ UNCHANGED <<mode, listening, stopAfterDrain, graceOver, sessions, batch, dispatching,
                   stop, ended, broken>>

GraceEnds ==
    /\ stopAfterDrain /\ ~graceOver
    /\ graceOver' = TRUE
    /\ UNCHANGED <<mode, listening, stopAfterDrain, drainDue, sessions, batch, dispatching,
                   stop, ended, broken>>

Callback ==
    \/ Accept \/ ListenerBreaks \/ Command \/ Tick
    \/ \E s \in Slots : SessionEvent(s)
    \/ \E x \in {"management", "console"} : ControlEvent(x)

Next == Wait \/ Callback \/ EndBatch \/ DrainExpires \/ GraceEnds

\* The loop's own code runs on and no callback blocks; time passes; and the timer
\* descriptor stays ready until it is read, so that epoll_wait, which rotates
\* through the ready descriptors, reports it again and again.
Fairness ==
    /\ WF_vars(Callback) /\ WF_vars(EndBatch)
    /\ WF_vars(DrainExpires) /\ WF_vars(GraceEnds)
    /\ SF_vars(Wait /\ "timer" \in batch')

Spec == Init /\ [][Next]_vars
FairSpec == Spec /\ Fairness

--------------------------------------------------------------------------------
(* Properties *)

\* The one type invariant of the module.  It ties the mode to the two variables
\* request_drain and the constructor set together with it.
TypeOK ==
    /\ mode \in Modes
    /\ listening \in BOOLEAN /\ stopAfterDrain \in BOOLEAN
    /\ drainDue \in BOOLEAN /\ graceOver \in BOOLEAN
    /\ sessions \in [Slots -> Lives]
    /\ batch \subseteq Fixed \cup Slots
    /\ dispatching \in BOOLEAN /\ stop \in BOOLEAN /\ ended \in BOOLEAN /\ broken \in BOOLEAN
    /\ listening <=> mode = "Running"
    /\ stopAfterDrain <=> mode = "Stopping"

\* Unless a listening socket failed, the loop ends only on a stop that was asked
\* for, and no session is cut off by its end: not even one that was accepted, or
\* began a request, in the very batch in which the loop decided to end.
StopIsClean == ended /\ ~broken => stopAfterDrain /\ Active(sessions) = {}

\* A status query never shows the service as drained while it counts sessions.
DrainedIsEmpty == mode = "Drained" => Active(sessions) = {}

\* Once a drain has begun no session is created, in the batch of the command
\* either, where the listener's event may have been reported before it.
NothingAfterDrain ==
    [][mode # "Running" =>
         \A s \in Slots : sessions[s] = "None" => sessions'[s] = "None"]_vars

\* Whatever commands come in whatever order, the service never goes back: not
\* from stopping to draining, and not from drained to draining.
ModesAdvance ==
    [][/\ mode = "Stopping" => mode' = "Stopping"
       /\ mode = "Drained" => mode' \in {"Drained", "Stopping"}
       /\ mode = "Draining" => mode' # "Running"]_vars

\* A stop ends run(), however many more commands come and whatever the clients do.
StopReturns == stopAfterDrain ~> ended

\* A drain is over in the end: drained, unless a stop came or the loop ended.
DrainCompletes == mode = "Draining" ~> mode # "Draining" \/ ended
================================================================================
