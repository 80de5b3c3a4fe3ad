----------------------- MODULE ControlledService_proofs ------------------------
(***************************************************************************)
(* The safety properties of ServiceLifecycle, for any number of sessions;  *)
(* that ControlledService implements it, so that what is proved of the     *)
(* service holds with its connection, too; and that a stop is answered.    *)
(*                                                                         *)
(* Invariance of StopIsClean needs to know what holds between the tick     *)
(* that decides to end the loop and the end of its batch: the loop is told *)
(* to stop only when no session is alive, and as the listener left with    *)
(* the running mode none can appear.  That is IInv.                        *)
(***************************************************************************)
EXTENDS ControlledService, TLAPS

Empty == \A s \in Slots : sessions[s] = "None"

\* The inductive invariant.
IInv ==
    /\ TypeOK
    /\ mode = "Drained" => Empty
    /\ stop /\ ~broken => stopAfterDrain /\ Empty
    /\ ended => stop

--------------------------------------------------------------------------------
(* Single operations *)

\* The life of a session is one of Lives after any call.
LEMMA LivesClosed ==
    ASSUME NEW life \in Lives, NEW draining \in BOOLEAN, NEW due \in BOOLEAN
    PROVE  /\ Drained(life) \in Lives
           /\ AfterEvent(life) \subseteq Lives
           /\ AfterSweep(life, draining, due) \subseteq Lives
  BY DEF Lives, Open, Drained, AfterEvent, AfterSweep

\* A session that is not there is not created by any of the three kinds of calls.
LEMMA NoneStays ==
    ASSUME NEW draining \in BOOLEAN, NEW due \in BOOLEAN
    PROVE  /\ Drained("None") = "None"
           /\ AfterEvent("None") = {"None"}
           /\ AfterSweep("None", draining, due) = {"None"}
  BY DEF Open, Drained, AfterEvent, AfterSweep

LEMMA EmptyIsInactive == Empty <=> Active(sessions) = {}
  BY DEF Empty, Active

--------------------------------------------------------------------------------
(* Type correctness *)

LEMMA TypeInit == Init => TypeOK
  BY DEF Init, TypeOK, Modes, Lives, Fixed

LEMMA CommandTypes ==
    ASSUME TypeOK, Command
    PROVE  TypeOK'
<1>1. PICK stopNow \in BOOLEAN : RequestDrain(stopNow)
  BY DEF Command, CommandFrom
<1>2. /\ mode' \in Modes
      /\ listening' \in BOOLEAN /\ stopAfterDrain' \in BOOLEAN
      /\ drainDue' \in BOOLEAN /\ graceOver' \in BOOLEAN
  BY <1>1 DEF RequestDrain, ModeAfterCommand, ListenerAfterCommand, DeadlineAfterCommand,
              GraceAfterCommand, TypeOK, Modes
<1>3. /\ listening' <=> mode' = "Running"
      /\ stopAfterDrain' <=> mode' = "Stopping"
  BY <1>1 DEF RequestDrain, ModeAfterCommand, ListenerAfterCommand, TypeOK, Modes
<1>4. sessions' \in [Slots -> Lives]
  BY <1>1, LivesClosed DEF RequestDrain, TypeOK
<1>5. /\ batch' \subseteq Fixed \cup Slots
      /\ dispatching' \in BOOLEAN /\ stop' \in BOOLEAN /\ ended' \in BOOLEAN /\ broken' \in BOOLEAN
  BY DEF Command, CommandFrom, Dispatched, TypeOK
<1> QED
  BY <1>2, <1>3, <1>4, <1>5 DEF TypeOK

LEMMA TickTypes ==
    ASSUME TypeOK, Tick
    PROVE  TypeOK'
<1>1. PICK f \in [Slots -> Lives] :
        LET empty == mode # "Running" /\ StillActive(f) = {}
        IN  /\ sessions' = f
            /\ stop' = (stop \/ (empty /\ stopAfterDrain /\ graceOver))
            /\ mode' = IF empty /\ ~stopAfterDrain THEN "Drained" ELSE mode
  BY DEF Tick
<1>2. /\ mode' \in Modes /\ sessions' \in [Slots -> Lives] /\ stop' \in BOOLEAN
      /\ mode' = mode \/ (mode # "Running" /\ ~stopAfterDrain /\ mode' = "Drained")
  BY <1>1 DEF TypeOK, Modes
<1>3. batch' \subseteq Fixed \cup Slots
  BY DEF Tick, Dispatched, TypeOK
<1> QED
  BY <1>2, <1>3 DEF Tick, Dispatched, TypeOK

LEMMA TypeNext ==
    ASSUME TypeOK, [Next]_vars
    PROVE  TypeOK'
<1>1. CASE Wait
  <2>1. batch' \subseteq Fixed \cup Slots
    BY <1>1 DEF Wait, OpenSessions, Fixed
  <2> QED
    BY <1>1, <2>1 DEF Wait, service, TypeOK
<1>2. CASE Accept
  <2>1. sessions' \in [Slots -> Lives]
    BY <1>2 DEF Accept, TypeOK, Lives
  <2> QED
    BY <1>2, <2>1 DEF Accept, Dispatched, service, TypeOK
<1>3. CASE ListenerBreaks
  BY <1>3 DEF ListenerBreaks, Dispatched, service, TypeOK
<1>4. CASE Command
  BY <1>4, CommandTypes
<1>5. CASE Tick
  BY <1>5, TickTypes
<1>6. ASSUME NEW s \in Slots, SessionEvent(s)
      PROVE  TypeOK'
  <2>1. PICK life \in AfterEvent(sessions[s]) : sessions' = [sessions EXCEPT ![s] = life]
    BY <1>6 DEF SessionEvent
  <2>2. life \in Lives
    BY <2>1, LivesClosed DEF TypeOK
  <2>3. sessions' \in [Slots -> Lives]
    BY <2>1, <2>2 DEF TypeOK
  <2> QED
    BY <1>6, <2>3 DEF SessionEvent, Dispatched, service, TypeOK
<1>7. CASE EndBatch
  <2>1. sessions' \in [Slots -> Lives]
    BY <1>7 DEF EndBatch, TypeOK, Lives
  <2> QED
    BY <1>7, <2>1 DEF EndBatch, service, TypeOK
<1>8. CASE DrainExpires
  BY <1>8 DEF DrainExpires, TypeOK
<1>9. CASE GraceEnds
  BY <1>9 DEF GraceEnds, TypeOK
<1>10. CASE \E x \in {"management", "console"} : ControlEvent(x)
  BY <1>10 DEF ControlEvent, Dispatched, service, TypeOK
<1>11. CASE UNCHANGED vars
  BY <1>11 DEF vars, service, TypeOK
<1> QED
  BY <1>1, <1>2, <1>3, <1>4, <1>5, <1>6, <1>7, <1>8, <1>9, <1>10, <1>11 DEF Next, Callback

--------------------------------------------------------------------------------
(* The invariant *)

LEMMA InitInvariant == Init => IInv
  BY TypeInit DEF Init, IInv, Empty

\* Out of running mode the listener is gone, and what is empty stays empty.
LEMMA EmptyStays ==
    ASSUME TypeOK, mode # "Running", Empty, [Next]_vars
    PROVE  Empty'
<1>0. \A s \in Slots : sessions[s] = "None"
  BY DEF Empty
<1>1. ~listening
  BY DEF TypeOK
<1>2. CASE Accept
  BY <1>0, <1>1, <1>2 DEF Accept, Empty
<1>3. CASE Command
  <2>1. PICK stopNow \in BOOLEAN : RequestDrain(stopNow)
    BY <1>3 DEF Command, CommandFrom
  <2> QED
    BY <1>0, <2>1, NoneStays DEF RequestDrain, Empty
<1>4. CASE Tick
  <2>1. PICK f \in [Slots -> Lives] :
           /\ \A s \in Slots : f[s] \in Swept(sessions[s])
           /\ sessions' = f
    BY <1>4 DEF Tick
  <2>2. \A s \in Slots : Swept(sessions[s]) = {"None"}
    BY <1>0, NoneStays DEF Swept, TypeOK
  <2> QED
    BY <2>1, <2>2 DEF Empty
<1>5. ASSUME NEW s \in Slots, SessionEvent(s)
      PROVE  Empty'
  <2>1. PICK life \in AfterEvent(sessions[s]) : sessions' = [sessions EXCEPT ![s] = life]
    BY <1>5 DEF SessionEvent
  <2>2. life = "None"
    BY <1>0, <2>1, NoneStays
  <2> QED
    BY <1>0, <2>1, <2>2 DEF Empty, TypeOK
<1>6. CASE EndBatch
  BY <1>0, <1>6 DEF EndBatch, Empty
<1>7. CASE Wait \/ ListenerBreaks \/ DrainExpires \/ GraceEnds \/ UNCHANGED vars
  BY <1>0, <1>7 DEF Wait, ListenerBreaks, DrainExpires, GraceEnds, vars, Empty
<1>8. ASSUME NEW x \in {"management", "console"}, ControlEvent(x)
      PROVE  Empty'
  BY <1>0, <1>8 DEF ControlEvent, Empty
<1> QED
  BY <1>2, <1>3, <1>4, <1>5, <1>6, <1>7, <1>8 DEF Next, Callback

\* The modes only advance; a stop, once asked for, is not taken back.
LEMMA ForwardStep ==
    ASSUME TypeOK, [Next]_vars
    PROVE  /\ mode = "Stopping" => mode' = "Stopping"
           /\ mode = "Drained" => mode' \in {"Drained", "Stopping"}
           /\ mode = "Draining" => mode' # "Running"
           /\ mode # "Running" => mode' # "Running"
           /\ stopAfterDrain => stopAfterDrain'
<1>1. CASE Command
  <2>1. PICK stopNow \in BOOLEAN : RequestDrain(stopNow)
    BY <1>1 DEF Command, CommandFrom
  <2>2. /\ stopAfterDrain' = (stopAfterDrain \/ stopNow)
        /\ mode' = ModeAfterCommand(stopAfterDrain \/ stopNow)
    BY <2>1 DEF RequestDrain
  <2> QED
    BY <2>2 DEF ModeAfterCommand, TypeOK, Modes
<1>2. CASE Tick
  <2>1. mode' = mode \/ (mode # "Running" /\ ~stopAfterDrain /\ mode' = "Drained")
    BY <1>2 DEF Tick
  <2>2. stopAfterDrain' = stopAfterDrain
    BY <1>2 DEF Tick
  <2> QED
    BY <2>1, <2>2 DEF TypeOK
<1>3. CASE UNCHANGED <<mode, stopAfterDrain>>
  BY <1>3
<1>4. \/ Command \/ Tick \/ UNCHANGED <<mode, stopAfterDrain>>
  BY DEF Next, Callback, Wait, Accept, ListenerBreaks, SessionEvent, EndBatch, DrainExpires,
         GraceEnds, CommandFrom, ControlEvent, service, vars
<1> QED
  BY <1>1, <1>2, <1>3, <1>4

\* The drained mode is entered by a tick that found no session.
LEMMA DrainedStep ==
    ASSUME IInv, [Next]_vars
    PROVE  mode' = "Drained" => Empty'
<1>1. TypeOK /\ TypeOK'
  BY TypeNext DEF IInv
<1> SUFFICES ASSUME mode' = "Drained"
             PROVE  Empty'
  OBVIOUS
<1>2. CASE mode = "Drained"
  BY <1>1, <1>2, EmptyStays DEF IInv
<1>3. CASE mode # "Drained"
  <2>1. CASE Tick
    <3>1. PICK f \in [Slots -> Lives] :
            LET empty == mode # "Running" /\ StillActive(f) = {}
            IN  /\ sessions' = f
                /\ mode' = IF empty /\ ~stopAfterDrain THEN "Drained" ELSE mode
      BY <2>1 DEF Tick
    <3>2. StillActive(f) = {}
      BY <1>3, <3>1
    <3> QED
      BY <3>1, <3>2 DEF StillActive, Active, Empty
  <2>2. CASE Command
    <3>1. PICK stopNow \in BOOLEAN : RequestDrain(stopNow)
      BY <2>2 DEF Command, CommandFrom
    <3> QED
      BY <1>3, <3>1 DEF RequestDrain, ModeAfterCommand
  <2>3. \/ Command \/ Tick \/ UNCHANGED mode
    BY DEF Next, Callback, Wait, Accept, ListenerBreaks, SessionEvent, EndBatch, DrainExpires,
           GraceEnds, CommandFrom, ControlEvent, service, vars
  <2> QED
    BY <1>3, <2>1, <2>2, <2>3
<1> QED
  BY <1>2, <1>3

\* The loop is told to end by a tick that found no session, or by a broken socket.
LEMMA StopStep ==
    ASSUME IInv, [Next]_vars
    PROVE  stop' /\ ~broken' => stopAfterDrain' /\ Empty'
<1>1. TypeOK
  BY DEF IInv
<1> SUFFICES ASSUME stop', ~broken'
             PROVE  stopAfterDrain' /\ Empty'
  OBVIOUS
<1>2. broken' = broken \/ broken'
  BY DEF Next, Callback, Wait, Accept, ListenerBreaks, SessionEvent, EndBatch, Command, Tick,
         DrainExpires, GraceEnds, CommandFrom, ControlEvent, vars
<1>3. ~broken
  BY <1>2
<1>4. CASE stop
  <2>1. stopAfterDrain /\ Empty
    BY <1>3, <1>4 DEF IInv
  <2>2. mode # "Running"
    BY <1>1, <2>1 DEF TypeOK
  <2> QED
    BY <1>1, <2>1, <2>2, EmptyStays, ForwardStep
<1>5. CASE ~stop
  <2>1. CASE Tick
    <3>1. PICK f \in [Slots -> Lives] :
            LET empty == mode # "Running" /\ StillActive(f) = {}
            IN  /\ sessions' = f
                /\ stop' = (stop \/ (empty /\ stopAfterDrain /\ graceOver))
      BY <2>1 DEF Tick
    <3>2. StillActive(f) = {} /\ stopAfterDrain
      BY <1>5, <3>1
    <3>3. stopAfterDrain' = stopAfterDrain
      BY <2>1 DEF Tick
    <3> QED
      BY <3>1, <3>2, <3>3 DEF StillActive, Active, Empty
  <2>2. Tick
    BY <1>5 DEF Next, Callback, Wait, Accept, ListenerBreaks, SessionEvent, EndBatch, Command,
                DrainExpires, GraceEnds, CommandFrom, ControlEvent, vars
  <2> QED
    BY <2>1, <2>2
<1> QED
  BY <1>4, <1>5

LEMMA NextInvariant == IInv /\ [Next]_vars => IInv'
<1> SUFFICES ASSUME IInv, [Next]_vars
             PROVE  IInv'
  OBVIOUS
<1>1. TypeOK'
  BY TypeNext DEF IInv
<1>2. ended' => stop'
  <2>1. ended => stop
    BY DEF IInv
  <2>2. stop => stop'
    BY DEF Next, Callback, Wait, Accept, ListenerBreaks, SessionEvent, EndBatch, Command, Tick,
           DrainExpires, GraceEnds, CommandFrom, ControlEvent, vars
  <2>3. ended' = ended \/ ended' = stop
    BY DEF Next, Callback, Wait, Accept, ListenerBreaks, SessionEvent, EndBatch, Command, Tick,
           DrainExpires, GraceEnds, CommandFrom, ControlEvent, vars
  <2> QED
    BY <2>1, <2>2, <2>3
<1> QED
  BY <1>1, <1>2, DrainedStep, StopStep DEF IInv

\* The inductive invariant holds in every state.
THEOREM Invariant == Spec => []IInv
  BY InitInvariant, NextInvariant, PTL DEF Spec

--------------------------------------------------------------------------------
(* The properties of the runs *)

\* Type correctness, with the listener and the stop flag tied to the mode
\* (request_drain and the constructor of ReliableListener).
THEOREM TypeCorrect == Spec => []TypeOK
<1>1. IInv => TypeOK
  BY DEF IInv
<1> QED
  BY <1>1, Invariant, PTL

\* run() returns on a stop alone, with every session gone (tick, run_once).
THEOREM CleanStop == Spec => []StopIsClean
<1>1. IInv => StopIsClean
  BY EmptyIsInactive DEF IInv, StopIsClean
<1> QED
  BY <1>1, Invariant, PTL

\* The drained mode is shown with no session alive (tick, status).
THEOREM DrainedEmpty == Spec => []DrainedIsEmpty
<1>1. IInv => DrainedIsEmpty
  BY EmptyIsInactive DEF IInv, DrainedIsEmpty
<1> QED
  BY <1>1, Invariant, PTL

\* After the command that begins a drain no session is created, whatever events
\* its batch still holds (request_drain, run_once's check of the handler).
THEOREM NothingAfter == Spec => NothingAfterDrain
<1>1. ASSUME IInv, [Next]_vars
      PROVE  [mode # "Running" =>
                \A s \in Slots : sessions[s] = "None" => sessions'[s] = "None"]_vars
  <2> SUFFICES ASSUME Next, mode # "Running", NEW s \in Slots, sessions[s] = "None"
               PROVE  sessions'[s] = "None"
    BY <1>1
  <2>1. TypeOK /\ ~listening
    BY <1>1 DEF IInv, TypeOK
  <2>2. CASE Accept
    BY <2>1, <2>2 DEF Accept
  <2>3. CASE Command
    <3>1. PICK stopNow \in BOOLEAN : RequestDrain(stopNow)
      BY <2>3 DEF Command, CommandFrom
    <3> QED
      BY <3>1, NoneStays DEF RequestDrain
  <2>4. CASE Tick
    <3>1. PICK f \in [Slots -> Lives] :
             (\A i \in Slots : f[i] \in Swept(sessions[i])) /\ sessions' = f
      BY <2>4 DEF Tick
    <3>2. Swept(sessions[s]) = {"None"}
      BY <2>1, NoneStays DEF Swept, TypeOK
    <3> QED
      BY <3>1, <3>2
  <2>5. ASSUME NEW i \in Slots, SessionEvent(i)
        PROVE  sessions'[s] = "None"
    <3>1. PICK life \in AfterEvent(sessions[i]) : sessions' = [sessions EXCEPT ![i] = life]
      BY <2>5 DEF SessionEvent
    <3>2. CASE i = s
      BY <2>1, <3>1, <3>2, NoneStays DEF TypeOK
    <3>3. CASE i # s
      BY <2>1, <3>1, <3>3 DEF TypeOK
    <3> QED
      BY <3>2, <3>3
  <2>6. CASE EndBatch
    BY <2>6 DEF EndBatch
  <2>7. CASE \/ Wait \/ ListenerBreaks \/ DrainExpires \/ GraceEnds
             \/ \E x \in {"management", "console"} : ControlEvent(x)
    BY <2>7 DEF Wait, ListenerBreaks, DrainExpires, GraceEnds, ControlEvent
  <2> QED
    BY <2>2, <2>3, <2>4, <2>5, <2>6, <2>7 DEF Next, Callback
<1>2. Spec => [][Next]_vars
  BY DEF Spec
<1> QED
  BY <1>1, <1>2, Invariant, PTL DEF NothingAfterDrain

\* Commands in any order and number never take the service back (request_drain,
\* tick).
THEOREM Forward == Spec => ModesAdvance
<1>1. ASSUME IInv, [Next]_vars
      PROVE  [/\ mode = "Stopping" => mode' = "Stopping"
              /\ mode = "Drained" => mode' \in {"Drained", "Stopping"}
              /\ mode = "Draining" => mode' # "Running"]_vars
  BY <1>1, ForwardStep DEF IInv
<1>2. Spec => [][Next]_vars
  BY DEF Spec
<1> QED
  BY <1>1, <1>2, Invariant, PTL DEF ModesAdvance

--------------------------------------------------------------------------------
(* Refinement *)

\* A callback of the composition is one of the service, whatever the connection does.
LEMMA CallbackImplements ==
    ASSUME ControlledCallback
    PROVE  Callback
<1>1. CASE ConsoleAccept \/ NothingAccepted
  BY <1>1 DEF ConsoleAccept, NothingAccepted, Callback
<1>2. CASE ConsoleEvent
  <2>1. PICK n \in Waiting : \E events \in Reported(console, n) :
               \E c \in OnEvent(console, events, n) : Handled(c)
    BY <1>2 DEF ConsoleEvent
  <2>2. PICK c : Handled(c)
    BY <2>1
  <2>3. \/ ControlEvent("console")
        \/ \E stopNow \in BOOLEAN : CommandFrom("console", stopNow)
    BY <2>2 DEF Handled
  <2> QED
    BY <2>3 DEF Callback, Command
<1>3. CASE Others
  BY <1>3 DEF Others, Callback, Command
<1> QED
  BY <1>1, <1>2, <1>3 DEF ControlledCallback

LEMMA StepImplements ==
    ASSUME [ControlledNext]_controlled
    PROVE  [Next]_vars
<1>1. CASE ControlledWait
  BY <1>1 DEF ControlledWait, Next
<1>2. CASE ControlledCallback
  BY <1>2, CallbackImplements DEF Next
<1>3. CASE Quietly
  BY <1>3 DEF Quietly, Next
<1>4. CASE ControlledGraceEnds
  BY <1>4 DEF ControlledGraceEnds, Next
<1>5. ASSUME NEW peer \in {"HalfClosed", "Gone"}, PeerCloses(peer)
      PROVE  UNCHANGED vars
  BY <1>5 DEF PeerCloses
<1>6. CASE UNCHANGED controlled
  BY <1>6 DEF controlled
<1> QED
  BY <1>1, <1>2, <1>3, <1>4, <1>5, <1>6 DEF ControlledNext

\* With its connection in detail the service still does only what ServiceLifecycle
\* allows it (management_server.cpp, dashboard_server.cpp).
THEOREM Refinement == ControlledSpec => Spec
<1>1. ControlledInit => Init
  BY DEF ControlledInit
<1> QED
  BY <1>1, StepImplements, PTL DEF ControlledSpec, Spec

--------------------------------------------------------------------------------
(* The answer to a stop *)

\* While the time of the answer runs, shutdown_not_before_ is in the future; and
\* the loop is told to stop only behind it.
Grace ==
    /\ granted => stopAfterDrain /\ ~graceOver
    /\ stop /\ ~broken => stopAfterDrain /\ graceOver
    /\ ended => stop

LEMMA GraceInit == ControlledInit => Grace
  BY DEF ControlledInit, Init, Grace

\* A command leaves the flag of the loop alone, and a later stop the time as well.
LEMMA GraceAfterCommands ==
    ASSUME Grace, NEW x, NEW stopNow \in BOOLEAN, CommandFrom(x, stopNow),
           granted' => granted \/ (stopNow /\ ~stopAfterDrain)
    PROVE  Grace'
<1>1. /\ stopAfterDrain' <=> stopAfterDrain \/ stopNow
      /\ graceOver' <=> graceOver /\ ~(stopNow /\ ~stopAfterDrain)
      /\ (stop' <=> stop) /\ (broken' <=> broken) /\ (ended' <=> ended)
  BY DEF CommandFrom, RequestDrain, GraceAfterCommand
<1>2. CASE stopAfterDrain
  BY <1>1, <1>2 DEF Grace
<1>3. CASE ~stopAfterDrain
  <2>1. ~granted /\ ~(stop /\ ~broken)
    BY <1>3 DEF Grace
  <2>2. granted' => stopNow
    BY <2>1 DEF Grace
  <2> QED
    BY <1>1, <1>3, <2>1, <2>2 DEF Grace
<1> QED
  BY <1>2, <1>3

LEMMA GraceKept ==
    ASSUME Grace, stopAfterDrain' <=> stopAfterDrain, graceOver' <=> graceOver,
           granted' => granted,
           stop' /\ ~broken' => stop /\ ~broken,
           stop => stop', ended' => ended \/ stop'
    PROVE  Grace'
  BY DEF Grace

LEMMA GraceCallback ==
    ASSUME Grace, ControlledCallback
    PROVE  Grace'
<1>1. CASE ConsoleAccept \/ NothingAccepted
  BY <1>1, GraceKept DEF ConsoleAccept, NothingAccepted, ControlEvent, service
<1>2. CASE ConsoleEvent
  <2>1. PICK n \in Waiting : \E events \in Reported(console, n) :
               \E c \in OnEvent(console, events, n) : Handled(c)
    BY <1>2 DEF ConsoleEvent
  <2>2. PICK c : Handled(c)
    BY <2>1
  <2>3. CASE ControlEvent("console") /\ UNCHANGED granted
    BY <2>3, GraceKept DEF ControlEvent, service
  <2>4. CASE CommandFrom("console", FALSE) /\ UNCHANGED granted
    BY <2>4, GraceAfterCommands
  <2>5. CASE CommandFrom("console", TRUE) /\ granted' = ~stopAfterDrain
    BY <2>5, GraceAfterCommands
  <2> QED
    BY <2>2, <2>3, <2>4, <2>5 DEF Handled
<1>3. CASE Others
  <2>1. UNCHANGED granted
    BY <1>3 DEF Others
  <2>2. CASE Accept \/ ListenerBreaks \/ \E s \in Slots : SessionEvent(s)
    BY <2>1, <2>2, GraceKept DEF Accept, ListenerBreaks, SessionEvent, service
  <2>3. CASE Tick
    BY <2>1, <2>3 DEF Tick, Grace
  <2>4. CASE CommandFrom("signals", TRUE)
    BY <2>1, <2>4, GraceAfterCommands
  <2> QED
    BY <1>3, <2>2, <2>3, <2>4 DEF Others
<1> QED
  BY <1>1, <1>2, <1>3 DEF ControlledCallback

LEMMA GraceNext == Grace /\ [ControlledNext]_controlled => Grace'
<1> SUFFICES ASSUME Grace, [ControlledNext]_controlled
             PROVE  Grace'
  OBVIOUS
<1>1. CASE ControlledWait
  BY <1>1, GraceKept DEF ControlledWait, Wait, service
<1>2. CASE ControlledCallback
  BY <1>2, GraceCallback
<1>3. CASE Quietly
  BY <1>3, GraceKept DEF Quietly, EndBatch, DrainExpires, service
<1>4. CASE ControlledGraceEnds
  BY <1>4 DEF ControlledGraceEnds, GraceEnds, Grace
<1>5. ASSUME NEW peer \in {"HalfClosed", "Gone"}, PeerCloses(peer)
      PROVE  Grace'
  BY <1>5, GraceKept DEF PeerCloses, vars
<1>6. CASE UNCHANGED controlled
  BY <1>6, GraceKept DEF controlled, vars
<1> QED
  BY <1>1, <1>2, <1>3, <1>4, <1>5, <1>6 DEF ControlledNext

\* run() leaves the client of a stop the time it was granted for the answer
\* (request_drain, tick), for any number of sessions and lengths of anything.
THEOREM Answered == ControlledSpec => []StopIsAnswered
<1>1. Grace => StopIsAnswered
  BY DEF Grace, StopIsAnswered
<1> QED
  BY <1>1, GraceInit, GraceNext, PTL DEF ControlledSpec
================================================================================
