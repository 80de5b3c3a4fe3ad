------------------------------- MODULE EventLoop -------------------------------
(***************************************************************************)
(* The reactor of src/net/event_loop.cpp: one epoll instance, the map from *)
(* descriptors to the handlers that own them, and the batch of events that *)
(* run_once dispatches.  A callback may add, modify and remove handlers,   *)
(* its own included, open and close other descriptors, and stop the loop,  *)
(* in any order: those calls are the actions of the callback in progress.  *)
(*                                                                         *)
(* What is at stake is identity: the kernel reports a descriptor number,   *)
(* and between that report and the dispatch a callback may have destroyed  *)
(* the handler it was meant for and been given the same number again.      *)
(***************************************************************************)
EXTENDS Naturals, Sequences, FiniteSets

CONSTANTS
    Fds,          \* descriptor numbers
    Handlers,     \* handler objects
    NoHandler,    \* a number without an entry in handlers_
    Masks,        \* interest masks
    Unwatched,    \* the kernel does not watch the descriptor
    MaxBatch      \* kMaximumEventsPerWait

ASSUME LoopAssumption ==
    /\ NoHandler \notin Handlers
    /\ Unwatched \notin Masks
    /\ MaxBatch \in Nat \ {0}

VARIABLES
    handlers,     \* handlers_: the handler registered for each number
    pending,      \* pending_removals_
    interest,     \* the kernel's interest list
    open,         \* the descriptors the process has open
    batch,        \* events of this run_once not yet looked at: number and addressee
    dispatching,  \* dispatching_
    current,      \* the handler whose on_event is running
    stop,         \* stop_requested_
    phase         \* before run(), in its loop, after it

vars == <<handlers, pending, interest, open, batch, dispatching, current, stop, phase>>

--------------------------------------------------------------------------------

Registered == {fd \in Fds : handlers[fd] # NoHandler}
Watched == {fd \in Fds : interest[fd] # Unwatched}

\* Descriptors no handler owns: just accepted or connected, or of another part of
\* the program, such as a health probe.
Loose == open \ Registered

Events == [fd: Fds, owner: Handlers]

\* What epoll_wait may return: some of the watched descriptors, each once.
Reports ==
    {report \in UNION {[1..n -> Watched] : n \in 1..MaxBatch} :
       \A i, j \in DOMAIN report : report[i] = report[j] => i = j}

\* The calls below come from a callback, or from main() before run().
Calling == current # NoHandler \/ phase = "Setup"

\* A new handler is a new object: not one that is alive.  (An addressee of the
\* batch may be dead, and an equal address must not be taken for it.)
Unused(h) ==
    /\ \A fd \in Fds : handlers[fd] # h
    /\ \A i \in DOMAIN batch : batch[i].owner # h

Init ==
    /\ handlers = [fd \in Fds |-> NoHandler]
    /\ pending = {}
    /\ interest = [fd \in Fds |-> Unwatched]
    /\ open = {}
    /\ batch = <<>>
    /\ dispatching = FALSE
    /\ current = NoHandler
    /\ stop = FALSE
    /\ phase = "Setup"

--------------------------------------------------------------------------------
(* Calls *)

\* socket, accept4 and the like return a number that is free.
OpenDescriptor(fd) ==
    /\ Calling
    /\ fd \notin open
    /\ open' = open \cup {fd}
    /\ UNCHANGED <<handlers, pending, interest, batch, dispatching, current, stop, phase>>

\* A descriptor is closed that no handler owns; also the end of an add() that
\* throws, where the handler dies with its descriptor.
CloseDescriptor(fd) ==
    /\ Calling
    /\ fd \in Loose
    /\ open' = open \ {fd}
    /\ UNCHANGED <<handlers, pending, interest, batch, dispatching, current, stop, phase>>

\* add: the kernel accepts the descriptor and the map takes the handler.
Add(fd, h, mask) ==
    /\ Calling
    /\ fd \in open
    /\ handlers[fd] = NoHandler
    /\ Unused(h)
    /\ interest' = [interest EXCEPT ![fd] = mask]
    /\ handlers' = [handlers EXCEPT ![fd] = h]
    /\ UNCHANGED <<pending, open, batch, dispatching, current, stop, phase>>

\* modify refuses a descriptor that is not registered or waits for its removal.
Modify(fd, mask) ==
    /\ Calling
    /\ fd \in Registered \ pending
    /\ interest' = [interest EXCEPT ![fd] = mask]
    /\ UNCHANGED <<handlers, pending, open, batch, dispatching, current, stop, phase>>

\* Slip: the handler is destroyed, and its descriptor closed, in the middle of the
\* batch.
ErasedAtOnce(fd) ==
    /\ handlers' = [handlers EXCEPT ![fd] = NoHandler]
    /\ open' = open \ {fd}
    /\ UNCHANGED pending

\* The second half of remove: while events are being dispatched the handler stays
\* alive and its descriptor open.
Erased(fd) ==
    IF dispatching
    THEN pending' = pending \cup {fd} /\ UNCHANGED <<handlers, open>>
    ELSE /\ handlers' = [handlers EXCEPT ![fd] = NoHandler]
         /\ open' = open \ {fd}
         /\ UNCHANGED pending

\* Slip: the kernel is left to find out when the descriptor is closed.
StillWatched(fd) == interest

\* EPOLL_CTL_DEL
WatchDeleted(fd) == [interest EXCEPT ![fd] = Unwatched]

Remove(fd) ==
    /\ Calling
    /\ fd \in Registered
    /\ interest' = WatchDeleted(fd)
    /\ Erased(fd)
    /\ UNCHANGED <<batch, dispatching, current, stop, phase>>

Stop ==
    /\ Calling
    /\ stop' = TRUE
    /\ UNCHANGED <<handlers, pending, interest, open, batch, dispatching, current, phase>>

--------------------------------------------------------------------------------
(* The loop *)

\* run() forgets a stop that was requested before it.
Run ==
    /\ phase = "Setup"
    /\ phase' = "Running"
    /\ stop' = FALSE
    /\ UNCHANGED <<handlers, pending, interest, open, batch, dispatching, current>>

\* epoll_wait returns; an event belongs to the handler registered at that moment.
Wait ==
    /\ phase = "Running"
    /\ ~dispatching
    /\ \E report \in Reports :
         batch' = [i \in DOMAIN report |-> [fd |-> report[i], owner |-> handlers[report[i]]]]
    /\ dispatching' = TRUE
    /\ UNCHANGED <<handlers, pending, interest, open, current, stop, phase>>

\* epoll_wait fails, not with EINTR: the exception ends run().
WaitFails ==
    /\ phase = "Running"
    /\ ~dispatching
    /\ phase' = "Stopped"
    /\ UNCHANGED <<handlers, pending, interest, open, batch, dispatching, current, stop>>

\* Events of a handler that was removed earlier in the batch are dropped.
Skips(fd) == handlers[fd] = NoHandler \/ fd \in pending

\* The next event of the batch: on_event of the handler the map has for it.
Dispatch ==
    /\ dispatching
    /\ current = NoHandler
    /\ batch # <<>>
    /\ batch' = Tail(batch)
    /\ current' = IF Skips(Head(batch).fd) THEN NoHandler ELSE handlers[Head(batch).fd]
    /\ UNCHANGED <<handlers, pending, interest, open, dispatching, stop, phase>>

\* on_event returns.
Return ==
    /\ current # NoHandler
    /\ current' = NoHandler
    /\ UNCHANGED <<handlers, pending, interest, open, batch, dispatching, stop, phase>>

\* Slip: removed handlers are kept.
NothingFinished == UNCHANGED <<handlers, open, pending>>

\* finish_pending_removals: the destructors close the descriptors.
FinishPendingRemovals ==
    /\ handlers' = [fd \in Fds |-> IF fd \in pending THEN NoHandler ELSE handlers[fd]]
    /\ open' = open \ pending
    /\ pending' = {}

\* Slip: the flag is not looked at.
RunsForEver == phase

\* The test of run()'s loop.
LoopTest == IF stop THEN "Stopped" ELSE phase

EndBatch ==
    /\ dispatching
    /\ current = NoHandler
    /\ batch = <<>>
    /\ dispatching' = FALSE
    /\ FinishPendingRemovals
    /\ phase' = LoopTest
    /\ UNCHANGED <<interest, batch, current, stop>>

Next ==
    \/ \E fd \in Fds : OpenDescriptor(fd) \/ CloseDescriptor(fd) \/ Remove(fd)
    \/ \E fd \in Fds, mask \in Masks : Modify(fd, mask)
    \/ \E fd \in Fds, h \in Handlers, mask \in Masks : Add(fd, h, mask)
    \/ Stop \/ Run \/ Wait \/ WaitFails \/ Dispatch \/ Return \/ EndBatch

\* The loop's own code runs on, and every on_event returns: no handler blocks.
Fairness == WF_vars(Dispatch) /\ WF_vars(Return) /\ WF_vars(EndBatch)

Spec == Init /\ [][Next]_vars
FairSpec == Spec /\ Fairness

--------------------------------------------------------------------------------
(* Properties *)

\* The one type invariant of the module; between two batches nothing is left
\* over of the last one.
TypeOK ==
    /\ handlers \in [Fds -> Handlers \cup {NoHandler}]
    /\ pending \subseteq Fds
    /\ interest \in [Fds -> Masks \cup {Unwatched}]
    /\ open \subseteq Fds
    /\ batch \in Seq(Events)
    /\ dispatching \in BOOLEAN
    /\ current \in Handlers \cup {NoHandler}
    /\ stop \in BOOLEAN
    /\ phase \in {"Setup", "Running", "Stopped"}
    /\ ~dispatching => pending = {} /\ batch = <<>> /\ current = NoHandler

\* An event still in the batch reaches the handler that was registered when the
\* kernel reported it, or nobody: never a handler whose connection has since been
\* given the same descriptor number.
NoMisdelivery ==
    \A i \in DOMAIN batch :
      batch[i].fd \notin pending => handlers[batch[i].fd] = batch[i].owner

\* The object whose on_event is running is alive, even if it has removed itself.
ExecutingIsAlive == current # NoHandler => \E fd \in Fds : handlers[fd] = current

\* The kernel watches what is registered and not waiting for its removal, and a
\* registered number stays open: it cannot be handed out a second time.
KernelAgrees ==
    /\ Watched = Registered \ pending
    /\ pending \subseteq Registered
    /\ Registered \subseteq open

\* Once removed, a handler is not called again.
RemovedIsNotCalled ==
    [][\A fd \in pending : handlers[fd] # current' \/ current = current']_vars

\* A removed handler is destroyed in the end.
RemovalCompletes == \A fd \in Fds : fd \in pending ~> fd \notin pending

\* A stop requested in a callback ends run() with the batch.
StopEnds == phase = "Running" /\ stop ~> phase = "Stopped"
================================================================================
