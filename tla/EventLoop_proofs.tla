---------------------------- MODULE EventLoop_proofs ---------------------------
(***************************************************************************)
(* Proofs about EventLoop, for any number of descriptors, handlers and     *)
(* events per batch: an event never reaches a handler that was registered  *)
(* after the kernel reported it, and a running handler is never destroyed. *)
(***************************************************************************)
EXTENDS EventLoop, TLAPS

\* A handler owns one descriptor.
OneDescriptor ==
    \A fd, other \in Registered : handlers[fd] = handlers[other] => fd = other

\* Neither property is inductive without the agreement with the kernel and the
\* descriptors that removed handlers keep open.
IInv ==
    /\ TypeOK
    /\ KernelAgrees
    /\ OneDescriptor
    /\ NoMisdelivery
    /\ ExecutingIsAlive

LEMMA InitInvariant == Init => IInv
<1> USE DEF Init
<1>1. ASSUME Init PROVE TypeOK /\ NoMisdelivery
  <2>1. batch \in Seq(Events) /\ DOMAIN batch = {}
    BY <1>1
  <2> QED BY <1>1, <2>1 DEF TypeOK, NoMisdelivery
<1>2. ASSUME Init PROVE KernelAgrees /\ OneDescriptor /\ ExecutingIsAlive
  BY <1>2 DEF KernelAgrees, OneDescriptor, ExecutingIsAlive, Registered, Watched
<1> QED BY <1>1, <1>2 DEF IInv

\* Calls of a callback that leave the map alone.
LEMMA OpenInvariant ==
    ASSUME NEW fd \in Fds, IInv, OpenDescriptor(fd) \/ CloseDescriptor(fd)
    PROVE  IInv'
  BY DEF OpenDescriptor, CloseDescriptor, Loose, IInv, TypeOK, KernelAgrees, OneDescriptor,
         NoMisdelivery, ExecutingIsAlive, Registered, Watched

LEMMA ModifyInvariant ==
    ASSUME NEW fd \in Fds, NEW mask \in Masks, IInv, Modify(fd, mask)
    PROVE  IInv'
<1> USE DEF Modify
<1>1. TypeOK'
  BY DEF IInv, TypeOK
<1>2. KernelAgrees'
  BY LoopAssumption DEF IInv, TypeOK, KernelAgrees, Registered, Watched
<1>3. (OneDescriptor /\ NoMisdelivery /\ ExecutingIsAlive)'
  BY DEF IInv, OneDescriptor, NoMisdelivery, ExecutingIsAlive, Registered
<1> QED BY <1>1, <1>2, <1>3 DEF IInv

\* A free number gets a handler: no event of the batch is about it, because an
\* addressee's number is registered as long as the batch lasts.
LEMMA AddInvariant ==
    ASSUME NEW fd \in Fds, NEW h \in Handlers, NEW mask \in Masks, IInv, Add(fd, h, mask)
    PROVE  IInv'
<1> USE DEF Add
<1>1. TypeOK'
  <2>1. current # NoHandler \/ phase = "Setup"
    BY DEF Calling
  <2> QED BY DEF IInv, TypeOK
<1>2. KernelAgrees'
  BY LoopAssumption DEF IInv, TypeOK, KernelAgrees, Registered, Watched
<1>3. OneDescriptor'
  BY LoopAssumption DEF IInv, TypeOK, OneDescriptor, Registered, Unused
<1>4. NoMisdelivery'
  <2> SUFFICES ASSUME NEW i \in DOMAIN batch, batch[i].fd \notin pending
               PROVE  handlers'[batch[i].fd] = batch[i].owner
    BY DEF NoMisdelivery
  <2>1. batch[i] \in Events
    BY DEF IInv, TypeOK
  <2>2. handlers[batch[i].fd] = batch[i].owner
    BY DEF IInv, NoMisdelivery
  <2>3. batch[i].fd # fd
    BY <2>1, <2>2, LoopAssumption DEF Events
  <2> QED BY <2>1, <2>2, <2>3 DEF Events, IInv, TypeOK
<1>5. ExecutingIsAlive'
  BY DEF IInv, TypeOK, ExecutingIsAlive
<1> QED BY <1>1, <1>2, <1>3, <1>4, <1>5 DEF IInv

\* While events are dispatched a removal only marks the number.
LEMMA RemoveInvariant ==
    ASSUME NEW fd \in Fds, IInv, Remove(fd)
    PROVE  IInv'
<1> USE DEF Remove, Erased, WatchDeleted
<1>1. CASE dispatching
  <2>1. TypeOK'
    BY <1>1 DEF IInv, TypeOK
  <2>2. KernelAgrees'
    BY <1>1, LoopAssumption DEF IInv, TypeOK, KernelAgrees, Registered, Watched
  <2>3. (OneDescriptor /\ NoMisdelivery /\ ExecutingIsAlive)'
    BY <1>1 DEF IInv, OneDescriptor, NoMisdelivery, ExecutingIsAlive, Registered
  <2> QED BY <2>1, <2>2, <2>3 DEF IInv
<1>2. CASE ~dispatching
  <2>1. batch = <<>> /\ current = NoHandler /\ pending = {}
    BY <1>2 DEF IInv, TypeOK
  <2>2. TypeOK'
    BY <1>2 DEF IInv, TypeOK
  <2>3. KernelAgrees'
    BY <1>2, <2>1, LoopAssumption DEF IInv, TypeOK, KernelAgrees, Registered, Watched
  <2>4. OneDescriptor'
    BY <1>2 DEF IInv, TypeOK, OneDescriptor, Registered
  <2>5. (NoMisdelivery /\ ExecutingIsAlive)'
    BY <2>1 DEF NoMisdelivery, ExecutingIsAlive
  <2> QED BY <2>2, <2>3, <2>4, <2>5 DEF IInv
<1> QED BY <1>1, <1>2 DEF IInv, TypeOK

\* A report names watched descriptors; their handlers are the addressees.
LEMMA WaitInvariant ==
    ASSUME IInv, Wait
    PROVE  IInv'
<1> PICK report \in Reports :
      batch' = [i \in DOMAIN report |-> [fd |-> report[i], owner |-> handlers[report[i]]]]
  BY DEF Wait
<1>1. PICK n \in 1..MaxBatch : report \in [1..n -> Watched]
  BY DEF Reports
<1>2. n \in Nat /\ DOMAIN report = 1..n
  BY <1>1, LoopAssumption
<1>3. \A i \in 1..n : report[i] \in Fds /\ report[i] \notin pending
                      /\ handlers[report[i]] \in Handlers
  BY <1>1, <1>2 DEF Watched, IInv, TypeOK, KernelAgrees, Registered
<1>4. batch' \in [1..n -> Events]
  BY <1>2, <1>3 DEF Events
<1>5. batch' \in Seq(Events)
  BY <1>2, <1>4
<1>6. TypeOK'
  BY <1>5 DEF IInv, TypeOK, Wait
<1>7. NoMisdelivery'
  BY <1>2, <1>3 DEF NoMisdelivery, Wait
<1>8. (KernelAgrees /\ OneDescriptor /\ ExecutingIsAlive)'
  BY DEF Wait, IInv, KernelAgrees, OneDescriptor, ExecutingIsAlive, Registered, Watched
<1> QED BY <1>6, <1>7, <1>8 DEF IInv

\* The dispatch takes the first event; the handler it runs is registered.
LEMMA DispatchInvariant ==
    ASSUME IInv, Dispatch
    PROVE  IInv'
<1> USE DEF Dispatch
<1>1. Head(batch) \in Events /\ Tail(batch) \in Seq(Events)
  BY DEF IInv, TypeOK
<1>2. TypeOK'
  BY <1>1 DEF IInv, TypeOK, Events, Skips
<1>3. NoMisdelivery'
  <2>1. \A i \in DOMAIN Tail(batch) : i + 1 \in DOMAIN batch /\ Tail(batch)[i] = batch[i + 1]
    BY DEF IInv, TypeOK
  <2> QED BY <2>1 DEF IInv, NoMisdelivery
<1>4. ExecutingIsAlive'
  BY <1>1 DEF ExecutingIsAlive, Skips, Events
<1>5. (KernelAgrees /\ OneDescriptor)'
  BY DEF IInv, KernelAgrees, OneDescriptor, Registered, Watched
<1> QED BY <1>2, <1>3, <1>4, <1>5 DEF IInv

\* The end of the batch destroys exactly the removed handlers.
LEMMA EndBatchInvariant ==
    ASSUME IInv, EndBatch
    PROVE  IInv'
<1> USE DEF EndBatch, FinishPendingRemovals, LoopTest
<1>1. TypeOK'
  BY DEF IInv, TypeOK
<1>2. KernelAgrees'
  BY LoopAssumption DEF IInv, TypeOK, KernelAgrees, Registered, Watched
<1>3. OneDescriptor'
  BY DEF IInv, TypeOK, OneDescriptor, Registered
<1>4. (NoMisdelivery /\ ExecutingIsAlive)'
  BY DEF NoMisdelivery, ExecutingIsAlive
<1> QED BY <1>1, <1>2, <1>3, <1>4 DEF IInv

LEMMA QuietInvariant ==
    ASSUME IInv, Stop \/ Run \/ WaitFails \/ Return \/ UNCHANGED vars
    PROVE  IInv'
  BY DEF Stop, Run, WaitFails, Return, vars, IInv, TypeOK, KernelAgrees, OneDescriptor,
         NoMisdelivery, ExecutingIsAlive, Registered, Watched

\* The inductive invariant holds in every state of the loop.
THEOREM Invariant == Spec => []IInv
<1>1. IInv /\ [Next]_vars => IInv'
  BY OpenInvariant, ModifyInvariant, AddInvariant, RemoveInvariant, WaitInvariant,
     DispatchInvariant, EndBatchInvariant, QuietInvariant DEF Next
<1> QED BY InitInvariant, <1>1, PTL DEF Spec

\* Type correctness: run_once leaves nothing of a batch behind.
THEOREM TypeCorrect == Spec => []TypeOK
<1>1. IInv => TypeOK
  BY DEF IInv
<1> QED BY Invariant, <1>1, PTL

\* Whatever the callbacks of a batch add, remove, open and close, the rest of the
\* batch reaches the handlers it was reported for, or nobody.
THEOREM Delivery == Spec => []NoMisdelivery
<1>1. IInv => NoMisdelivery
  BY DEF IInv
<1> QED BY Invariant, <1>1, PTL

\* remove() may be called by the handler that is being removed.
THEOREM NoUseAfterDestruction == Spec => []ExecutingIsAlive
<1>1. IInv => ExecutingIsAlive
  BY DEF IInv
<1> QED BY Invariant, <1>1, PTL

\* handlers_ without pending_removals_ is what the kernel watches, and no number
\* of a live handler can be handed out again.
THEOREM Agreement == Spec => []KernelAgrees
<1>1. IInv => KernelAgrees
  BY DEF IInv
<1> QED BY Invariant, <1>1, PTL

\* No step calls a handler that has been removed.
THEOREM RemovedStaysQuiet == Spec => RemovedIsNotCalled
<1> DEFINE Quiet == \A fd \in pending : handlers[fd] # current' \/ current = current'
<1>1. IInv /\ [Next]_vars => [Quiet]_vars
  <2> SUFFICES ASSUME IInv, [Next]_vars
               PROVE  Quiet
    OBVIOUS
  <2> SUFFICES ASSUME NEW fd \in pending
               PROVE  handlers[fd] # current' \/ current = current'
    BY DEF Quiet
  <2>1. fd \in Fds /\ handlers[fd] \in Handlers
    BY DEF IInv, TypeOK, KernelAgrees, Registered
  <2>2. CASE Dispatch
    <3>1. Head(batch) \in Events
      BY <2>2 DEF Dispatch, IInv, TypeOK
    <3>2. Head(batch).fd \in Fds
      BY <3>1 DEF Events
    <3> QED BY <2>1, <2>2, <3>2, LoopAssumption
            DEF Dispatch, Skips, IInv, OneDescriptor, Registered
  <2>3. CASE Return
    BY <2>1, <2>3, LoopAssumption DEF Return
  <2> QED BY <2>2, <2>3
          DEF Next, vars, OpenDescriptor, CloseDescriptor, Remove, Modify, Add, Stop, Run, Wait,
              WaitFails, EndBatch
<1> QED BY Invariant, <1>1, PTL DEF Spec, RemovedIsNotCalled
================================================================================
