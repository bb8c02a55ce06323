------------------------ MODULE SchedulerRefinement ------------------------
(***************************************************************************)
(* The scheduler implements the work lifecycle: the queues, the arbiter    *)
(* and the record of publications determine the life of every identity.    *)
(***************************************************************************)
EXTENDS Scheduler

WaitingEntry(w) == CHOOSE e \in normal : e.request.work = w
RunningSignal(w) == CHOOSE a \in inFlight : a.work = w

LifeOf(w) ==
    IF w \notin seenWorkIds THEN [state |-> "New"]
    ELSE IF \E e \in normal : e.request.work = w
    THEN [state |-> "Waiting", session |-> WaitingEntry(w).request.session,
          gen |-> WaitingEntry(w).request.gen]
    ELSE IF \E a \in inFlight : a.work = w
    THEN [state |-> "Running", session |-> RunningSignal(w).session,
          gen |-> RunningSignal(w).gen]
    ELSE IF \E p \in published : p.signal.work = w
    THEN [state |-> "Published"]
    ELSE [state |-> "Over"]

\* The state of the lifecycle that a state of the scheduler stands for.
Lives == [w \in WorkIds |-> LifeOf(w)]
Current == [s \in SessionIds |-> IF s \in Open THEN generation[s] ELSE 0]
Closed == {s \in SessionIds : sessionPhase[s] = "Closing"}

Life == INSTANCE WorkLifecycle WITH
    work <- Lives, current <- Current, closed <- Closed

\* Every step of the scheduler is a step of the work lifecycle, or leaves
\* every life as it is: submit, coalescing, dispatch, arbitration, generation
\* advance, close and shutdown never revive, duplicate or publish stale work.
ImplementsWorkLifecycle == Life!LifeSpec

=============================================================================
