----------------------------- MODULE Scheduler -----------------------------
(***************************************************************************)
(* The viewport scheduler of runtime/scheduler: ViewportScheduler          *)
(* (scheduler.rs) and the TerminalArbiter it embeds (arbiter.rs).          *)
(*                                                                         *)
(* Every public operation that changes state is one action, or one action  *)
(* per outcome.  A call the code rejects without changing anything is a    *)
(* stuttering step and has no action; a rejected call that does change     *)
(* something (submit after a generation advance) has one.                  *)
(*                                                                         *)
(* The normal queue is a Vec searched by identity or by least scheduling   *)
(* key, never by position, and its entries carry distinct enqueue orders:  *)
(* it is a set here.  The critical queue is a FIFO and is a sequence.      *)
(***************************************************************************)
EXTENDS Naturals, Sequences, FiniteSets

CONSTANTS
    SessionIds,             \* session identities the host may register
    Requests,               \* WorkRequest values the host may submit
    Resources,              \* completed resources the workers may hand over
    Deltas,                 \* arguments of advance_tick
    NormalCapacity, PerSessionReservation, PerSessionCapacity,
    CriticalCapacity, InFlightCapacity, MaxSessions, MaxWorkIds,
    AgingQuantum, MaxAgingSteps, FairnessBurst,
    CounterMax              \* u64::MAX, the last value of every counter

\* SchedulerLimits::new: what a validated configuration satisfies.
ASSUME LimitsAssumption ==
    /\ NormalCapacity \in Nat \ {0}
    /\ PerSessionReservation \in Nat \ {0}
    /\ PerSessionCapacity \in Nat \ {0}
    /\ CriticalCapacity \in Nat \ {0}
    /\ InFlightCapacity \in Nat \ {0}
    /\ MaxSessions \in Nat \ {0}
    /\ MaxWorkIds \in Nat \ {0}
    /\ AgingQuantum \in Nat \ {0}
    /\ MaxAgingSteps \in Nat \ {0}
    /\ FairnessBurst \in Nat \ {0}
    /\ PerSessionReservation <= PerSessionCapacity
    /\ PerSessionReservation * MaxSessions <= NormalCapacity
    /\ NormalCapacity + InFlightCapacity <= MaxWorkIds

\* Identities are NonZeroU64; geometry is the rank of the triple
\* (scroll_relation, center_distance, edge_distance), which the code only
\* ever compares lexicographically.
ASSUME InputAssumption ==
    /\ IsFiniteSet(SessionIds)
    /\ CounterMax \in Nat \ {0}
    /\ Deltas \subseteq Nat
    /\ \A r \in Requests :
          /\ r = [work |-> r.work, session |-> r.session, gen |-> r.gen,
                  key |-> r.key, priority |-> r.priority,
                  geometry |-> r.geometry]
          /\ r.session \in SessionIds
          /\ r.gen \in Nat \ {0}
          /\ r.priority \in 0..4
          /\ r.geometry \in Nat

VARIABLES
    phase,              \* SchedulerPhase
    tick,               \* caller-controlled virtual time
    nextEnqueueOrder, nextCriticalOrder, nextServiceTurn,
    sessionPhase,       \* TerminalSession.phase, or "Unregistered"
    generation,         \* TerminalSession.generation
    queued,             \* QueueSession.queued
    lastServiceTurn,    \* QueueSession.last_service_turn
    normal,             \* the normal queue
    critical,           \* the critical FIFO
    seenWorkIds,        \* every work identity ever admitted
    inFlight,           \* TerminalArbiter.in_flight, as a set of signals
    resource,           \* who owns each completed resource
    published           \* history: the publications the host was told to make

queueVars == <<sessionPhase, generation, queued, lastServiceTurn, normal,
               seenWorkIds, nextEnqueueOrder>>
resourceVars == <<resource, published>>
vars == <<phase, tick, nextCriticalOrder, nextServiceTurn, critical, inFlight,
          queueVars, resourceVars>>

WorkIds == {r.work : r \in Requests}
Generations == {r.gen : r \in Requests}

\* TerminalSignal: the exact identity attached to cancel, failure, completion.
SignalOf(r) == [work |-> r.work, session |-> r.session, gen |-> r.gen]
Signals == {SignalOf(r) : r \in Requests}

Entries == [request : Requests, order : Nat, tick : Nat]

Events == [kind : {"Cancel", "Failure"}, signal : Signals]
    \cup [kind : {"Completion"}, signal : Signals, resource : Resources]
    \cup [kind : {"Close"}, session : SessionIds]
    \cup [kind : {"Release"}, session : SessionIds, resource : Resources]
    \cup [kind : {"Shutdown"}]

Registered == {s \in SessionIds : sessionPhase[s] # "Unregistered"}
Open == {s \in SessionIds : sessionPhase[s] = "Open"}

-----------------------------------------------------------------------------
(* Queue accounting.                                                       *)

\* unused_open_reservations: the reserved slots of open sessions that hold no
\* work.  Slot i of a session is unused when fewer than i of its requests are
\* queued, so the code's sum of saturating differences is this cardinality.
UnusedSlots(excluded) ==
    {p \in (Open \ excluded) \X (1..PerSessionReservation) : queued[p[1]] < p[2]}

UnusedOpenReservations(excluded) == Cardinality(UnusedSlots(excluded))

OfSession(queue, s) == {e \in queue : e.request.session = s}

\* remove_queued_for_session
Without(queue, s) == {e \in queue : e.request.session # s}

-----------------------------------------------------------------------------
(* Scheduling key.                                                         *)

AgingSteps(e) ==
    LET raw == (IF tick > e.tick THEN tick - e.tick ELSE 0) \div AgingQuantum
    IN  IF raw < MaxAgingSteps THEN raw ELSE MaxAgingSteps

Capped(e) == AgingSteps(e) = MaxAgingSteps

\* Mutant of SchedulingKey: capped work keeps no enqueue order.
SchedulingKeyMutant(e) ==
    <<IF Capped(e) THEN 0 ELSE 1,
      IF e.request.priority > AgingSteps(e)
      THEN e.request.priority - AgingSteps(e) ELSE 0,
      0, e.request.geometry, e.request.priority, e.order>>

\* SchedulingKey::for_request.  The session and work identities that end the
\* code's key never decide: enqueue orders are distinct.
SchedulingKey(e) ==
    <<IF Capped(e) THEN 0 ELSE 1,
      IF e.request.priority > AgingSteps(e)
      THEN e.request.priority - AgingSteps(e) ELSE 0,
      IF Capped(e) THEN e.order ELSE 0,
      e.request.geometry,
      e.request.priority,
      e.order>>

KeyLess(a, b) ==
    \E i \in 1..6 : a[i] < b[i] /\ \A j \in 1..(i - 1) : a[j] = b[j]

\* The fairness window: a session may be served again only while its last
\* turn is less than FairnessBurst turns after the least one with a backlog.
Backlogged == {e.request.session : e \in normal}

ExclusiveTurnLimit ==
    FairnessBurst + lastServiceTurn[CHOOSE s \in Backlogged :
        \A t \in Backlogged : lastServiceTurn[s] <= lastServiceTurn[t]]

\* Mutant of Eligible: no fairness window.
EligibleMutant == normal

Eligible ==
    {e \in normal : lastServiceTurn[e.request.session] < ExclusiveTurnLimit}

\* dispatch_next selects the eligible entry of the least scheduling key.
Selects(e) ==
    /\ e \in Eligible
    /\ \A f \in Eligible \ {e} : KeyLess(SchedulingKey(e), SchedulingKey(f))

-----------------------------------------------------------------------------
(* Sessions and generations.                                               *)

Init ==
    /\ phase = "Running"
    /\ tick = 0
    /\ nextEnqueueOrder = 0
    /\ nextCriticalOrder = 0
    /\ nextServiceTurn = 1
    /\ sessionPhase = [s \in SessionIds |-> "Unregistered"]
    /\ generation = [s \in SessionIds |-> 0]
    /\ queued = [s \in SessionIds |-> 0]
    /\ lastServiceTurn = [s \in SessionIds |-> 0]
    /\ normal = {}
    /\ critical = <<>>
    /\ seenWorkIds = {}
    /\ inFlight = {}
    /\ resource = [d \in Resources |-> "Worker"]
    /\ published = {}

\* Mutant of RegisterSession: the shared queue's occupancy is not consulted.
RegisterSessionMutant(s, g) ==
    /\ phase = "Running"
    /\ sessionPhase[s] = "Unregistered"
    /\ Cardinality(Registered) < MaxSessions
    /\ sessionPhase' = [sessionPhase EXCEPT ![s] = "Open"]
    /\ generation' = [generation EXCEPT ![s] = g]
    /\ UNCHANGED <<phase, tick, nextCriticalOrder, nextServiceTurn, critical,
                   inFlight, queued, lastServiceTurn, normal, seenWorkIds,
                   nextEnqueueOrder, resourceVars>>

\* register_session, and TerminalArbiter::register_session
RegisterSession(s, g) ==
    /\ phase = "Running"
    /\ sessionPhase[s] = "Unregistered"
    /\ Cardinality(Registered) < MaxSessions
    /\ Cardinality(normal) + UnusedOpenReservations({}) + PerSessionReservation
          <= NormalCapacity
    /\ sessionPhase' = [sessionPhase EXCEPT ![s] = "Open"]
    /\ generation' = [generation EXCEPT ![s] = g]
    /\ UNCHANGED <<phase, tick, nextCriticalOrder, nextServiceTurn, critical,
                   inFlight, queued, lastServiceTurn, normal, seenWorkIds,
                   nextEnqueueOrder, resourceVars>>

AdvanceTick(delta) ==
    /\ delta > 0
    /\ tick + delta <= CounterMax
    /\ tick' = tick + delta
    /\ UNCHANGED <<phase, nextCriticalOrder, nextServiceTurn, critical, inFlight,
                   queueVars, resourceVars>>

\* Mutants of AdvanceGeneration: the older queued work stays, or its count does.
AdvanceGenerationKeepsQueue(s, g) ==
    /\ phase = "Running"
    /\ sessionPhase[s] = "Open"
    /\ g > generation[s]
    /\ generation' = [generation EXCEPT ![s] = g]
    /\ UNCHANGED <<phase, tick, nextCriticalOrder, nextServiceTurn, critical,
                   inFlight, sessionPhase, lastServiceTurn, seenWorkIds, normal,
                   queued, nextEnqueueOrder, resourceVars>>

AdvanceGenerationKeepsCount(s, g) ==
    /\ phase = "Running"
    /\ sessionPhase[s] = "Open"
    /\ g > generation[s]
    /\ generation' = [generation EXCEPT ![s] = g]
    /\ normal' = Without(normal, s)
    /\ UNCHANGED <<phase, tick, nextCriticalOrder, nextServiceTurn, critical,
                   inFlight, sessionPhase, lastServiceTurn, seenWorkIds, queued,
                   nextEnqueueOrder, resourceVars>>

\* advance_generation: the older work still queued is superseded at once, the
\* older work in flight is left to the terminal arbiter.
AdvanceGeneration(s, g) ==
    /\ phase = "Running"
    /\ sessionPhase[s] = "Open"
    /\ g > generation[s]
    /\ generation' = [generation EXCEPT ![s] = g]
    /\ normal' = Without(normal, s)
    /\ queued' = [queued EXCEPT ![s] = 0]
    /\ UNCHANGED <<phase, tick, nextCriticalOrder, nextServiceTurn, critical,
                   inFlight, sessionPhase, lastServiceTurn, seenWorkIds,
                   nextEnqueueOrder, resourceVars>>

-----------------------------------------------------------------------------
(* submit.  A request of a newer generation first advances the generation; *)
(* Kept and Held are the queue and the session's count after that advance. *)

Submittable(r) ==
    /\ phase = "Running"
    /\ sessionPhase[r.session] = "Open"
    /\ r.gen >= generation[r.session]

Advances(r) == r.gen > generation[r.session]

Kept(r) == IF Advances(r) THEN Without(normal, r.session) ELSE normal

Held(r) == IF Advances(r) THEN 0 ELSE queued[r.session]

\* The queued work of the same session, generation and replacement key.
Replaceable(r) ==
    {e \in Kept(r) : /\ e.request.session = r.session
                     /\ e.request.gen = r.gen
                     /\ e.request.key = r.key}

\* reserve_work_id
CanReserve(w) == w \notin seenWorkIds /\ Cardinality(seenWorkIds) < MaxWorkIds

CanCoalesce(r, e) == r.work = e.request.work \/ CanReserve(r.work)

CanEnqueue(r) ==
    /\ Held(r) < PerSessionCapacity
    /\ Cardinality(Kept(r)) + 1 + UnusedOpenReservations({r.session})
          <= NormalCapacity
    /\ nextEnqueueOrder < CounterMax
    /\ CanReserve(r.work)

\* Same-generation work with the same key adopts the new request in place and
\* keeps its enqueue order and tick.  No generation advance is possible here:
\* an advance leaves nothing of the session to replace.
SubmitCoalesced(r) ==
    /\ Submittable(r)
    /\ \E e \in Replaceable(r) :
          /\ CanCoalesce(r, e)
          /\ normal' = (normal \ {e}) \cup
                {[request |-> r, order |-> e.order, tick |-> e.tick]}
    /\ seenWorkIds' = seenWorkIds \cup {r.work}
    /\ UNCHANGED <<phase, tick, nextCriticalOrder, nextServiceTurn, critical,
                   inFlight, sessionPhase, generation, queued, lastServiceTurn,
                   nextEnqueueOrder, resourceVars>>

SubmitEnqueued(r) ==
    /\ Submittable(r)
    /\ Replaceable(r) = {}
    /\ CanEnqueue(r)
    /\ generation' = [generation EXCEPT ![r.session] = r.gen]
    /\ normal' = Kept(r) \cup
                   {[request |-> r, order |-> nextEnqueueOrder, tick |-> tick]}
    /\ queued' = [queued EXCEPT ![r.session] = Held(r) + 1]
    /\ seenWorkIds' = seenWorkIds \cup {r.work}
    /\ nextEnqueueOrder' = nextEnqueueOrder + 1
    /\ UNCHANGED <<phase, tick, nextCriticalOrder, nextServiceTurn, critical,
                   inFlight, sessionPhase, lastServiceTurn, resourceVars>>

\* A request that advanced the generation and then failed admission: the
\* advance stands, and the older queued work is gone.
SubmitRejected(r) ==
    /\ Submittable(r)
    /\ Advances(r)
    /\ ~ CanEnqueue(r)
    /\ generation' = [generation EXCEPT ![r.session] = r.gen]
    /\ normal' = Kept(r)
    /\ queued' = [queued EXCEPT ![r.session] = 0]
    /\ UNCHANGED <<phase, tick, nextCriticalOrder, nextServiceTurn, critical,
                   inFlight, sessionPhase, lastServiceTurn, seenWorkIds,
                   nextEnqueueOrder, resourceVars>>

-----------------------------------------------------------------------------
(* Critical ingress.  A rejected event stays with its caller.              *)

EnqueueCritical(event) ==
    /\ phase # "Terminated"
    /\ Len(critical) < CriticalCapacity
    /\ nextCriticalOrder < CounterMax
    /\ critical' = Append(critical, event)
    /\ nextCriticalOrder' = nextCriticalOrder + 1

EnqueueCancel(signal) ==
    /\ signal.session \in Registered
    /\ EnqueueCritical([kind |-> "Cancel", signal |-> signal])
    /\ UNCHANGED <<phase, tick, nextServiceTurn, inFlight, queueVars, resourceVars>>

EnqueueFailure(signal) ==
    /\ signal.session \in Registered
    /\ EnqueueCritical([kind |-> "Failure", signal |-> signal])
    /\ UNCHANGED <<phase, tick, nextServiceTurn, inFlight, queueVars, resourceVars>>

\* Mutant of EnqueueCompletion: the worker still owns the queued resource.
EnqueueCompletionMutant(signal, d) ==
    /\ resource[d] = "Worker"
    /\ signal.session \in Registered
    /\ EnqueueCritical([kind |-> "Completion", signal |-> signal, resource |-> d])
    /\ UNCHANGED <<phase, tick, nextServiceTurn, inFlight, queueVars, resourceVars>>

\* Ownership of the resource moves from the worker into the queue.
EnqueueCompletion(signal, d) ==
    /\ resource[d] = "Worker"
    /\ signal.session \in Registered
    /\ EnqueueCritical([kind |-> "Completion", signal |-> signal, resource |-> d])
    /\ resource' = [resource EXCEPT ![d] = "Queued"]
    /\ UNCHANGED <<phase, tick, nextServiceTurn, inFlight, queueVars, published>>

\* The host gives back a resource it was told to publish.
EnqueueRelease(p) ==
    /\ resource[p.resource] = "Published"
    /\ EnqueueCritical([kind |-> "Release", session |-> p.signal.session,
                        resource |-> p.resource])
    /\ resource' = [resource EXCEPT ![p.resource] = "Releasing"]
    /\ UNCHANGED <<phase, tick, nextServiceTurn, inFlight, queueVars, published>>

\* close_session: only when the queue owns the close marker does the session
\* stop and lose its queued work.
CloseSession(s) ==
    /\ sessionPhase[s] = "Open"
    /\ EnqueueCritical([kind |-> "Close", session |-> s])
    /\ sessionPhase' = [sessionPhase EXCEPT ![s] = "Closing"]
    /\ normal' = Without(normal, s)
    /\ queued' = [queued EXCEPT ![s] = 0]
    /\ UNCHANGED <<phase, tick, nextServiceTurn, inFlight, generation,
                   lastServiceTurn, seenWorkIds, nextEnqueueOrder, resourceVars>>

\* begin_shutdown, and TerminalArbiter::begin_shutdown
BeginShutdown ==
    /\ phase = "Running"
    /\ EnqueueCritical([kind |-> "Shutdown"])
    /\ phase' = "ShuttingDown"
    /\ sessionPhase' = [s \in SessionIds |->
          IF s \in Registered THEN "Closing" ELSE "Unregistered"]
    /\ normal' = {}
    /\ queued' = [s \in SessionIds |-> 0]
    /\ UNCHANGED <<tick, nextServiceTurn, inFlight, generation, lastServiceTurn,
                   seenWorkIds, nextEnqueueOrder, resourceVars>>

-----------------------------------------------------------------------------
(* Terminal arbitration and dispatch.                                      *)

\* Mutant of Publishes: work of an older generation is published.
PublishesStale(signal) ==
    /\ signal \in inFlight
    /\ phase = "Running"
    /\ sessionPhase[signal.session] = "Open"

\* TerminalArbiter::complete: exact work in flight of an open session at its
\* current generation is published; a completion that fails one of the checks
\* discards its resource (the reason is only reported).  The arbiter's
\* shutting_down flag is set exactly while the scheduler is not Running.
Publishes(signal) ==
    /\ signal \in inFlight
    /\ phase = "Running"
    /\ sessionPhase[signal.session] = "Open"
    /\ generation[signal.session] = signal.gen

DispatchCompletion(event) ==
    /\ event.kind = "Completion"
    /\ inFlight' = inFlight \ {event.signal}
    /\ \/ /\ Publishes(event.signal)
          /\ resource' = [resource EXCEPT ![event.resource] = "Published"]
          /\ published' = published \cup
                {[signal |-> event.signal, resource |-> event.resource]}
       \/ /\ ~ Publishes(event.signal)
          /\ resource' = [resource EXCEPT ![event.resource] = "Discarded"]
          /\ UNCHANGED published

\* cancel and fail: finish_without_resource
DispatchTerminal(event) ==
    /\ event.kind \in {"Cancel", "Failure"}
    /\ inFlight' = inFlight \ {event.signal}
    /\ UNCHANGED resourceVars

DispatchRelease(event) ==
    /\ event.kind = "Release"
    /\ resource' = [resource EXCEPT ![event.resource] = "Released"]
    /\ UNCHANGED <<inFlight, published>>

\* Close and Shutdown took effect when they were admitted; the marker passes.
DispatchMarker(event) ==
    /\ event.kind \in {"Close", "Shutdown"}
    /\ UNCHANGED <<inFlight, resourceVars>>

\* Mutant of DispatchCritical: a scheduler shutting down stops draining.
DispatchCriticalMutant ==
    /\ phase = "Running"
    /\ critical # <<>>
    /\ critical' = Tail(critical)
    /\ \/ DispatchCompletion(Head(critical))
       \/ DispatchTerminal(Head(critical))
       \/ DispatchRelease(Head(critical))
       \/ DispatchMarker(Head(critical))
    /\ UNCHANGED <<phase, tick, nextCriticalOrder, nextServiceTurn, queueVars>>

DispatchCritical ==
    /\ critical # <<>>
    /\ critical' = Tail(critical)
    /\ \/ DispatchCompletion(Head(critical))
       \/ DispatchTerminal(Head(critical))
       \/ DispatchRelease(Head(critical))
       \/ DispatchMarker(Head(critical))
    /\ UNCHANGED <<phase, tick, nextCriticalOrder, nextServiceTurn, queueVars>>

\* What TerminalArbiter::start and the bookkeeping after it demand; the code
\* reports SchedulerError::InvariantViolation when one of them fails.
CanStart(e) ==
    /\ sessionPhase[e.request.session] = "Open"
    /\ e.request.gen = generation[e.request.session]
    /\ \A a \in inFlight : a.work # e.request.work
    /\ queued[e.request.session] > 0

\* The conditions under which dispatch_next turns to the normal queue.
NormalReady ==
    /\ critical = <<>>
    /\ phase = "Running"
    /\ Cardinality(inFlight) < InFlightCapacity
    /\ normal # {}
    /\ ExclusiveTurnLimit <= CounterMax
    /\ nextServiceTurn < CounterMax

DispatchNormal ==
    /\ NormalReady
    /\ \E e \in normal :
          /\ Selects(e)
          /\ CanStart(e)
          /\ inFlight' = inFlight \cup {SignalOf(e.request)}
          /\ normal' = normal \ {e}
          /\ queued' = [queued EXCEPT ![e.request.session] = @ - 1]
          /\ lastServiceTurn' =
                [lastServiceTurn EXCEPT ![e.request.session] = nextServiceTurn]
    /\ nextServiceTurn' = nextServiceTurn + 1
    /\ UNCHANGED <<phase, tick, nextCriticalOrder, critical, sessionPhase,
                   generation, seenWorkIds, nextEnqueueOrder, resourceVars>>

TryFinishShutdown ==
    /\ phase = "ShuttingDown"
    /\ normal = {}
    /\ critical = <<>>
    /\ inFlight = {}
    /\ phase' = "Terminated"
    /\ UNCHANGED <<tick, nextCriticalOrder, nextServiceTurn, critical, inFlight,
                   queueVars, resourceVars>>

-----------------------------------------------------------------------------
Next ==
    \/ \E s \in SessionIds, g \in Generations : RegisterSession(s, g)
    \/ \E delta \in Deltas : AdvanceTick(delta)
    \/ \E s \in SessionIds, g \in Generations : AdvanceGeneration(s, g)
    \/ \E r \in Requests : SubmitCoalesced(r)
    \/ \E r \in Requests : SubmitEnqueued(r)
    \/ \E r \in Requests : SubmitRejected(r)
    \/ \E signal \in Signals : EnqueueCancel(signal)
    \/ \E signal \in Signals : EnqueueFailure(signal)
    \/ \E signal \in Signals, d \in Resources : EnqueueCompletion(signal, d)
    \/ \E p \in published : EnqueueRelease(p)
    \/ \E s \in SessionIds : CloseSession(s)
    \/ BeginShutdown
    \/ DispatchCritical
    \/ DispatchNormal
    \/ TryFinishShutdown

Spec == Init /\ [][Next]_vars

\* What the host loop and its workers owe the scheduler: dispatch_next and
\* try_finish_shutdown keep being called, and the worker of work in flight
\* keeps trying to report it; a full critical queue only delays the report.
WorkerReports(signal) ==
    /\ signal \in inFlight
    /\ \/ EnqueueFailure(signal)
       \/ \E d \in Resources : EnqueueCompletion(signal, d)

FairSpec ==
    /\ Spec
    /\ WF_vars(DispatchCritical)
    /\ WF_vars(DispatchNormal)
    /\ WF_vars(TryFinishShutdown)
    /\ \A signal \in Signals : SF_vars(WorkerReports(signal))

-----------------------------------------------------------------------------
(* Properties.                                                             *)

\* Every field keeps the type scheduler.rs and arbiter.rs declare for it, and no
\* counter passes the largest value its checked addition allows.
TypeOK ==
    /\ phase \in {"Running", "ShuttingDown", "Terminated"}
    /\ tick \in 0..CounterMax
    /\ nextEnqueueOrder \in 0..CounterMax
    /\ nextCriticalOrder \in 0..CounterMax
    /\ nextServiceTurn \in 1..CounterMax
    /\ sessionPhase \in [SessionIds -> {"Unregistered", "Open", "Closing"}]
    /\ generation \in [SessionIds -> Nat]
    /\ queued \in [SessionIds -> Nat]
    /\ lastServiceTurn \in [SessionIds -> 0..CounterMax]
    /\ normal \subseteq Entries
    /\ critical \in Seq(Events)
    /\ seenWorkIds \subseteq WorkIds
    /\ inFlight \subseteq Signals
    /\ resource \in [Resources -> {"Worker", "Queued", "Published", "Releasing",
                                    "Released", "Discarded"}]
    /\ published \subseteq [signal : Signals, resource : Resources]

\* No queue outgrows its configured capacity.
WithinCapacity ==
    /\ Cardinality(normal) + UnusedOpenReservations({}) <= NormalCapacity
    /\ \A s \in SessionIds : queued[s] <= PerSessionCapacity
    /\ Len(critical) <= CriticalCapacity
    /\ Cardinality(inFlight) <= InFlightCapacity
    /\ Cardinality(seenWorkIds) <= MaxWorkIds

\* Queued work always belongs to an open session's current generation, and is
\* told apart by its enqueue order.
QueueIsCurrent ==
    /\ phase # "Running" => normal = {}
    /\ \A e \in normal :
          /\ sessionPhase[e.request.session] = "Open"
          /\ e.request.gen = generation[e.request.session]
          /\ e.order < nextEnqueueOrder
    /\ \A e, f \in normal : e.order = f.order => e = f

\* A work identity is at most once queued, in flight or published, and never
\* two of these.
WorkIdsAreUnique ==
    /\ \A e, f \in normal : e.request.work = f.request.work => e = f
    /\ \A a, b \in inFlight : a.work = b.work => a = b
    /\ \A p, q \in published : p.signal.work = q.signal.work => p = q
    /\ \A e \in normal : e.request.work \in seenWorkIds
    /\ \A a \in inFlight : a.work \in seenWorkIds
    /\ \A p \in published : p.signal.work \in seenWorkIds
    /\ \A e \in normal, a \in inFlight : e.request.work # a.work
    /\ \A e \in normal, p \in published : e.request.work # p.signal.work
    /\ \A a \in inFlight, p \in published : a.work # p.signal.work

\* The counter each session keeps equals the number of its entries in the
\* normal queue, through coalescing, supersession, close and dispatch.
QueueAccounting ==
    \A s \in SessionIds :
        queued[s] = Cardinality(OfSession(normal, s))

\* The queue is sound in all these respects, in every order of submissions,
\* replacements, generation advances, closes and dispatches.
QueueIsSound ==
    TypeOK /\ QueueAccounting /\ WithinCapacity /\ QueueIsCurrent /\ WorkIdsAreUnique

\* An open session that holds less than its reservation is always admitted:
\* neither its own capacity nor the shared queue can refuse a fresh request,
\* however the other sessions have filled the queue.
ReservedAdmission ==
    \A r \in Requests :
        /\ Submittable(r)
        /\ Held(r) < PerSessionReservation
        /\ nextEnqueueOrder < CounterMax
        /\ CanReserve(r.work)
        => CanEnqueue(r)

\* dispatch_next never reports InvariantViolation: when it turns to the normal
\* queue some entry is eligible and the arbiter accepts the one it selects,
\* whatever generation advance, coalescing or close happened since it was queued.
DispatchNeverFails ==
    NormalReady => \E e \in normal : Selects(e) /\ CanStart(e)

\* A resource that entered the critical queue is carried by exactly one event
\* there until it is decided, so none is lost and none is decided twice.
Carries(i, kind, d) ==
    critical[i].kind = kind /\ critical[i].resource = d

ResourceOwnership ==
    /\ \A d \in Resources :
          /\ resource[d] = "Queued" <=>
                \E i \in 1..Len(critical) : Carries(i, "Completion", d)
          /\ resource[d] = "Releasing" <=>
                \E i \in 1..Len(critical) : Carries(i, "Release", d)
    /\ \A i, j \in 1..Len(critical), d \in Resources :
          \A kind \in {"Completion", "Release"} :
             Carries(i, kind, d) /\ Carries(j, kind, d) => i = j

\* Work whose life has ended (admitted, no longer queued, not in flight) stays
\* ended: whatever duplicate, late or mismatched completions, cancellations and
\* failures still race in the critical queue, it is never queued, started or
\* published again, and a publication already made is never made anew.
Ended(w) ==
    /\ w \in seenWorkIds
    /\ \A e \in normal : e.request.work # w
    /\ \A a \in inFlight : a.work # w

PublishedFor(w) == {p \in published : p.signal.work = w}

EndedIsFinal ==
    [][\A w \in WorkIds : Ended(w) =>
          Ended(w)' /\ PublishedFor(w)' = PublishedFor(w)]_vars

\* SchedulingKey's comment: work that reached the aging cap is ordered by its
\* original enqueue order and precedes work that did not.
CappedWorkIsFifo ==
    [][DispatchNormal =>
          \A e, f \in Eligible :
              Selects(e) /\ Capped(f) /\ f # e => Capped(e) /\ e.order < f.order]_vars

\* Shutdown completes once begun, unless the u64 order of critical events is
\* exhausted: the queue drains, every worker reports, and Terminated follows.
ShutdownCompletes ==
    phase = "ShuttingDown" ~>
        (phase = "Terminated" \/ nextCriticalOrder = CounterMax)

\* Every resource handed over is eventually published or discarded.
EveryResourceDecided ==
    \A d \in Resources : resource[d] = "Queued" ~> resource[d] # "Queued"

\* A host that keeps dispatching brings both about: nothing the workers report can
\* keep a shutdown, or a resource, waiting for ever.
Progress == ShutdownCompletes /\ EveryResourceDecided

=============================================================================
