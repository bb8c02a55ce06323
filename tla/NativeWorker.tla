---------------------------- MODULE NativeWorker ----------------------------
(***************************************************************************)
(* The native worker of runtime/engine: NativeWorkerRegistry (registry.rs),*)
(* the single-writer actor that composes the viewport scheduler, the       *)
(* surface owner and the data ticket ledger.                               *)
(*                                                                         *)
(* The host calls commands, hands back finished tasks, takes events, and   *)
(* calls pump, which runs at most one turn.  Every command is an action    *)
(* and every kind of turn is one; Turn says which turn the next pump runs, *)
(* in the order of the code.  A call that is rejected and a pump that is   *)
(* idle change nothing: they are stuttering steps.                         *)
(*                                                                         *)
(* The scheduler is the module Scheduler itself, instantiated: a turn that *)
(* submits, cancels, closes or dispatches takes the scheduler's own step.  *)
(* Of the surface owner the registry uses which surfaces are live; of the  *)
(* ledger, which sessions wait for data.                                   *)
(***************************************************************************)
EXTENDS Naturals, Sequences, FiniteSets

LOCAL INSTANCE SequencesExt

CONSTANTS
    MaxSessions, MaxWorkIds, NormalCapacity, CriticalCapacity,
    InFlightCapacity, CounterMax,           \* the scheduler's limits
    EventCapacity,              \* critical_event_capacity
    ProgressCapacity,           \* progress_event_capacity
    ReentryCapacity,            \* reentry_capacity
    LifecycleCapacity,          \* lifecycle_reentry_capacity
    PendingResourceCapacity,    \* pending_resource_capacity
    PolicyCapacity,             \* policy jobs that fit their count and byte limits
    RasterCapacity,             \* raster bytes, in units of a finished page
    MaxLiveSurfaces,            \* surface.max_live_surfaces
    RequestHistory,             \* request_history_capacity
    PageCount, TileCount,       \* visible pages, and tiles of a page's plan
    HostGenerations,                \* generations the host asks for
    Commands,                   \* kinds of commands the host may issue
    MaxCommands, MaxRestarts,   \* bounds on how many
    Faults                      \* what may happen beside success

\* NativeWorkerConfig::new: what a validated configuration satisfies.  A raster
\* task reserves two units, its working bytes and its result.
ASSUME ConfigAssumption ==
    /\ EventCapacity >= MaxSessions + 1 /\ EventCapacity >= 3
    /\ PendingResourceCapacity \in 1..InFlightCapacity
    /\ RasterCapacity >= 2 /\ PolicyCapacity >= 1
    /\ ReentryCapacity >= 1 /\ LifecycleCapacity >= 1 /\ ProgressCapacity >= 1

Sessions == 1..MaxSessions
Works == 1..MaxWorkIds

\* The WorkRequest set_viewport builds: one replacement key, the top priority.
ViewportRequest(w, s, g) ==
    [work |-> w, session |-> s, gen |-> g, key |-> 1, priority |-> 0,
     geometry |-> 0]

VARIABLES
    \* ViewportScheduler
    phase, tick, nextEnqueueOrder, nextCriticalOrder, nextServiceTurn,
    sessionPhase, generation, queued, lastServiceTurn, normal, critical,
    seenWorkIds, inFlight, resource, published,
    \* The worker and its sessions
    worker,                 \* NativeWorkerPhase
    epoch,                  \* the worker epoch, counted from 1
    session,                \* SessionPhase, or "None" before the open
    viewport,               \* viewport_generation, 0 for None
    request,                \* RequestState of the session's open request
    metrics,                \* how many get_page_metrics requests are remembered
    tickets,                \* sessions with an outstanding data ticket
    cached,                 \* [session, page]: tiles put into the session's cache
    \* Where the work is
    queuedJobs, active, terminalJobs, pendingResources, publications,
    \* Closing and shutting down
    closeBacklog, pendingCloses, shutdown, shutdownTerminals, cancelBacklog,
    \* Queues between the host and the worker
    normalReentries, criticalReentries, lifecycleReentries,
    policyTasks, rasterTasks, criticalEvents, progressEvents,
    pendingReclaims, deferredTerminals,
    \* Surfaces
    liveSurfaces,           \* the surfaces the SurfaceOwner holds
    deliveredSurfaces, deliveredRegions,
    \* The host
    parser,                 \* the parser adapter of a session
    policyExternal, rasterExternal,     \* tasks taken and not yet handed back
    imported, heldBytes,    \* surfaces imported, and copies still held
    commands,               \* how many commands were issued
    \* History
    accepted,               \* generations set_viewport accepted in this epoch
    ended,                  \* of these, the ones whose terminal was delivered
    answered,               \* sessions whose open request was answered
    told,                   \* sessions whose SessionClosed was delivered
    seen, reclaimed         \* surfaces delivered, and the ones taken back

Sched == INSTANCE Scheduler
    WITH SessionIds <- Sessions, Resources <- Works, Deltas <- {},
         Requests <- {ViewportRequest(w, s, g) :
                        w \in Works, s \in Sessions, g \in HostGenerations},
         PerSessionReservation <- 1, PerSessionCapacity <- 1,
         AgingQuantum <- 1, MaxAgingSteps <- 1, FairnessBurst <- 1

schedulerVars == <<phase, tick, nextEnqueueOrder, nextCriticalOrder,
                   nextServiceTurn, sessionPhase, generation, queued,
                   lastServiceTurn, normal, critical, seenWorkIds, inFlight,
                   resource, published>>
sessionVars == <<session, viewport, request, metrics, tickets, cached>>
jobVars == <<queuedJobs, active, terminalJobs, pendingResources, publications>>
closeVars == <<closeBacklog, pendingCloses, shutdown, shutdownTerminals>>
reentryVars == <<normalReentries, criticalReentries, lifecycleReentries>>
taskVars == <<policyTasks, rasterTasks>>
eventVars == <<criticalEvents, progressEvents>>
deferredVars == <<pendingReclaims, deferredTerminals>>
surfaceVars == <<liveSurfaces, deliveredSurfaces>>
taskHostVars == <<policyExternal, rasterExternal>>
hostVars == <<parser, taskHostVars, imported, heldBytes, commands>>
generationVars == <<accepted, ended>>
historyVars == <<generationVars, answered, told, seen, reclaimed>>
vars == <<schedulerVars, worker, epoch, sessionVars, jobVars, closeVars,
          cancelBacklog, reentryVars, taskVars, eventVars, deferredVars,
          surfaceVars, deliveredRegions, hostVars, historyVars>>

\* What only next_event, the host and a restart touch.
outsideVars == <<epoch, deliveredRegions, hostVars, historyVars>>

Surfaces == [epoch : 1..(MaxRestarts + 1), session : Sessions,
             gen : HostGenerations, page : 1..PageCount, tile : 1..TileCount]

\* The Correlation of a generation; a generation names at most one work.
Of(signal) == [session |-> signal.session, gen |-> signal.gen]

\* Records with a work identity in its order, as a BTreeMap iterates.
InWorkOrder(S) == SetToSortSeq(S, LAMBDA a, b : a.work < b.work)

Init ==
    /\ Sched!Init
    /\ worker = "Ready" /\ epoch = 1
    /\ session = [s \in Sessions |-> "None"]
    /\ viewport = [s \in Sessions |-> 0]
    /\ request = [s \in Sessions |-> "None"]
    /\ metrics = 0 /\ tickets = {} /\ cached = {}
    /\ queuedJobs = {} /\ active = {} /\ terminalJobs = {}
    /\ pendingResources = <<>> /\ publications = <<>>
    /\ closeBacklog = <<>> /\ pendingCloses = {} /\ shutdown = "None"
    /\ shutdownTerminals = <<>> /\ cancelBacklog = <<>>
    /\ normalReentries = <<>> /\ criticalReentries = <<>>
    /\ lifecycleReentries = <<>>
    /\ policyTasks = <<>> /\ rasterTasks = <<>>
    /\ criticalEvents = <<>> /\ progressEvents = {}
    /\ pendingReclaims = <<>> /\ deferredTerminals = <<>>
    /\ liveSurfaces = {} /\ deliveredSurfaces = <<>>
    /\ deliveredRegions = [s \in Sessions |-> [g \in HostGenerations |-> 0]]
    /\ parser = [s \in Sessions |-> "Idle"]
    /\ policyExternal = {} /\ rasterExternal = {}
    /\ imported = {} /\ heldBytes = {} /\ commands = 0
    /\ accepted = {} /\ ended = {} /\ answered = {} /\ told = {}
    /\ seen = {} /\ reclaimed = {}

-----------------------------------------------------------------------------
(* Capacity.                                                               *)

EventSpace(n) == Len(criticalEvents) + n <= EventCapacity

SchedulerSpace == Len(critical) < CriticalCapacity

ResourceSpace ==
    Len(pendingResources) + Len(publications) < PendingResourceCapacity

CountOf(seq, kinds) == Cardinality({i \in DOMAIN seq : seq[i].kind \in kinds})

\* PolicyTaskTracker.used: a permit lives in the task, in its result, and then
\* in the stage of the page until the raster reservation replaces it.
PolicyUsed ==
    Len(policyTasks) + Cardinality(policyExternal)
    + CountOf(criticalReentries, {"Capability", "Plan", "PolicyFailed"})
    + Cardinality({a \in active : a.stage \in
            {"CapabilityQueued", "CapabilityDelivered",
             "PlanQueued", "PlanDelivered"}})

\* RasterBudget.used: a task holds two units until it is done, a finished page
\* one until its batch is staged, a copy the host imported one.
RasterUsed ==
    2 * (Len(rasterTasks) + Cardinality(rasterExternal)
         + Cardinality({a \in active : a.stage = "CacheLookup"}))
    + CountOf(criticalReentries, {"Raster"})
    + Cardinality({p \in active \X (1..PageCount) : p[2] <= p[1].completed})
    + PageCount * (Len(pendingResources) + Cardinality(
            {i \in DOMAIN publications : ~ publications[i].stagingComplete}))
    + Cardinality(heldBytes)

-----------------------------------------------------------------------------
(* Events, reentries and the purges of both.                               *)

\* An event about a session, without a generation.
Event(kind, s) == [kind |-> kind, session |-> s, gen |-> 0]

SurfaceEvent(kind, d) ==
    [kind |-> kind, session |-> d.session, gen |-> d.gen, surface |-> d]

\* GenerationCompleted; c is the Correlation of the generation.
Completed(c, status, regions) ==
    [kind |-> "GenerationCompleted", session |-> c.session, gen |-> c.gen,
     status |-> status, regions |-> regions]

\* emit_superseded_generation: what the host has received so far counts.
Superseded(c) ==
    Completed(c, "Superseded", deliveredRegions[c.session][c.gen])

SupersededAll(terminals) ==
    [i \in DOMAIN terminals |-> Superseded(terminals[i])]

\* The events that is_delivery_terminal leaves out: a purge may drop them.
StreamKinds == {"NeedData", "CapabilityReported", "SurfaceReady"}

\* Mutant of PurgeClosed: a queued GenerationCompleted keeps its region count.
PurgeClosedMutant(events, S) ==
    SelectSeq(events, LAMBDA e : e.session \notin S \/ e.kind \notin StreamKinds)

\* purge_events with no generation to keep, for the sessions S.
PurgeClosed(events, S) ==
    LET counted == [i \in DOMAIN events |->
            IF events[i].kind = "GenerationCompleted" /\ events[i].session \in S
            THEN [events[i] EXCEPT !.regions =
                    deliveredRegions[events[i].session][events[i].gen]]
            ELSE events[i]]
    IN  SelectSeq(counted,
            LAMBDA e : e.session \notin S \/ e.kind \notin StreamKinds)

\* purge_events when generation g of session s replaces the older ones.
PurgeReplaced(events, s, g) ==
    SelectSeq(events, LAMBDA e :
        \/ e.session # s
        \/ e.gen >= g
        \/ e.kind \notin StreamKinds \cup {"GenerationCompleted"})

\* A policy or raster result on its way back; ok is the capability decision.
Result(kind, signal, ok) ==
    [kind |-> kind, session |-> signal.session, gen |-> signal.gen,
     signal |-> signal, ok |-> ok]

ResultKinds == {"Capability", "Plan", "PolicyFailed", "Raster", "RasterFailed"}

\* purge_generation_reentries: results and tasks of the generations before g.
WithoutOlder(seq, s, g) ==
    SelectSeq(seq, LAMBDA r :
        r.session # s \/ r.gen >= g \/ r.kind \notin ResultKinds)

\* purge_session_work_reentries
WithoutSessions(seq, S) == SelectSeq(seq, LAMBDA r : r.session \notin S)

-----------------------------------------------------------------------------
(* Commands of the host.                                                   *)

\* open: session identities are issued in order and never again in an epoch.
Open(s) ==
    /\ worker = "Ready"
    /\ session[s] = "None" /\ \A t \in 1..(s - 1) : session[t] # "None"
    /\ (s - 1) + metrics < RequestHistory
    /\ Sched!RegisterSession(s, 1)
    /\ session' = [session EXCEPT ![s] = "Opening"]
    /\ request' = [request EXCEPT ![s] = "Active"]
    /\ parser' = [parser EXCEPT ![s] = "Running"]
    /\ UNCHANGED <<worker, epoch, viewport, metrics, tickets, cached, jobVars,
                   closeVars, cancelBacklog, reentryVars, taskVars, eventVars, deferredVars,
                   surfaceVars, deliveredRegions, taskHostVars, imported,
                   heldBytes, commands, historyVars>>

\* The parser adapter misses a range, once per open, and posts Reentry::NeedData.
PostNeedData(s) ==
    /\ "NeedData" \in Faults
    /\ parser[s] = "Running"
    /\ Len(normalReentries) < ReentryCapacity
    /\ normalReentries' = Append(normalReentries,
                            [kind |-> "NeedData", session |-> s, gen |-> 0])
    /\ parser' = [parser EXCEPT ![s] = "Waiting"]
    /\ UNCHANGED <<schedulerVars, worker, epoch, sessionVars, jobVars, closeVars,
                   cancelBacklog, criticalReentries, lifecycleReentries,
                   taskVars, eventVars, deferredVars, surfaceVars,
                   deliveredRegions, taskHostVars, imported, heldBytes, commands,
                   historyVars>>

\* It ends with Reentry::Open; giving up is possible while it waits, too.
PostOpen(s, outcome) ==
    /\ outcome \in Faults \cup {"OpenReady"}
    /\ parser[s] \in IF outcome = "OpenReady" THEN {"Running", "Resumed"}
                     ELSE {"Running", "Waiting", "Resumed"}
    /\ Len(criticalReentries) < ReentryCapacity
    /\ criticalReentries' = Append(criticalReentries,
                              [kind |-> outcome, session |-> s, gen |-> 0])
    /\ parser' = [parser EXCEPT ![s] = "Done"]
    /\ UNCHANGED <<schedulerVars, worker, epoch, sessionVars, jobVars, closeVars,
                   cancelBacklog, normalReentries, lifecycleReentries, taskVars,
                   eventVars, deferredVars, surfaceVars, deliveredRegions,
                   taskHostVars, imported, heldBytes, commands, historyVars>>

\* provide_data, and fail_data for a failure other than a changed source: the
\* ticket is spent and the resume token queued; the adapter may go on.
ProvideData(s) ==
    /\ session[s] \in {"Opening", "Ready"}
    /\ s \in tickets
    /\ Len(criticalReentries) < ReentryCapacity
    /\ Len(lifecycleReentries) < LifecycleCapacity
    /\ tickets' = tickets \ {s}
    /\ criticalReentries' = Append(criticalReentries,
                    [kind |-> "RangeCompleted", session |-> s, gen |-> 0])
    /\ parser' = [parser EXCEPT ![s] = IF @ = "Waiting" THEN "Resumed" ELSE @]
    /\ UNCHANGED <<schedulerVars, worker, epoch, session, viewport, request,
                   metrics, cached, jobVars, closeVars, cancelBacklog, normalReentries,
                   lifecycleReentries, taskVars, eventVars, deferredVars,
                   surfaceVars, deliveredRegions, taskHostVars, imported,
                   heldBytes, commands, historyVars>>

\* fail_data with SourceChanged: the ledger drops the session's tickets.
SourceChanged(s) ==
    /\ "SourceChanged" \in Faults
    /\ session[s] \in {"Opening", "Ready"}
    /\ s \in tickets
    /\ Len(lifecycleReentries) < LifecycleCapacity
    /\ tickets' = tickets \ {s}
    /\ lifecycleReentries' = Append(lifecycleReentries,
                               [kind |-> "SourceChanged", session |-> s])
    /\ UNCHANGED <<schedulerVars, worker, epoch, session, viewport, request,
                   metrics, cached, jobVars, closeVars, cancelBacklog, normalReentries,
                   criticalReentries, taskVars, eventVars, deferredVars,
                   surfaceVars, deliveredRegions, hostVars, historyVars>>

\* get_page_metrics answers at once and remembers the request.
GetPageMetrics(s) ==
    /\ "Metrics" \in Commands /\ commands < MaxCommands
    /\ worker = "Ready" /\ session[s] = "Ready"
    /\ Cardinality({t \in Sessions : session[t] # "None"}) + metrics
          < RequestHistory
    /\ EventSpace(1)
    /\ metrics' = metrics + 1
    /\ criticalEvents' = Append(criticalEvents, Event("PageMetrics", s))
    /\ commands' = commands + 1
    /\ UNCHANGED <<schedulerVars, worker, epoch, session, viewport, request,
                   tickets, cached, jobVars, closeVars, cancelBacklog, reentryVars,
                   taskVars, progressEvents, deferredVars, surfaceVars,
                   deliveredRegions, parser, taskHostVars, imported, heldBytes,
                   historyVars>>

\* cancel, release_surface, close_session, shutdown and a restart only queue.
Command(reentry) ==
    /\ reentry.kind \in Commands /\ commands < MaxCommands
    /\ Len(lifecycleReentries) < LifecycleCapacity
    /\ lifecycleReentries' = Append(lifecycleReentries, reentry)
    /\ commands' = commands + 1
    /\ UNCHANGED <<schedulerVars, worker, epoch, sessionVars, jobVars, closeVars,
                   cancelBacklog, normalReentries, criticalReentries, taskVars,
                   eventVars, deferredVars, surfaceVars, deliveredRegions,
                   parser, taskHostVars, imported, heldBytes, historyVars>>

LifecycleCommands ==
    {[kind |-> k, session |-> s] : k \in {"Cancel", "Close"},
        s \in {t \in Sessions : session[t] # "None"}}
    \cup {[kind |-> "Release", surface |-> d] : d \in {x \in seen : x.epoch = epoch}}
    \cup {[kind |-> "Shutdown"]}
    \cup {[kind |-> "Restart"] : e \in {x \in {epoch} : x <= MaxRestarts}}

\* set_viewport.  The work of the older generations is cut off here: what is
\* active is cancelled later through the backlog, what is queued, complete or
\* being published is superseded, its undelivered events are withdrawn, and the
\* surfaces the host holds are reclaimed.  The first viewport of a session
\* finds nothing older, whether or not it advances the generation.
IsOlder(c, s, g) == c.session = s /\ c.gen < g

OlderActive(s, g) == {a \in active : IsOlder(a.signal, s, g)}

\* Mutant of PushCancel: the arbiter never hears of the cancelled work.
PushCancelMutant(signals) == UNCHANGED cancelBacklog

\* push_cancel, in the order of the work identities.
PushCancel(signals) == cancelBacklog' = cancelBacklog \o InWorkOrder(signals)

\* The correlations invalidate_older_work and the submit outcome report.
SupersededBy(s, g) ==
    LET older(seq) == SelectSeq(seq, LAMBDA x : IsOlder(x, s, g))
        ofJobs == InWorkOrder(queuedJobs)
        ofResources == [i \in DOMAIN pendingResources |-> pendingResources[i].signal]
        ofBatches == [i \in DOMAIN publications |-> publications[i].signal]
        ofEvents == SelectSeq(criticalEvents,
                        LAMBDA e : e.kind = "GenerationCompleted")
        found == older(ofJobs \o ofResources \o ofBatches \o ofEvents)
    IN  [i \in DOMAIN found |-> Of(found[i])]

\* replacement_terminal_upper_bound
ReplacementTerminals(s, g) ==
    Len(SupersededBy(s, g)) + Cardinality(OlderActive(s, g))
    + Cardinality({j \in terminalJobs : IsOlder(j, s, g)})

OlderLeases(s, g) == SelectSeq(deliveredSurfaces, LAMBDA d : IsOlder(d, s, g))

ReclaimEvents(leases) ==
    [i \in DOMAIN leases |-> SurfaceEvent("SurfaceReclaimed", leases[i])]

\* What set_viewport checks before it submits.
MaySetViewport(s, g) ==
    /\ worker = "Ready" /\ session[s] = "Ready"
    /\ g > viewport[s]
    /\ viewport[s] # 0 =>
          /\ Len(pendingReclaims) + Len(OlderLeases(s, g)) <= MaxLiveSurfaces
          /\ Len(deferredTerminals) + ReplacementTerminals(s, g)
                <= ReentryCapacity
    /\ Cardinality(seenWorkIds) < MaxWorkIds
    /\ Len(cancelBacklog) + Cardinality(OlderActive(s, g)) <= InFlightCapacity

NextRequest(s, g) == ViewportRequest(Cardinality(seenWorkIds) + 1, s, g)

SetViewport(s, g) ==
    LET r == NextRequest(s, g)
        cancelled == {a.signal : a \in OlderActive(s, g)}
    IN  /\ MaySetViewport(s, g)
        /\ Sched!SubmitEnqueued(r)
        /\ queuedJobs' = {j \in queuedJobs : ~ IsOlder(j, s, g)}
                            \cup {Sched!SignalOf(r)}
        /\ active' = active \ OlderActive(s, g)
        /\ terminalJobs' = terminalJobs \cup cancelled
        /\ PushCancel(cancelled)
        /\ criticalReentries' = WithoutOlder(criticalReentries, s, g)
        /\ policyTasks' = WithoutOlder(policyTasks, s, g)
        /\ rasterTasks' = WithoutOlder(rasterTasks, s, g)
        /\ pendingResources' = SelectSeq(pendingResources,
                LAMBDA p : ~ IsOlder(p.signal, s, g))
        /\ publications' = SelectSeq(publications,
                LAMBDA b : ~ IsOlder(b.signal, s, g))
        /\ criticalEvents' = PurgeReplaced(criticalEvents, s, g)
        /\ progressEvents' = {e \in progressEvents : ~ IsOlder(e, s, g)}
        /\ liveSurfaces' = {d \in liveSurfaces : ~ IsOlder(d, s, g)}
        /\ deliveredSurfaces' = SelectSeq(deliveredSurfaces,
                LAMBDA d : ~ IsOlder(d, s, g))
        /\ pendingReclaims' = pendingReclaims \o ReclaimEvents(OlderLeases(s, g))
        /\ deferredTerminals' = deferredTerminals \o SupersededBy(s, g)
        /\ viewport' = [viewport EXCEPT ![s] = g]
        /\ accepted' = accepted \cup {Of(r)}
        /\ UNCHANGED <<worker, epoch, session, request, metrics, tickets,
                       cached, closeVars, normalReentries, lifecycleReentries,
                       deliveredRegions, hostVars, ended, answered, told, seen,
                       reclaimed>>

-----------------------------------------------------------------------------
(* Tasks, events and surfaces on the host's side.                          *)

\* next_policy_task, next_raster_task
TakePolicyTask ==
    /\ policyTasks # <<>>
    /\ policyTasks' = Tail(policyTasks)
    /\ policyExternal' = policyExternal \cup {Head(policyTasks)}
    /\ UNCHANGED <<schedulerVars, worker, epoch, sessionVars, jobVars, closeVars,
                   cancelBacklog, reentryVars, rasterTasks, eventVars,
                   deferredVars, surfaceVars, deliveredRegions, parser,
                   rasterExternal, imported, heldBytes, commands, historyVars>>

TakeRasterTask ==
    /\ rasterTasks # <<>>
    /\ rasterTasks' = Tail(rasterTasks)
    /\ rasterExternal' = rasterExternal \cup {Head(rasterTasks)}
    /\ UNCHANGED <<schedulerVars, worker, epoch, sessionVars, jobVars, closeVars,
                   cancelBacklog, reentryVars, policyTasks, eventVars,
                   deferredVars, surfaceVars, deliveredRegions, parser,
                   policyExternal, imported, heldBytes, commands, historyVars>>

\* The results a task may come back with.
ResultsOf(task) ==
    {Result(task.kind, task.signal, ok) :
        ok \in IF task.kind = "Capability" /\ "Unsupported" \in Faults
               THEN BOOLEAN ELSE {TRUE}}
    \cup {Result(k, task.signal, FALSE) :
        k \in Faults \cap IF task.kind = "Raster" THEN {"RasterFailed"}
                          ELSE {"PolicyFailed"}}

\* The executor admits the result; a full queue leaves it with the executor.
FinishTask(task) ==
    /\ Len(criticalReentries) < ReentryCapacity
    /\ \E result \in ResultsOf(task) :
          criticalReentries' = Append(criticalReentries, result)
    /\ policyExternal' = policyExternal \ {task}
    /\ rasterExternal' = rasterExternal \ {task}
    /\ UNCHANGED <<schedulerVars, worker, epoch, sessionVars, jobVars, closeVars,
                   cancelBacklog, normalReentries, lifecycleReentries, taskVars,
                   eventVars, deferredVars, surfaceVars, deliveredRegions,
                   parser, imported, heldBytes, commands, historyVars>>

\* next_event: the history of what the host was told.
Delivered(e) ==
    /\ ended' = IF e.kind = "GenerationCompleted" THEN ended \cup {Of(e)}
                ELSE ended
    /\ answered' = IF e.kind \in {"DocumentReady", "RequestFailed",
                                  "RequestCancelled"}
                   THEN answered \cup {e.session} ELSE answered
    /\ told' = IF e.kind = "SessionClosed" THEN told \cup {e.session} ELSE told
    /\ seen' = IF e.kind = "SurfaceReady" THEN seen \cup {e.surface} ELSE seen
    /\ reclaimed' = IF e.kind = "SurfaceReclaimed"
                    THEN reclaimed \cup {e.surface} ELSE reclaimed
    /\ UNCHANGED accepted

\* Mutant of Unblocked: the page is not told that its event was taken.
UnblockedMutant(from, to, s, g) == active

\* A delivered barrier event lets the page it belongs to go on.
Unblocked(from, to, s, g) ==
    {IF a.signal.session = s /\ a.signal.gen = g /\ a.stage = from
     THEN [a EXCEPT !.stage = to] ELSE a : a \in active}

NextCriticalEvent ==
    LET e == Head(criticalEvents)
    IN  /\ criticalEvents # <<>>
        /\ criticalEvents' = Tail(criticalEvents)
        /\ deliveredSurfaces' = IF e.kind = "SurfaceReady"
                THEN Append(deliveredSurfaces, e.surface) ELSE deliveredSurfaces
        /\ deliveredRegions' =
                CASE e.kind = "SurfaceReady" ->
                        [deliveredRegions EXCEPT ![e.session][e.gen] = @ + 1]
                  [] e.kind = "GenerationCompleted" ->
                        [deliveredRegions EXCEPT ![e.session][e.gen] = 0]
                  [] OTHER -> deliveredRegions
        /\ active' = IF e.kind = "CapabilityReported"
                THEN Unblocked("CapabilityQueued", "CapabilityDelivered",
                               e.session, e.gen)
                ELSE active
        /\ Delivered(e)
        /\ UNCHANGED <<schedulerVars, worker, epoch, sessionVars, queuedJobs,
                       terminalJobs, pendingResources, publications, closeVars,
                       cancelBacklog, reentryVars, taskVars, progressEvents,
                       deferredVars, liveSurfaces, hostVars>>

NextProgressEvent ==
    /\ criticalEvents = <<>>
    /\ \E e \in progressEvents :
          /\ \A f \in progressEvents : e.work <= f.work
          /\ progressEvents' = progressEvents \ {e}
          /\ active' = Unblocked("PlanQueued", "PlanDelivered", e.session, e.gen)
    /\ UNCHANGED <<schedulerVars, worker, epoch, sessionVars, queuedJobs,
                   terminalJobs, pendingResources, publications, closeVars,
                   cancelBacklog, reentryVars, taskVars, criticalEvents,
                   deferredVars, surfaceVars, deliveredRegions, hostVars,
                   historyVars>>

\* import_surface_bytes: once per surface, while it is current; the copy is
\* charged to the raster budget until the host drops it.
ImportSurface(d) ==
    /\ "Import" \in Commands
    /\ worker = "Ready" /\ d.epoch = epoch
    /\ session[d.session] = "Ready" /\ viewport[d.session] = d.gen
    /\ d \in liveSurfaces \ imported
    /\ RasterUsed + 1 <= RasterCapacity
    /\ imported' = imported \cup {d}
    /\ heldBytes' = heldBytes \cup {d}
    /\ UNCHANGED <<schedulerVars, worker, epoch, sessionVars, jobVars, closeVars,
                   cancelBacklog, reentryVars, taskVars, eventVars, deferredVars,
                   surfaceVars, deliveredRegions, parser, taskHostVars, commands,
                   historyVars>>

DropImport(d) ==
    /\ d \in heldBytes
    /\ heldBytes' = heldBytes \ {d}
    /\ UNCHANGED <<schedulerVars, worker, epoch, sessionVars, jobVars, closeVars,
                   cancelBacklog, reentryVars, taskVars, eventVars, deferredVars,
                   surfaceVars, deliveredRegions, parser, taskHostVars, imported,
                   commands, historyVars>>

\* Mutant of ReclaimUndelivered: the lease goes, the surface stays.
ReclaimUndeliveredMutant(d) ==
    /\ "Undelivered" \in Faults
    /\ d.epoch = epoch
    /\ Contains(deliveredSurfaces, d)
    /\ deliveredSurfaces' = SelectSeq(deliveredSurfaces, LAMBDA x : x # d)
    /\ reclaimed' = reclaimed \cup {d}
    /\ UNCHANGED <<schedulerVars, worker, epoch, sessionVars, jobVars, closeVars,
                   cancelBacklog, reentryVars, taskVars, eventVars, deferredVars,
                   liveSurfaces, deliveredRegions, hostVars, accepted, ended,
                   answered, told, seen>>

\* reclaim_undelivered_surface: the adapter could not pass the lease on, and the
\* host never learns of it.
ReclaimUndelivered(d) ==
    /\ "Undelivered" \in Faults
    /\ d.epoch = epoch
    /\ Contains(deliveredSurfaces, d)
    /\ liveSurfaces' = liveSurfaces \ {d}
    /\ deliveredSurfaces' = SelectSeq(deliveredSurfaces, LAMBDA x : x # d)
    /\ reclaimed' = reclaimed \cup {d}
    /\ UNCHANGED <<schedulerVars, worker, epoch, sessionVars, jobVars, closeVars,
                   cancelBacklog, reentryVars, taskVars, eventVars, deferredVars,
                   deliveredRegions, hostVars, accepted, ended, answered, told,
                   seen>>

-----------------------------------------------------------------------------
(* pump: which turn runs.                                                  *)

IsDelivered(d) == Contains(deliveredSurfaces, d)

\* Mutant of RestartWaits: a restart does not wait for queued reclaims.
RestartWaitsMutant ==
    \/ worker = "Draining"
    \/ worker = "Stopped" /\ CountOf(criticalEvents, {"WorkerStopped"}) > 0

\* A restart waits out a drain and the events the host must not lose.
RestartWaits ==
    \/ worker = "Draining"
    \/ CountOf(criticalEvents, {"SurfaceReclaimed"}) > 0
    \/ worker = "Stopped" /\ CountOf(criticalEvents, {"WorkerStopped"}) > 0

LifecycleNeed(r) ==
    CASE r.kind = "Cancel" -> 2
      [] r.kind = "Release" -> IF IsDelivered(r.surface) THEN 2 ELSE 1
      [] r.kind \in {"Close", "Shutdown"} -> 1
      [] OTHER -> 0

LifecycleReady ==
    /\ lifecycleReentries # <<>>
    /\ LET r == Head(lifecycleReentries)
       IN  /\ r.kind = "Restart" => ~ RestartWaits
           /\ EventSpace(LifecycleNeed(r))

IsActive(signal) == \E a \in active : a.signal.work = signal.work

\* raster_completion_needs_resource
NeedsResource(a) == ~ a.failed /\ a.page = PageCount

\* pump_critical_reentry: the head waits for what its processing takes.
CriticalReady ==
    /\ criticalReentries # <<>>
    /\ LET r == Head(criticalReentries)
       IN  \/ r.kind = "RangeCompleted"
           \/ r.kind \in {"OpenReady", "OpenFailed"} /\ EventSpace(1)
           \/ r.kind \in ResultKinds /\ ~ IsActive(r.signal)
           \/ /\ r.kind \in ResultKinds
              /\ SchedulerSpace
              /\ r.kind = "Capability" => EventSpace(1)
              /\ r.kind = "Plan" =>
                    \/ r.signal \in progressEvents
                    \/ Cardinality(progressEvents) < ProgressCapacity
              /\ r.kind = "Raster" => \A a \in active :
                    a.signal = r.signal /\ NeedsResource(a) => ResourceSpace

\* scheduler_event_space_requirement
Unanswered(S) == {s \in S : request[s] = "Active"}

SchedulerNeeds ==
    {1}
    \cup {Len(c.terminals) + Cardinality(Unanswered({c.session}))
            + (IF c.explicit THEN 1 ELSE 0) + 1 : c \in pendingCloses}
    \cup (IF shutdown = "Admitted"
          THEN {Len(shutdownTerminals) + 1 + Cardinality(Unanswered(
                    {s \in Sessions : session[s] \notin {"None", "Closed"}}))}
          ELSE {})

SchedulerReady ==
    /\ \A n \in SchedulerNeeds : EventSpace(n)
    /\ critical # <<>> \/ Sched!NormalReady

\* The stages in which a page waits for someone else.
WaitingStages == {"CapabilityPending", "CapabilityQueued", "PlanPending",
                  "PlanQueued", "RasterPending"}

Runnable == {a \in active : a.stage \notin WaitingStages}

\* A stopped worker runs the first two kinds only.
Ready(turn) ==
    /\ worker = "Stopped" => turn \in {"SurfaceEvent", "Lifecycle"}
    /\ CASE turn = "SurfaceEvent" ->
              pendingReclaims # <<>> \/ deferredTerminals # <<>>
      [] turn = "Lifecycle" -> LifecycleReady
      [] turn = "CancelBacklog" -> cancelBacklog # <<>> /\ SchedulerSpace
      [] turn = "CloseBacklog" -> closeBacklog # <<>> /\ SchedulerSpace
      [] turn = "ShutdownAdmission" ->
            shutdown = "Pending" /\ closeBacklog = <<>> /\ SchedulerSpace
      [] turn = "CriticalReentry" -> CriticalReady
      [] turn = "Scheduler" -> SchedulerReady
      [] turn = "Publication" -> publications # <<>>
      [] turn = "Active" -> Runnable # {}
      [] turn = "NormalReentry" -> normalReentries # <<>> /\ EventSpace(1)
      [] turn = "Finish" -> worker = "Draining"

\* Mutant of TurnOrder: the scheduler is asked before it is told of the closes.
TurnOrderLate == <<"SurfaceEvent", "CancelBacklog", "Lifecycle", "CriticalReentry",
                   "Scheduler", "CloseBacklog", "ShutdownAdmission", "Publication",
                   "Active", "NormalReentry", "Finish">>

\* The order of the calls in pump.
TurnOrder == <<"SurfaceEvent", "CancelBacklog", "CloseBacklog",
               "ShutdownAdmission", "Lifecycle", "CriticalReentry", "Scheduler",
               "Publication", "Active", "NormalReentry", "Finish">>

\* A turn that is reached and cannot go on leaves the pump idle.
Turn(turn) ==
    /\ Ready(turn)
    /\ \A i, j \in DOMAIN TurnOrder :
          j < i /\ TurnOrder[i] = turn => ~ Ready(TurnOrder[j])

-----------------------------------------------------------------------------
(* The turns.                                                              *)

\* pump_surface_lifecycle_event
SurfaceEventTurn ==
    /\ Turn("SurfaceEvent")
    /\ EventSpace(1)
    /\ IF pendingReclaims # <<>>
       THEN /\ criticalEvents' = Append(criticalEvents, Head(pendingReclaims))
            /\ pendingReclaims' = Tail(pendingReclaims)
            /\ UNCHANGED deferredTerminals
       ELSE /\ criticalEvents' =
                    Append(criticalEvents, Superseded(Head(deferredTerminals)))
            /\ deferredTerminals' = Tail(deferredTerminals)
            /\ UNCHANGED pendingReclaims
    /\ UNCHANGED <<schedulerVars, worker, sessionVars, jobVars, closeVars,
                   cancelBacklog, reentryVars, taskVars, progressEvents,
                   surfaceVars, outsideVars>>

\* pump_cancel_backlog
CancelBacklogTurn ==
    /\ Turn("CancelBacklog")
    /\ Sched!EnqueueCancel(Head(cancelBacklog))
    /\ cancelBacklog' = Tail(cancelBacklog)
    /\ UNCHANGED <<worker, sessionVars, jobVars, closeVars, reentryVars, taskVars,
                   eventVars, deferredVars, surfaceVars, outsideVars>>

\* pump_close_backlog: the scheduler gives the queued work of the session up.
CloseBacklogTurn ==
    LET c == Head(closeBacklog)
        jobs == {j \in queuedJobs : j.session = c.session}
    IN  /\ Turn("CloseBacklog")
        /\ Sched!CloseSession(c.session)
        /\ closeBacklog' = Tail(closeBacklog)
        /\ pendingCloses' = pendingCloses \cup {[c EXCEPT !.terminals =
                @ \o [i \in DOMAIN InWorkOrder(jobs) |-> Of(InWorkOrder(jobs)[i])]]}
        /\ queuedJobs' = queuedJobs \ jobs
        /\ UNCHANGED <<worker, sessionVars, active, terminalJobs,
                       pendingResources, publications, shutdown,
                       shutdownTerminals, cancelBacklog, reentryVars, taskVars,
                       eventVars, deferredVars, surfaceVars, outsideVars>>

\* pump_shutdown_admission
ShutdownAdmissionTurn ==
    /\ Turn("ShutdownAdmission")
    /\ Sched!BeginShutdown
    /\ shutdown' = "Admitted"
    /\ shutdownTerminals' = shutdownTerminals \o
            [i \in DOMAIN InWorkOrder(queuedJobs) |->
                Of(InWorkOrder(queuedJobs)[i])]
    /\ queuedJobs' = {}
    /\ UNCHANGED <<worker, sessionVars, active, terminalJobs, pendingResources,
                   publications, closeBacklog, pendingCloses, cancelBacklog,
                   reentryVars, taskVars, eventVars, deferredVars, surfaceVars,
                   outsideVars>>

\* What begin_session_close and begin_shutdown do to the sessions S that still
\* run.  reentries is the critical reentry queue after the turn took its head.
LeasesOf(S) ==
    FlattenSeq([s \in Sessions |-> SelectSeq(deliveredSurfaces,
        LAMBDA d : s \in S /\ d.session = s)])

\* Mutant of FinishedOf: half-published work is forgotten.
FinishedOfMutant(S) ==
    LET ofResources == [i \in DOMAIN pendingResources |-> pendingResources[i].signal]
        found == SelectSeq(ofResources, LAMBDA x : x.session \in S)
    IN  [i \in DOMAIN found |-> Of(found[i])]

\* The complete and half-published work of S: it ends when the close does.
FinishedOf(S) ==
    LET ofResources == [i \in DOMAIN pendingResources |-> pendingResources[i].signal]
        ofBatches == [i \in DOMAIN publications |-> publications[i].signal]
        found == SelectSeq(ofResources \o ofBatches, LAMBDA x : x.session \in S)
    IN  [i \in DOMAIN found |-> Of(found[i])]

EndWork(S, reentries) ==
    LET cancelled == {a.signal : a \in {x \in active : x.signal.session \in S}}
    IN  /\ session' = [s \in Sessions |-> IF s \in S THEN "Closing" ELSE session[s]]
        /\ liveSurfaces' = {d \in liveSurfaces : d.session \notin S}
        /\ deliveredSurfaces' = WithoutSessions(deliveredSurfaces, S)
        /\ pendingReclaims' = pendingReclaims \o ReclaimEvents(LeasesOf(S))
        /\ normalReentries' = WithoutSessions(normalReentries, S)
        /\ criticalReentries' = WithoutSessions(reentries, S)
        /\ policyTasks' = WithoutSessions(policyTasks, S)
        /\ rasterTasks' = WithoutSessions(rasterTasks, S)
        /\ active' = {a \in active : a.signal.session \notin S}
        /\ terminalJobs' = terminalJobs \cup cancelled
        /\ PushCancel(cancelled)
        /\ pendingResources' = SelectSeq(pendingResources,
                LAMBDA p : p.signal.session \notin S)
        /\ publications' = SelectSeq(publications,
                LAMBDA b : b.signal.session \notin S)
        /\ progressEvents' = {e \in progressEvents : e.session \notin S}

\* What a turn leaves alone when it runs EndWork.
endWorkRest == <<schedulerVars, viewport, metrics, cached, queuedJobs,
                 deferredTerminals, outsideVars>>

\* begin_session_close of a session that still runs; reply are the events the
\* caller emits after it.
BeginClose(s, reason, explicit, reentries, reply) ==
    /\ EndWork({s}, reentries)
    /\ criticalEvents' = PurgeClosed(criticalEvents, {s}) \o reply
    /\ closeBacklog' = Append(closeBacklog,
            [session |-> s, reason |-> reason, explicit |-> explicit,
             terminals |-> FinishedOf({s})])
    /\ UNCHANGED <<pendingCloses, shutdown, shutdownTerminals, tickets>>

\* Mutant of Running: a session that is being closed is closed again.
RunningMutant(s) == session[s] \in {"Opening", "Ready", "Closing"}

Running(s) == session[s] \in {"Opening", "Ready"}

\* Mutant of CancelRequest: the request is not marked as answered.
CancelRequestMutant(s) ==
    /\ request[s] = "Active" /\ Running(s)
    /\ BeginClose(s, "Cancelled", FALSE, criticalReentries,
            <<Event("RequestCancelled", s), Event("CancelAcknowledged", s)>>)
    /\ UNCHANGED <<worker, request, endWorkRest>>

\* process_cancel of an open request: the session it opened is closed.
CancelRequest(s) ==
    /\ request[s] = "Active" /\ Running(s)
    /\ request' = [request EXCEPT ![s] = "Cancelled"]
    /\ BeginClose(s, "Cancelled", FALSE, criticalReentries,
            <<Event("RequestCancelled", s), Event("CancelAcknowledged", s)>>)
    /\ UNCHANGED <<worker, endWorkRest>>

\* Close, or a changed source, of a session that still runs.
CloseRunning(s, reason) ==
    /\ Running(s)
    /\ BeginClose(s, reason, reason = "Explicit", criticalReentries, <<>>)
    /\ UNCHANGED <<worker, request, endWorkRest>>

\* begin_shutdown
DrainWorker ==
    /\ worker = "Ready"
    /\ LET S == {s \in Sessions : session[s] \notin {"None", "Closed"}}
       IN  /\ EndWork(S, criticalReentries)
           /\ criticalEvents' = PurgeClosed(criticalEvents, S)
           /\ shutdownTerminals' = FinishedOf(S)
    /\ worker' = "Draining"
    /\ shutdown' = "Pending"
    /\ UNCHANGED <<request, tickets, closeBacklog, pendingCloses, endWorkRest>>

\* process_release: an unknown or retired surface is only acknowledged.
ReleaseSurface(d) ==
    LET ack == Event("SurfaceReleaseAcknowledged", d.session)
    IN  /\ liveSurfaces' = liveSurfaces \ {d}
        /\ IF d \in liveSurfaces /\ IsDelivered(d)
           THEN /\ deliveredSurfaces' =
                        SelectSeq(deliveredSurfaces, LAMBDA x : x # d)
                /\ criticalEvents' = criticalEvents \o
                        <<SurfaceEvent("SurfaceReclaimed", d), ack>>
           ELSE /\ criticalEvents' = Append(criticalEvents, ack)
                /\ UNCHANGED deliveredSurfaces
        /\ UNCHANGED <<schedulerVars, worker, sessionVars, jobVars, closeVars,
                       cancelBacklog, normalReentries, criticalReentries,
                       taskVars, progressEvents, deferredVars, outsideVars>>

\* A command whose target is already closing, closed or stopped: the replay is
\* acknowledged and has no other effect, a changed source has none at all.
Acknowledge(reply) ==
    /\ criticalEvents' = criticalEvents \o reply
    /\ UNCHANGED <<schedulerVars, worker, sessionVars, jobVars, closeVars,
                   cancelBacklog, normalReentries, criticalReentries, taskVars,
                   progressEvents, deferredVars, surfaceVars, outsideVars>>

\* restart_now builds a new scheduler and new queues.
NewScheduler ==
    /\ phase' = "Running" /\ tick' = 0
    /\ nextEnqueueOrder' = 0 /\ nextCriticalOrder' = 0 /\ nextServiceTurn' = 1
    /\ sessionPhase' = [s \in Sessions |-> "Unregistered"]
    /\ generation' = [s \in Sessions |-> 0]
    /\ queued' = [s \in Sessions |-> 0]
    /\ lastServiceTurn' = [s \in Sessions |-> 0]
    /\ normal' = {} /\ critical' = <<>>
    /\ seenWorkIds' = {} /\ inFlight' = {}
    /\ resource' = [d \in Works |-> "Worker"] /\ published' = {}

NewEvents == criticalEvents' = <<>> /\ progressEvents' = {}

\* restart_now: everything starts anew in the next epoch, except that the host
\* is still told of every lease it holds.
RestartWorker ==
    /\ NewScheduler /\ NewEvents
    /\ worker' = "Ready" /\ epoch' = epoch + 1
    /\ session' = [s \in Sessions |-> "None"]
    /\ viewport' = [s \in Sessions |-> 0]
    /\ request' = [s \in Sessions |-> "None"]
    /\ metrics' = 0 /\ tickets' = {} /\ cached' = {}
    /\ queuedJobs' = {} /\ active' = {} /\ terminalJobs' = {}
    /\ pendingResources' = <<>> /\ publications' = <<>>
    /\ closeBacklog' = <<>> /\ pendingCloses' = {} /\ shutdown' = "None"
    /\ shutdownTerminals' = <<>> /\ cancelBacklog' = <<>>
    /\ normalReentries' = <<>> /\ criticalReentries' = <<>>
    /\ policyTasks' = <<>> /\ rasterTasks' = <<>>
    /\ pendingReclaims' = ReclaimEvents(deliveredSurfaces)
    /\ deferredTerminals' = <<>>
    /\ liveSurfaces' = {} /\ deliveredSurfaces' = <<>>
    /\ deliveredRegions' = [s \in Sessions |-> [g \in HostGenerations |-> 0]]
    /\ parser' = [s \in Sessions |-> "Idle"]
    /\ imported' = {} /\ heldBytes' = {}
    /\ accepted' = {} /\ ended' = {} /\ answered' = {} /\ told' = {}
    /\ UNCHANGED <<taskHostVars, commands, seen, reclaimed>>

\* pump_lifecycle_reentry and the lifecycle arms of process_reentry.  A restart
\* while tasks are outside fails with backpressure, and its command is gone.
LifecycleTurn ==
    LET r == Head(lifecycleReentries)
    IN  /\ Turn("Lifecycle")
        /\ lifecycleReentries' =
              IF r.kind = "Restart" /\ policyExternal \cup rasterExternal = {}
              THEN <<>> ELSE Tail(lifecycleReentries)
        /\ CASE r.kind = "Cancel" ->
                  IF request[r.session] = "Active" /\ Running(r.session)
                  THEN CancelRequest(r.session)
                  ELSE Acknowledge(<<Event("CancelAcknowledged", r.session)>>)
             [] r.kind = "Release" -> ReleaseSurface(r.surface)
             [] r.kind = "Close" ->
                  IF Running(r.session) THEN CloseRunning(r.session, "Explicit")
                  ELSE Acknowledge(<<Event("CloseSessionAcknowledged", r.session)>>)
             [] r.kind = "SourceChanged" ->
                  IF Running(r.session)
                  THEN CloseRunning(r.session, "SourceChanged")
                  ELSE Acknowledge(<<>>)
             [] r.kind = "Shutdown" ->
                  IF worker = "Ready" THEN DrainWorker
                  ELSE Acknowledge(<<Event("ShutdownAcknowledged", 0)>>)
             [] r.kind = "Restart" ->
                  IF policyExternal \cup rasterExternal = {}
                  THEN RestartWorker ELSE Acknowledge(<<>>)

\* fail_open_request and the Failed arm of process_open_completion.
FailOpen(s, reason, reentries) ==
    /\ request' = [request EXCEPT ![s] = "Failed"]
    /\ BeginClose(s, reason, FALSE, reentries, <<Event("RequestFailed", s)>>)
    /\ UNCHANGED <<worker, lifecycleReentries, endWorkRest>>

\* The Ready arm of process_open_completion.
CompleteOpen(s) ==
    /\ session' = [session EXCEPT ![s] = "Ready"]
    /\ request' = [request EXCEPT ![s] = "Succeeded"]
    /\ criticalEvents' = Append(criticalEvents, Event("DocumentReady", s))
    /\ UNCHANGED <<schedulerVars, worker, viewport, metrics, tickets, cached,
                   jobVars, closeVars, cancelBacklog, normalReentries,
                   lifecycleReentries, taskVars, progressEvents, deferredVars,
                   surfaceVars, outsideVars>>

\* An answer to an open that is no longer awaited, a resume token, and a result
\* of work that is no longer active are dropped.
DropReentry ==
    UNCHANGED <<schedulerVars, worker, sessionVars, jobVars, closeVars,
                cancelBacklog, normalReentries, lifecycleReentries, taskVars,
                eventVars, deferredVars, surfaceVars, outsideVars>>

\* What the work on pages leaves alone.
pageRest == <<worker, sessionVars, queuedJobs, publications, closeVars,
              cancelBacklog, normalReentries, lifecycleReentries, deferredVars,
              surfaceVars, outsideVars>>

Restage(a, b) == (active \ {a}) \cup {b}

\* CapabilityCompleted and PlanCompleted: the page waits until the host has
\* taken the event.
ReportCapability(a, supported) ==
    /\ criticalEvents' = Append(criticalEvents,
            [kind |-> "CapabilityReported", session |-> a.signal.session,
             gen |-> a.signal.gen])
    /\ active' = Restage(a, [a EXCEPT !.stage = "CapabilityQueued",
                                      !.supported = supported])
    /\ UNCHANGED <<schedulerVars, terminalJobs, pendingResources, taskVars,
                   progressEvents, pageRest>>

ReportPlan(a) ==
    /\ progressEvents' = progressEvents \cup {a.signal}
    /\ active' = Restage(a, [a EXCEPT !.stage = "PlanQueued"])
    /\ UNCHANGED <<schedulerVars, terminalJobs, pendingResources, taskVars,
                   criticalEvents, pageRest>>

\* fail_active, fail_raster_work and RasterFailed: the scheduler decides.
FailWork(a) ==
    /\ Sched!EnqueueFailure(a.signal)
    /\ active' = active \ {a}
    /\ terminalJobs' = terminalJobs \cup {a.signal}
    /\ UNCHANGED <<pendingResources, taskVars, eventVars, pageRest>>

\* allocate_resource_id
NextResource == Cardinality({d \in Works : resource[d] # "Worker"}) + 1

\* commit_completed_plan: the last page hands the work to the scheduler, as a
\* failure when one of its pages was unsupported.
CommitPage(a) ==
    IF a.page < PageCount
    THEN /\ active' = Restage(a, [a EXCEPT !.stage = "Evaluate", !.page = @ + 1,
                                           !.completed = @ + 1])
         /\ UNCHANGED <<schedulerVars, terminalJobs, pendingResources, taskVars,
                        eventVars, pageRest>>
    ELSE IF a.failed THEN FailWork(a)
    ELSE /\ Sched!EnqueueCompletion(a.signal, NextResource)
         /\ active' = active \ {a}
         /\ pendingResources' = Append(pendingResources,
                [signal |-> a.signal, resource |-> NextResource])
         /\ UNCHANGED <<terminalJobs, taskVars, eventVars, pageRest>>

CriticalReentryTurn ==
    LET r == Head(criticalReentries)
        rest == Tail(criticalReentries)
    IN  /\ Turn("CriticalReentry")
        /\ \/ /\ r.kind = "OpenReady" /\ session[r.session] = "Opening"
              /\ \/ CompleteOpen(r.session) /\ criticalReentries' = rest
                 \/ "OpenInvalid" \in Faults /\ FailOpen(r.session, "Internal", rest)
           \/ /\ r.kind = "OpenFailed" /\ session[r.session] = "Opening"
              /\ FailOpen(r.session, "OpenFailed", rest)
           \/ /\ \/ r.kind = "RangeCompleted"
                 \/ /\ r.kind \in {"OpenReady", "OpenFailed"}
                    /\ session[r.session] # "Opening"
                 \/ r.kind \in ResultKinds /\ ~ IsActive(r.signal)
              /\ DropReentry
              /\ criticalReentries' = rest
           \/ /\ r.kind \in ResultKinds
              /\ \E a \in active :
                    /\ a.signal = r.signal
                    /\ CASE r.kind = "Capability" -> ReportCapability(a, r.ok)
                         [] r.kind = "Plan" -> ReportPlan(a)
                         [] r.kind = "Raster" -> CommitPage(a)
                         [] OTHER -> FailWork(a)
              /\ criticalReentries' = rest

\* pump_normal_reentry: the range becomes a ticket the host must answer.
NormalReentryTurn ==
    LET r == Head(normalReentries)
    IN  /\ Turn("NormalReentry")
        /\ normalReentries' = Tail(normalReentries)
        /\ IF session[r.session] = "Opening"
           THEN /\ tickets' = tickets \cup {r.session}
                /\ criticalEvents' =
                        Append(criticalEvents, Event("NeedData", r.session))
           ELSE UNCHANGED <<tickets, criticalEvents>>
        /\ UNCHANGED <<schedulerVars, worker, session, viewport, request, metrics,
                       cached, jobVars, closeVars, cancelBacklog, criticalReentries,
                       lifecycleReentries, taskVars, progressEvents,
                       deferredVars, surfaceVars, outsideVars>>

\* pump_scheduler, Normal: the work becomes active at its first page.
StartWork ==
    /\ critical = <<>>
    /\ Sched!DispatchNormal
    /\ LET started == inFlight' \ inFlight
       IN  /\ queuedJobs' = queuedJobs \ started
           /\ active' = active \cup
                {[signal |-> signal, page |-> 1, stage |-> "Evaluate",
                  supported |-> TRUE, failed |-> FALSE, completed |-> 0] :
                    signal \in started}
    /\ UNCHANGED <<worker, sessionVars, terminalJobs, pendingResources,
                   publications, closeVars, cancelBacklog, reentryVars, taskVars,
                   eventVars, deferredVars, surfaceVars, outsideVars>>

\* finish_cancelled_generation and finish_failed_generation: a signal that is not
\* in flight is ignored.  owners is where the code looks for the terminal.
FinishGeneration(signal, owners, status) ==
    LET decided == signal \in inFlight
    IN  /\ terminalJobs' = IF decided THEN terminalJobs \ {signal} ELSE terminalJobs
        /\ active' = IF decided THEN {a \in active : a.signal # signal} ELSE active
        /\ criticalEvents' =
              IF decided /\ signal \in owners /\ session[signal.session] # "Closed"
              THEN Append(criticalEvents, Completed(Of(signal), status,
                        deliveredRegions[signal.session][signal.gen]))
              ELSE criticalEvents
        /\ UNCHANGED <<worker, sessionVars, queuedJobs, pendingResources,
                       publications, closeVars, cancelBacklog, reentryVars, taskVars,
                       progressEvents, deferredVars, surfaceVars, outsideVars>>

\* A completion: the batch to publish, unless the arbiter discards it.  The
\* code reports an internal error when a published resource is not pending.
FinishCompletion(signal, d) ==
    LET found == SelectSeq(pendingResources, LAMBDA p : p.resource = d)
    IN  /\ pendingResources' = SelectSeq(pendingResources,
                LAMBDA p : p.resource # d)
        /\ publications' = IF Sched!Publishes(signal) /\ found # <<>>
              THEN Append(publications, [signal |-> signal, plan |-> 1, tile |-> 1,
                    staged |-> <<>>, produced |-> 0, stagingComplete |-> FALSE])
              ELSE publications
        /\ UNCHANGED <<worker, sessionVars, queuedJobs, active, terminalJobs,
                       closeVars, cancelBacklog, reentryVars, taskVars,
                       eventVars, deferredVars, surfaceVars, outsideVars>>

\* cleanup_session for the sessions S: what is left of them goes.
Cleanup(S) ==
    /\ session' = [s \in Sessions |-> IF s \in S THEN "Closed" ELSE session[s]]
    /\ tickets' = tickets \ S
    /\ cached' = {c \in cached : c.session \notin S}
    /\ queuedJobs' = {j \in queuedJobs : j.session \notin S}
    /\ terminalJobs' = {j \in terminalJobs : j.session \notin S}
    /\ pendingResources' = SelectSeq(pendingResources,
            LAMBDA p : p.signal.session \notin S)
    /\ publications' = SelectSeq(publications,
            LAMBDA b : b.signal.session \notin S)
    /\ progressEvents' = {e \in progressEvents : e.session \notin S}
    /\ liveSurfaces' = {d \in liveSurfaces : d.session \notin S}

\* An open request still unanswered is answered by the close.
RequestOutcome(reason) ==
    IF reason \in {"Explicit", "Cancelled"} THEN "Cancelled" ELSE "Failed"

RequestAnswer(s, reason) ==
    IF request[s] # "Active" THEN <<>>
    ELSE <<Event(IF RequestOutcome(reason) = "Cancelled" THEN "RequestCancelled"
                 ELSE "RequestFailed", s)>>

\* The close marker: every terminal of the session, then SessionClosed.
FinishClose(c) ==
    LET s == c.session
    IN  /\ Cleanup({s})
        /\ request' = [request EXCEPT ![s] =
                IF @ = "Active" THEN RequestOutcome(c.reason) ELSE @]
        /\ criticalEvents' =
                PurgeClosed(criticalEvents \o SupersededAll(c.terminals), {s})
                \o RequestAnswer(s, c.reason)
                \o (IF c.explicit
                    THEN <<Event("CloseSessionAcknowledged", s)>> ELSE <<>>)
                \o <<Event("SessionClosed", s)>>
        /\ pendingCloses' = pendingCloses \ {c}
        /\ UNCHANGED <<worker, viewport, metrics, active, closeBacklog, shutdown,
                       shutdownTerminals, cancelBacklog, reentryVars, taskVars,
                       deferredVars, deliveredSurfaces, outsideVars>>

\* The shutdown marker closes every session that is left, without SessionClosed.
FinishSessions ==
    LET S == {s \in Sessions : session[s] \notin {"None", "Closed"}}
    IN  /\ Cleanup(S)
        /\ request' = [s \in Sessions |-> IF s \in S /\ request[s] = "Active"
                                          THEN "Cancelled" ELSE request[s]]
        /\ criticalEvents' =
                PurgeClosed(criticalEvents \o SupersededAll(shutdownTerminals), S)
                \o FlattenSeq([s \in Sessions |->
                        IF s \in S THEN RequestAnswer(s, "Cancelled") ELSE <<>>])
                \o <<Event("ShutdownAcknowledged", 0)>>
        /\ normalReentries' = <<>> /\ criticalReentries' = <<>>
        /\ closeBacklog' = <<>> /\ pendingCloses' = {}
        /\ shutdownTerminals' = <<>> /\ shutdown' = "None"
        /\ UNCHANGED <<worker, viewport, metrics, active, cancelBacklog,
                       lifecycleReentries, taskVars, deferredVars,
                       deliveredSurfaces, outsideVars>>

\* process_scheduler_critical
DecideCritical ==
    LET event == Head(critical)
    IN  /\ Sched!DispatchCritical
        /\ \/ /\ event.kind = "Cancel"
              /\ FinishGeneration(event.signal, terminalJobs, "Superseded")
           \/ /\ event.kind = "Failure"
              /\ FinishGeneration(event.signal,
                    terminalJobs \cup {a.signal : a \in active}, "Failed")
           \/ /\ event.kind = "Completion"
              /\ FinishCompletion(event.signal, event.resource)
           \/ /\ event.kind = "Close"
              /\ \E c \in pendingCloses :
                    c.session = event.session /\ FinishClose(c)
           \/ event.kind = "Shutdown" /\ FinishSessions

SchedulerTurn ==
    /\ Turn("Scheduler")
    /\ StartWork \/ DecideCritical

\* What publishing leaves alone.
publicationRest == <<schedulerVars, worker, viewport, request, metrics, tickets,
                     queuedJobs, pendingCloses, shutdown, shutdownTerminals,
                     lifecycleReentries, deferredTerminals, outsideVars>>
publicationIdle == <<session, active, terminalJobs, pendingResources, closeBacklog,
                     cancelBacklog, normalReentries, criticalReentries, taskVars,
                     progressEvents, pendingReclaims, deliveredSurfaces>>

\* publish_tile admits the tile to the session's cache, before it is known that
\* a surface can be had; with its last tile the page can be found there.
CacheTile(b) ==
    IF b.tile < TileCount THEN cached
    ELSE cached \cup {[session |-> b.signal.session, page |-> b.plan]}

\* publish_surface: allocate, write, publish and transfer one tile.
PublishTile(b, d) ==
    /\ Cardinality(liveSurfaces) < MaxLiveSurfaces
    /\ liveSurfaces' = liveSurfaces \cup {d}
    /\ publications' = <<[b EXCEPT !.staged = Append(@, d), !.tile = @ + 1,
                                   !.produced = @ + 1]>> \o Tail(publications)
    /\ cached' = CacheTile(b)
    /\ UNCHANGED <<criticalEvents, publicationRest, publicationIdle>>

FailedTerminal(b) ==
    Completed(Of(b.signal), "Failed",
              deliveredRegions[b.signal.session][b.signal.gen])

\* No surface to allocate: the staged ones are given back, the generation fails.
PublishExhausted(b) ==
    /\ Cardinality(liveSurfaces) = MaxLiveSurfaces
    /\ liveSurfaces' = liveSurfaces \ ToSet(b.staged)
    /\ criticalEvents' = Append(criticalEvents, FailedTerminal(b))
    /\ publications' = Tail(publications)
    /\ cached' = CacheTile(b)
    /\ UNCHANGED <<publicationRest, publicationIdle>>

\* A tile that is not the planned one: the session is closed as well.
PublishMismatch(b) ==
    LET s == b.signal.session
    IN  /\ "Mismatch" \in Faults
        /\ EndWork({s}, criticalReentries)
        /\ criticalEvents' =
                Append(PurgeClosed(criticalEvents, {s}), FailedTerminal(b))
        /\ closeBacklog' = Append(closeBacklog,
                [session |-> s, reason |-> "Internal", explicit |-> FALSE,
                 terminals |-> SelectSeq(FinishedOf({s}),
                                         LAMBDA c : c # Of(b.signal))])
        /\ UNCHANGED <<cached, publicationRest>>

\* pump_publication.  Every tile is staged before the first one is announced;
\* then one event a turn, the terminal last.
PublicationTurn ==
    LET b == Head(publications)
        s == b.signal.session
        current == session[s] = "Ready" /\ viewport[s] = b.signal.gen
        step(c) == publications' = <<c>> \o Tail(publications)
    IN  /\ Turn("Publication")
        /\ EventSpace(1)
        /\ IF ~ current
           THEN /\ liveSurfaces' = liveSurfaces \ ToSet(b.staged)
                /\ publications' = Tail(publications)
                /\ UNCHANGED <<criticalEvents, cached, publicationRest, publicationIdle>>
           ELSE \/ /\ ~ b.stagingComplete /\ b.plan > PageCount
                   /\ step([b EXCEPT !.stagingComplete = TRUE])
                   /\ UNCHANGED <<criticalEvents, liveSurfaces, cached,
                                  publicationRest, publicationIdle>>
                \/ /\ ~ b.stagingComplete /\ b.plan <= PageCount
                   /\ b.tile > TileCount
                   /\ step([b EXCEPT !.plan = @ + 1, !.tile = 1])
                   /\ UNCHANGED <<criticalEvents, liveSurfaces, cached,
                                  publicationRest, publicationIdle>>
                \/ /\ ~ b.stagingComplete /\ b.plan <= PageCount
                   /\ b.tile <= TileCount
                   /\ \/ PublishTile(b, [epoch |-> epoch, session |-> s,
                            gen |-> b.signal.gen, page |-> b.plan, tile |-> b.tile])
                      \/ PublishExhausted(b)
                      \/ PublishMismatch(b)
                \/ /\ b.stagingComplete /\ b.staged # <<>>
                   /\ criticalEvents' = Append(criticalEvents,
                            SurfaceEvent("SurfaceReady", Head(b.staged)))
                   /\ step([b EXCEPT !.staged = Tail(@)])
                   /\ UNCHANGED <<liveSurfaces, cached, publicationRest,
                                  publicationIdle>>
                \/ /\ b.stagingComplete /\ b.staged = <<>>
                   /\ criticalEvents' = Append(criticalEvents,
                            Completed(Of(b.signal), "Completed", b.produced))
                   /\ publications' = Tail(publications)
                   /\ UNCHANGED <<liveSurfaces, cached, publicationRest,
                                  publicationIdle>>

-----------------------------------------------------------------------------
(* pump_active: the runnable work of the lowest identity, and only it.     *)

Foremost(a) == a \in Runnable /\ \A b \in Runnable : a.signal.work <= b.signal.work

\* evaluate_active
Evaluate(a) ==
    /\ a.stage = "Evaluate"
    /\ Len(policyTasks) < ReentryCapacity
    /\ PolicyUsed < PolicyCapacity
    /\ policyTasks' = Append(policyTasks, Result("Capability", a.signal, TRUE))
    /\ active' = Restage(a, [a EXCEPT !.stage = "CapabilityPending"])
    /\ UNCHANGED <<schedulerVars, terminalJobs, pendingResources, rasterTasks,
                   eventVars, criticalReentries, pageRest>>

\* plan_active of an unsupported page: skipped, or the end of the work.
SkipPage(a) ==
    /\ a.stage = "CapabilityDelivered" /\ ~ a.supported
    /\ Len(policyTasks) < ReentryCapacity
    /\ IF a.page < PageCount
       THEN /\ active' = Restage(a, [a EXCEPT !.stage = "Evaluate", !.page = @ + 1,
                                              !.failed = TRUE])
            /\ UNCHANGED <<schedulerVars, terminalJobs, pendingResources,
                           taskVars, eventVars, pageRest>>
       ELSE FailWork(a)
    /\ UNCHANGED criticalReentries

\* plan_active of a supported page.
Plan(a) ==
    /\ a.stage = "CapabilityDelivered" /\ a.supported
    /\ Len(policyTasks) < ReentryCapacity
    /\ policyTasks' = Append(policyTasks, Result("Plan", a.signal, TRUE))
    /\ active' = Restage(a, [a EXCEPT !.stage = "PlanPending"])
    /\ UNCHANGED <<schedulerVars, terminalJobs, pendingResources, rasterTasks,
                   eventVars, criticalReentries, pageRest>>

\* plan_active when the command has no render plan: fail_active, which with a
\* full scheduler leaves the page to be evaluated again.
PlanInvalid(a) ==
    /\ "InvalidPlan" \in Faults
    /\ a.stage = "CapabilityDelivered" /\ a.supported
    /\ Len(policyTasks) < ReentryCapacity
    /\ IF SchedulerSpace THEN FailWork(a)
       ELSE /\ active' = Restage(a, [a EXCEPT !.stage = "Evaluate"])
            /\ UNCHANGED <<schedulerVars, terminalJobs, pendingResources,
                           taskVars, eventVars, pageRest>>
    /\ UNCHANGED criticalReentries

\* raster_active reserves the bytes of a task, gives the policy permit back and
\* looks the page up in the cache; cache_active looks again.  Whether a cached
\* page is found depends on its geometry and on what the cache has retained.  A
\* lookup takes one turn or several, and what intervenes may end the work.
DispatchRaster(a) ==
    /\ rasterTasks' = Append(rasterTasks, Result("Raster", a.signal, TRUE))
    /\ active' = Restage(a, [a EXCEPT !.stage = "RasterPending"])
    /\ UNCHANGED <<schedulerVars, terminalJobs, pendingResources, policyTasks,
                   eventVars, pageRest>>

CacheHit(a) ==
    /\ [session |-> a.signal.session, page |-> a.page] \in cached
    /\ \/ /\ a.stage = "PlanDelivered"
          /\ active' = Restage(a, [a EXCEPT !.stage = "CacheLookup"])
          /\ UNCHANGED <<schedulerVars, terminalJobs, pendingResources,
                         taskVars, eventVars, pageRest>>
       \/ /\ a.page = PageCount => SchedulerSpace
          /\ NeedsResource(a) => ResourceSpace
          /\ CommitPage(a)

\* Mutant of Raster: the reservation is not checked against the budget.
RasterMutant(a) ==
    /\ a.stage \in {"PlanDelivered", "CacheLookup"}
    /\ a.stage = "PlanDelivered" => Len(rasterTasks) < ReentryCapacity
    /\ \/ Len(rasterTasks) < ReentryCapacity /\ DispatchRaster(a)
       \/ CacheHit(a)
    /\ UNCHANGED criticalReentries

Raster(a) ==
    /\ a.stage \in {"PlanDelivered", "CacheLookup"}
    /\ a.stage = "PlanDelivered" =>
          Len(rasterTasks) < ReentryCapacity /\ RasterUsed + 2 <= RasterCapacity
    /\ \/ Len(rasterTasks) < ReentryCapacity /\ DispatchRaster(a)
       \/ CacheHit(a)
    /\ UNCHANGED criticalReentries

ActiveTurn ==
    /\ Turn("Active")
    /\ \E a \in Runnable :
          /\ Foremost(a)
          /\ Evaluate(a) \/ SkipPage(a) \/ Plan(a) \/ PlanInvalid(a) \/ Raster(a)

\* Mutant of Drained: tasks and copies outside the worker are not awaited.
DrainedMutant == cancelBacklog = <<>>

\* Nothing the worker handed out is still charged to it.
Drained == cancelBacklog = <<>> /\ PolicyUsed = 0 /\ RasterUsed = 0

\* The end of pump.  try_finish_shutdown succeeds once; when the event queue is
\* full at that moment the worker is not stopped.
FinishTurn ==
    /\ Turn("Finish")
    /\ Drained
    /\ Sched!TryFinishShutdown
    /\ IF EventSpace(1)
       THEN /\ worker' = "Stopped"
            /\ criticalEvents' = Append(criticalEvents, Event("WorkerStopped", 0))
       ELSE UNCHANGED <<worker, criticalEvents>>
    /\ UNCHANGED <<sessionVars, jobVars, closeVars, cancelBacklog, reentryVars,
                   taskVars, progressEvents, deferredVars, surfaceVars,
                   outsideVars>>

Pump ==
    \/ SurfaceEventTurn \/ CancelBacklogTurn \/ CloseBacklogTurn
    \/ ShutdownAdmissionTurn \/ LifecycleTurn \/ CriticalReentryTurn
    \/ SchedulerTurn \/ PublicationTurn \/ ActiveTurn \/ NormalReentryTurn
    \/ FinishTurn

\* What the host does without end: it takes events and runs tasks.
NextEvent == NextCriticalEvent \/ NextProgressEvent

Execute ==
    \/ TakePolicyTask \/ TakeRasterTask
    \/ \E task \in policyExternal \cup rasterExternal : FinishTask(task)

Next ==
    \/ Pump
    \/ NextEvent
    \/ Execute
    \/ \E s \in Sessions :
          \/ Open(s) \/ PostNeedData(s) \/ ProvideData(s) \/ SourceChanged(s)
          \/ GetPageMetrics(s)
          \/ \E outcome \in {"OpenReady", "OpenFailed"} : PostOpen(s, outcome)
          \/ \E g \in HostGenerations : SetViewport(s, g)
    \/ \E reentry \in LifecycleCommands : Command(reentry)
    \/ \E d \in seen : ImportSurface(d) \/ DropImport(d) \/ ReclaimUndelivered(d)

Spec == Init /\ [][Next]_vars

\* The host keeps calling pump and taking events, its executors finish what they
\* started, requests for data are answered, the parser of a session comes to an
\* end, and copies are dropped.
FairSpec ==
    /\ Spec
    /\ WF_vars(Pump) /\ WF_vars(NextEvent) /\ WF_vars(Execute)
    /\ \A s \in Sessions :
          /\ WF_vars(PostOpen(s, "OpenReady") \/ PostOpen(s, "OpenFailed"))
          /\ WF_vars(ProvideData(s) \/ SourceChanged(s))
    /\ WF_vars(\E d \in Surfaces : DropImport(d))

-----------------------------------------------------------------------------
(* Properties.                                                             *)

Correlations == [session : Sessions, gen : HostGenerations]

\* The variables of the worker hold what their types in registry.rs allow, and the
\* scheduler it drives is in one of its own states.
TypeOK ==
    /\ Sched!TypeOK
    /\ worker \in {"Ready", "Draining", "Stopped"}
    /\ epoch \in 1..(MaxRestarts + 1)
    /\ session \in [Sessions -> {"None", "Opening", "Ready", "Closing", "Closed"}]
    /\ viewport \in [Sessions -> HostGenerations \cup {0}]
    /\ request \in [Sessions -> {"None", "Active", "Succeeded", "Failed", "Cancelled"}]
    /\ tickets \subseteq Sessions
    /\ shutdown \in {"None", "Pending", "Admitted"}
    /\ liveSurfaces \subseteq Surfaces
    /\ seen \subseteq Surfaces
    /\ ended \subseteq accepted /\ accepted \subseteq Correlations

Count(seq, Test(_)) == Cardinality({i \in DOMAIN seq : Test(seq[i])})
One(condition) == IF condition THEN 1 ELSE 0

\* Every generation that set_viewport accepted is held by exactly one of the
\* worker's tables and queues until its GenerationCompleted is delivered, and after
\* that by none: no terminal is lost, and none is sent twice.
GenerationHasOneOwner ==
    \A c \in accepted :
        LET is(x) == Of(x) = c
            of(x) == Of(x.signal) = c
            ends(e) == e.kind = "GenerationCompleted" /\ Of(e) = c
            same(x) == x = c
            closing(x) == Contains(x.terminals, c)
        IN    Cardinality({j \in queuedJobs \cup terminalJobs : is(j)})
            + Cardinality({a \in active : of(a)})
            + Count(pendingResources, of) + Count(publications, of)
            + Count(closeBacklog, closing)
            + Cardinality({x \in pendingCloses : closing(x)})
            + Count(shutdownTerminals, same) + Count(deferredTerminals, same)
            + Count(criticalEvents, ends) + One(c \in ended)
            = 1

\* The request of an open is answered exactly once, by DocumentReady,
\* RequestFailed or RequestCancelled, whatever closes the session.
OpenHasOneOutcome ==
    \A s \in Sessions : session[s] # "None" =>
        LET answers(e) == e.session = s /\ e.kind \in
                            {"DocumentReady", "RequestFailed", "RequestCancelled"}
        IN  One(request[s] = "Active") + Count(criticalEvents, answers)
                + One(s \in answered) = 1

\* A lease handed to the host is either still held or on its way back to it as
\* one SurfaceReclaimed; no replacement, close, release, shutdown or restart
\* loses it, and none reports a lease the host never had.
LeaseHasOneOwner ==
    /\ reclaimed \subseteq seen
    /\ \A d \in seen :
          LET reclaims(e) == e.kind = "SurfaceReclaimed" /\ e.surface = d
              same(x) == x = d
          IN  Count(deliveredSurfaces, same) + Count(pendingReclaims, reclaims)
                  + Count(criticalEvents, reclaims) + One(d \in reclaimed) = 1

QueuedSurfaces ==
    {criticalEvents[i].surface : i \in {j \in DOMAIN criticalEvents :
        criticalEvents[j].kind = "SurfaceReady"}}

StagedSurfaces == UNION {ToSet(publications[i].staged) : i \in DOMAIN publications}

\* A surface the SurfaceOwner holds is staged, announced or leased, and these are
\* live: none leaks.  The announced and leased ones are of the current viewport of
\* a Ready session: the host is never shown one that was replaced or closed.
SurfacesAreAccounted ==
    LET shown == QueuedSurfaces \cup ToSet(deliveredSurfaces)
    IN  /\ liveSurfaces = StagedSurfaces \cup shown
        /\ \A d \in shown : /\ d.epoch = epoch /\ session[d.session] = "Ready"
                            /\ viewport[d.session] = d.gen

\* The produced_regions a GenerationCompleted will be delivered with is the number
\* of surfaces the host will have received by then (the assertion of next_event).
RegionsAgree ==
    \A i \in DOMAIN criticalEvents :
        LET e == criticalEvents[i]
            earlier(f) == f.kind = "SurfaceReady" /\ Of(f) = Of(e)
        IN  e.kind = "GenerationCompleted" =>
                e.regions = deliveredRegions[e.session][e.gen]
                            + Count(SubSeq(criticalEvents, 1, i), earlier)

Acknowledgements == {"CancelAcknowledged", "CloseSessionAcknowledged",
                     "SurfaceReleaseAcknowledged"}

\* Once SessionClosed is queued the worker holds nothing of the session, and
\* after it the host hears only acknowledgements of its own late commands.
ClosedSessionIsSilent ==
    /\ \A i \in DOMAIN criticalEvents :
          LET e == criticalEvents[i]
          IN  \/ e.kind \in Acknowledgements \cup {"SessionClosed"}
              \/ e.kind = "SurfaceReclaimed" /\ e.surface.epoch # epoch
              \/ /\ e.session \notin told
                 /\ \A j \in 1..(i - 1) : criticalEvents[j] # Event("SessionClosed",
                                                                    e.session)
    /\ \A s \in Sessions : session[s] = "Closed" =>
          /\ \A d \in liveSurfaces : d.session # s
          /\ \A j \in queuedJobs \cup terminalJobs : j.session # s
          /\ \A a \in active : a.signal.session # s
          /\ \A i \in DOMAIN pendingResources : pendingResources[i].signal.session # s
          /\ \A i \in DOMAIN publications : publications[i].signal.session # s
          /\ s \notin tickets

\* A session whose close was accepted publishes nothing more: a completion that is
\* still queued in the scheduler is discarded.
ClosingWorkIsDiscarded ==
    Turn("Scheduler") /\ critical # <<>> /\ Head(critical).kind = "Completion" =>
        \/ session[Head(critical).signal.session] = "Ready"
        \/ ~ Sched!Publishes(Head(critical).signal)

\* What set_viewport checks is enough: the scheduler never rejects the work after
\* its generation has been advanced.
SubmitNeverRejected ==
    \A s \in Sessions, g \in HostGenerations :
        MaySetViewport(s, g) => ENABLED SetViewport(s, g)

\* The scheduler takes the signals of the backlogs, and what it dispatches is where
\* the worker expects it.
PumpNeverFails ==
    /\ Turn("CloseBacklog") => sessionPhase[Head(closeBacklog).session] = "Open"
    /\ Turn("CancelBacklog") =>
          sessionPhase[Head(cancelBacklog).session] # "Unregistered"
    /\ Turn("Scheduler") /\ critical # <<>> =>
          LET event == Head(critical)
          IN  /\ event.kind = "Close" =>
                    \E c \in pendingCloses : c.session = event.session
              /\ event.kind = "Completion" /\ Sched!Publishes(event.signal) =>
                    \E i \in DOMAIN pendingResources :
                        pendingResources[i].resource = event.resource

\* No call ends in an internal error, half done: no turn of the pump, and no
\* set_viewport that passed its checks.
NoInternalError == PumpNeverFails /\ SubmitNeverRejected

\* The variables have their types, the queues stay within the capacities their
\* assertions name, and the byte budgets of tasks and results are never overdrawn.
QueuesFit ==
    /\ TypeOK
    /\ Len(criticalEvents) <= EventCapacity
    /\ Len(deferredTerminals) <= ReentryCapacity
    /\ Len(pendingReclaims) <= MaxLiveSurfaces
    /\ Len(cancelBacklog) <= InFlightCapacity
    /\ Len(pendingResources) + Len(publications) <= PendingResourceCapacity
    /\ PolicyUsed <= PolicyCapacity
    /\ RasterUsed <= RasterCapacity

\* A worker that reports WorkerStopped has given everything back, and every
\* accepted generation has its terminal at least queued.
StoppedIsClean ==
    worker = "Stopped" =>
        /\ liveSurfaces = {} /\ active = {} /\ queuedJobs = {}
        /\ policyExternal = {} /\ rasterExternal = {} /\ heldBytes = {}
        /\ \A s \in Sessions : session[s] \in {"None", "Closed"} /\ request[s] # "Active"
        /\ \A c \in accepted \ ended : \E i \in DOMAIN criticalEvents :
              criticalEvents[i].kind = "GenerationCompleted" /\ Of(criticalEvents[i]) = c

\* Whatever ends a session or the worker leaves nothing of it behind, and says
\* nothing of it afterwards.
EndsAreClean == ClosedSessionIsSilent /\ StoppedIsClean

\* Every accepted generation eventually gets its GenerationCompleted, unless the
\* worker is restarted.
GenerationEnds ==
    \A s \in Sessions, g \in HostGenerations :
        LET c == [session |-> s, gen |-> g]
        IN  c \in accepted ~> c \in ended \/ c \notin accepted

\* Every open eventually gets its one answer, unless the worker is restarted.
OpenEnds ==
    \A s \in Sessions :
        request[s] = "Active" ~> s \in answered \/ session[s] = "None"

\* Every command that was accepted with a promise of an answer gets it.
AcceptedEnds == GenerationEnds /\ OpenEnds

\* A worker that drains eventually stops.
DrainEnds == worker = "Draining" ~> worker # "Draining"
=============================================================================
