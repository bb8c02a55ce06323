# PDF.rs runtime: TLA+ models, checks and proofs

PDF.rs renders PDF documents behind a worker protocol. Its parsers, interpreter
and rasterizers are sequential code over bytes and pixels. What makes the system
hard is the *runtime* around them: a scheduler that admits, orders, cancels and
publishes work; an owner of pixel surfaces whose leases outlive the renderer, the
generation and the worker; a store of source bytes that suspends jobs on missing
ranges while host threads deliver them; the session that opens and serves a
document over that store; the ledger of data tickets; and the native worker that
puts all of it together behind commands and events. These parts are modelled
here, checked by TLC and, for the properties that matter most, proved with TLAPS
for every value of the constants.

## 1. The system and its parts

`PROJECT.json` lists every part with its source files and status. In short:

| part | source | status |
|---|---|---|
| viewport scheduler and work arbiter | `runtime/scheduler/src/{scheduler,work,arbiter}.rs` | modelled: `Scheduler` |
| surface owner | `runtime/surface/src/owner.rs` | modelled: `SurfaceOwner` |
| range store | `pdf-rs/bytes/src/{store,source,range}.rs` | modelled: `RangeStore`, and what it promises: `TicketStore` |
| range resume arbiter | `runtime/session/src/range_resume.rs` | modelled but for one test-only call: `RangeResume` |
| strict open coordinator and job owner, M1 session | `runtime/session/src/` | modelled: `DocumentSession` |
| data ticket ledger | `runtime/protocol/src/data_ticket.rs` | modelled: `DataTicketLedger` |
| engine registry | `runtime/engine/src/registry.rs` | modelled in the main: `NativeWorker` |
| tile cache, derived-data cache, range coalescer, policy, codec, viewer | | not modelled, see section 8 |
| desktop and browser hosts, process spawn, clients, tools | | not modelled, see section 8 |
| syntax, xref, document, content, scene, filters, fonts, raster, skia port | | not modelled, see section 8 |

How the parts meet. The *session* opens a document whose bytes come from a range
store. A job polls the store; a miss returns a ticket, the job suspends, the
arbiter registers it, and the job runs again once the ticket has completed
(`DocumentSession` over `RangeResume` over `TicketStore`, which `RangeStore`
implements). The *worker* (`NativeWorker`) accepts the host's commands, submits the
rendering of a viewport to the scheduler, hands policy and raster tasks to
executors, publishes what the scheduler decides to publish as surfaces, and takes
the surfaces back when generations are replaced and sessions closed. It holds the
`ViewportScheduler` itself: in the model, the module `Scheduler`, instantiated.

The session and the worker are not joined in the code under `src/` yet: the
registry drives a parser through an adapter of its own, and the session of
`m1_session.rs` is driven by whoever embeds it. The models keep them apart too.

## 2. Modules

| module | role |
|---|---|
| `Scheduler` | `ViewportScheduler` and `TerminalArbiter`: one action per public operation |
| `WorkLifecycle` | abstract specification: what becomes of one work identity |
| `SchedulerRefinement` | the refinement mapping from `Scheduler` to `WorkLifecycle` |
| `SchedulerFairness` | `Scheduler` with a history that counts how often a waiting session is bypassed |
| `SchedulerInvariant`, `SchedulerProofs`, `SchedulerTheorems` | inductive invariant, its preservation per action, the theorems |
| `SchedulerRefinementProofs` | proof that `Scheduler` implements `WorkLifecycle` |
| `SurfaceOwner` | sessions, handles, surfaces, transfer tokens and leases |
| `SurfaceOwnerInvariant`, `SurfaceOwnerProofs` | inductive invariant, one lemma per action, the history of what was handed out, the theorems |
| `TicketStore` | abstract specification: the store of source bytes as its owner sees it |
| `RangeStore` | the store with host threads, segments, polling jobs and the slices readers keep; implements `TicketStore` |
| `RangeStoreProofs` | inductive invariant, one lemma per action, the theorems |
| `RangeResume` | the arbiter over `TicketStore`, as operators on one record |
| `DocumentSession` | the session: opening, two services, cancellation, host callbacks, close |
| `DataTicketLedger`, `DataTicketLedgerProofs` | two-phase ledger of data tickets, inductive invariant and theorems |
| `NativeWorker` | the registry: commands, turns of `pump`, tasks, events, close, shutdown, restart, with `Scheduler` inside |
| `MC...` | inputs and bounds for TLC |

Each module's `map` entry in `PROJECT.json` gives, per definition, the lines it
stands for.

### Conventions

* A call the code rejects without changing anything is a stuttering step; the
  conditions under which it is rejected are the guard of the action.
* Checked counters (`checked_add` that ends in an error) stop at `CounterMax`;
  the last value is used and the next call is rejected, as in the code.
* Allocation failures, lock poisoning, logging and error wording are left out.
* Operators named `...Mutant`, or by the fault they contain, stand before the
  definition they alter. They are the sensitivity tests of the properties:
  replacing the definition by the variant makes TLC report a violation. No
  specification uses them.

### Scheduler

State: the phase, the virtual tick and the three order counters; per session its
phase, generation, number of queued entries and last service turn; the normal
queue; the critical FIFO; the arbiter's table of work in flight and the set of
work identities ever admitted; who owns each completed resource; and, as history,
the publications the host was told to make. The normal queue is a set, because the
code searches it by identity and by key and orders it by `SchedulingKey`, never by
position; the order of enqueuing is part of the key. The critical queue is a
sequence. Geometry inside a key is a rank.

Every public operation is an action: `RegisterSession`, `AdvanceTick`,
`AdvanceGeneration`, `Submit...` (coalescing with a queued entry under the same key,
enqueuing, or a rejection that has already advanced the generation), the four ways
to enqueue a critical event, `CloseSession`, `BeginShutdown`, `DispatchCritical`,
`DispatchNormal` and `TryFinishShutdown`. A dispatch looks at the critical queue
first, and the effect of the event it takes is part of the same step. `dispatch_next`
has `InvariantViolation` results for an entry that cannot be started;
`DispatchNeverFails` shows them unreachable, so the model has no error state.

### SurfaceOwner

State: worker, epoch and renderer; the clock; sessions with their generation;
handles, surfaces, transfer tokens and imports; the retired surfaces with
their reason. Clients may present anything ever issued to
them, at any time and to any later epoch, so the model keeps what was handed out as
a history. Pixel content is one value per surface, written before transfer, so that
`AcquireIsFaithful` can tell one allocation from another. Layout arithmetic
(`layout_for`) is modelled with its bounds.

### RangeStore and TicketStore

State of `RangeStore`: the source-changed flag and the resident counter, the two
atomics read outside the lock; the store under its lock (length, segments with bytes
and backing, tickets with missing ranges and subscribers, subscription count); the
program counter of every host thread; the slices readers still hold; and a history
of who was told to wait.

`supply` is four steps, split at the atomics: admission, plan, coalescing, commit.
`signal_source_changed` is two: it raises the flag, then waits for the lock.
All other operations take the lock for their whole effect and are single steps at
their flag check. Segments keep their bytes, because a response that contradicts
the cache is a source change.

`TicketStore` is the same store without threads, segments and limits: which offsets
are known, the length, and the tickets with their missing offsets, phases and
subscribers. `Promise` in `RangeStore` is the refinement mapping. A supply takes
effect at its commit, a source change at its flag: a ticket that is still pending
under a raised flag already counts as ended, since every operation synchronizes with
the flag before it looks.

### RangeResume and DocumentSession

`RangeResume` is the arbiter of `range_resume.rs` as a record: the store, the
registrations by ticket, the ordered stream of permits, its counters and its phase.
Its operations are functions of that record, so that a session's action can apply
several of them in one step. `finish_store_update` is the important one: it compares
the tickets before and after a store call, turns each that ended into one permit per
waiter in order, and settles counters.

`DocumentSession` composes the coordinator, the job owner and the session itself. The
session is one actor and each method is one action: `RunOne` (a turn, which polls at
most one job), the two requests, cancellation, the host callbacks (bytes, failed data,
length observation, source change) and `Close`. A job is the sequence of offset sets
it reads and its checkpoint is the position it has reached; a poll may fail at any
time, for the parser, a limit, the end of file or a cancelled token. A turn first
attaches the queued permits to the slots that wait for exactly them, then runs one
runnable service, in turn. Sequence numbers of permits are positions in the stream.
The registration limit is chosen from `Limits`; construction of the value cache at the
end of opening may fail. One generation is modelled: calls with a stale one are
rejected and change nothing. A response that states no length contradicts a length
already bound, as in the code. The contents of close reports are left out.

### DataTicketLedger

State: which ledger this is, the binding of each session to its source, the
outstanding tickets with their epochs, and the completions callers hold. Preparing an
answer changes nothing, except that a source change blocks its session; committing
ends the ticket. The caller holds the completion by value in between, so the model
never takes one away: it may be committed late, twice, after a close and a new
binding, or to the ledger of a restarted registry (`Replace`), whose epochs begin at
one again. The registry prepares and commits in one call, so `NativeWorker` keeps only
which sessions have a ticket.

### NativeWorker

The registry is a single-writer actor. The host issues commands, takes tasks and hands
back their results, takes events, and calls `pump`, which runs at most one turn. Every
command and every kind of turn is an action, and `Turn` decides in the order of the
code which turn the next `pump` runs. An idle `pump` and a rejected command stutter.

* The *scheduler* is the module `Scheduler`: a turn that submits, cancels, closes or
  dispatches takes the scheduler's own step, with its own capacities.
* Of the *surface owner* the registry uses which surfaces are live; leases, tokens and
  layouts are `SurfaceOwner`'s subject.
* *Work* moves through `queuedJobs`, `active`, `terminalJobs`, `pendingResources` and
  `publications`, named after the registry's tables. A page of a generation waits for
  its policy job, its plan, its raster task and its turn to publish.
* *Budgets*: a raster task reserves two units, its working bytes and its result, and a
  finished page keeps one. Events, reentries and lifecycle commands have the capacities
  of `NativeWorkerConfig`; `ConfigAssumption` is what its constructor validates.
* The *tile cache* is which pages of a session were put into it. A lookup may still miss
  (eviction) and takes one turn or several. A tile is cached before it is known whether
  its surface can be allocated.
* *Restart* drops everything of the epoch, begins work, session and resource identities
  at one again, and takes all leases back. It is popped and lost while tasks are with
  executors, as in the code.
* `set_viewport` takes effect even where the scheduler would reject the work after the
  generation was advanced; `SubmitNeverRejected` shows that it never does.
* The host is limited by `Commands`, `MaxCommands`, `MaxRestarts` and `Faults`, which
  name the kinds of commands and of failures a run looks at.

Left out: validation of message contents, page geometry, the retained-scene byte
limit and policy deadlines.

## 3. Runs

Every run is one question. All but the three marked *violation* must pass, and all
run with `tlc -config <cfg> <module>`.

**scheduler_lifecycle** (`MCScheduler`, `SchedulerLifecycle.cfg`). Two generations, a
work identity submitted again under the newer one, a key replaced while queued, one
slot in flight, two critical slots; about 300,000 states.

* `QueueIsSound`: types, counters, capacities, currency of what is queued and
  uniqueness of identities, through every order of calls;
* `DispatchNeverFails`: the selected entry can always be started;
* `ResourceOwnership`: a completed resource is carried by exactly one critical event
  until it is decided;
* `ImplementsWorkLifecycle`: refinement of `WorkLifecycle`; nothing is revived,
  duplicated or published stale, however late an event is;
* `Progress`, under fairness: a shutdown terminates and every resource is decided.

**scheduler_fairness** (`MCSchedulerFairness`, `SchedulerFairness.cfg`). Three sessions of
unequal priority with room for several entries each; 212,000 states.

* `ReservedAdmission`: what one session queues never takes the slots reserved for another;
* `BoundedBypass`: no session with queued work is passed over more than
  `FairnessBurst + MaxSessions - 2` times;
* `CappedWorkIsFifo`: work that reached the aging cap goes first, oldest first. This is the
  comment at `work.rs:134` and needs at least as many aging steps as there are priorities
  to climb, which the engine configures (four). `SchedulerLimits` accepts fewer, and then
  capped work of a higher base priority overtakes older capped work.

**surface_lifecycle** (`MCSurfaceOwner`, `SurfaceLifecycle.cfg`). Two sessions, two
generations, two surfaces, layouts on both sides of every bound of `layout_for`, and three
epochs that reuse worker, renderer, surface, lease and token values; one million states.

* `HandleOwnership`: surfaces and handles agree, so the `expect` calls cannot fail, and a
  transfer presented twice is imported once;
* `LiveIsCurrent`: nothing expired, replaced, closed or restarted away is live;
* `EveryReleaseIsAnswered`: whoever was handed an access can release it any number of times;
* `AcquireIsFaithful`: an old access or token never opens a new surface.

**range_tickets** (`MCRangeStore`, `RangeTickets.cfg`). Two jobs with two checkpoints read a
source of unknown length, subscribe, leave and are taken, while responses overlap, touch,
split a waiting range, make two waits equal, bind the length, exceed a limit or contradict the
cache; 163,000 states.

* `StoreIsSound`: cache and missing lists are canonical and agree with the set of offsets
  that are really there, which is the reference for the range algorithms (sorting,
  coalescing, subtraction); the counts are exact;
* `ReadyIsReadable`: a completed ticket is no false alarm;
* `ImplementsTicketStore`: every call is one step of the abstract store, or none.

**range_threads** (`RangeThreads.cfg`). Two host threads interleave at the atomics while
readers keep slices of replaced backings; 313,000 states. `ResidentAccounting`, `SlicesAgree`
(two revisions are never spliced together), `NoCommitAfterChange`, `ImplementsTicketStore` for
interleaved calls and, under fairness, `ChangeSettles`.

**document_session** (`MCDocumentSession`, `DocumentSession.cfg`). A session opens, serves both
services with shared and separate waits, is starved of registrations, cancelled, told of
failed tickets, lengths and source changes, and closed. Opening and one service have a read that the host may
answer in parts; 47,000 states.

* `NeverFailsClosed`: none of the internal checks that fail the session fires;
* `EveryWaitIsHeld`: store, arbiter and jobs describe the same waits;
* `PhaseIsTrue`: the phase never hides work from the one who schedules turns by it, and
  a session that has ended holds no store;
* `ResumeMakesProgress`: an opening or a service that waits again, under another ticket, has got
  past the read it was suspended on, so no wait is ended before all its bytes are there;
* `RequestsEnd`, under fairness: opening, requests and close end.

**ticket_ledger** (`MCDataTicketLedger`, `TicketLedger.cfg`). Two sessions, reused ticket numbers,
one replaced ledger; 397,000 states. `AnsweredOnce` (a registration is ended by one commit, and a
completion of a replaced ledger ends nothing of the next), `PreparedIsExact` (a completion that still
matches by number and epoch was prepared for that very registration), `ObservedIsRecoverable`
(an observed source change can always be committed), `FailClosed` (until then nothing else wins).

**worker_lifecycle** (`MCNativeWorker`, `WorkerLifecycle.cfg`). One session, two generations of two
pages that replace one another while the host cancels, closes, releases, shuts down and
restarts, and tasks fail or finish late; 390,000 states.

* `GenerationHasOneOwner`: each accepted generation is in exactly one of ten tables and queues
  until its terminal is delivered;
* `OpenHasOneOutcome`, `LeaseHasOneOwner`: the same for the answer to an open, and for every
  lease handed to the host, also across a restart;
* `SurfacesAreAccounted`: no surface leaks and none that is shown is stale;
* `RegionsAgree`: the assertion of `next_event` on the number of regions;
* `ClosingWorkIsDiscarded`, `NoInternalError`, `EndsAreClean`.

**worker_sessions** (`WorkerSessions.cfg`). Two sessions share one policy job, one raster task, one
result slot and three surfaces, with imports, data tickets, closes and a shutdown; 89,000 states.
`QueuesFit` and, under fairness, `AcceptedEnds` and `DrainEnds`.

**worker_drain** (*violation* of `DrainEnds`). `pump` asks the scheduler whether the shutdown is
finished before it looks for event space (`registry.rs:1276-1278`). The scheduler answers yes
once. With a full event queue at that turn the answer is dropped, and `WorkerStopped` is never
queued, though the host drains its events.

**worker_close** (*violation* of `ClosingWorkIsDiscarded`). With a critical capacity of one the
slot can hold the completion of a generation when its session is closed. The close waits in the
backlog (`registry.rs:2920`), the scheduler decides to publish into the closing session, and
`pump` ends in an internal error because the resource is gone.

**worker_raster** (*violation* of `GenerationEnds`). A raster budget of exactly one task is a valid
configuration (`limits.rs:143`). With two visible pages the finished one keeps its bytes until
all pages are done and the other never gets its reservation (`registry.rs:3361`).

The passing worker runs use capacities under which these three do not happen: room for the
events of a drain, more than one critical slot, and a budget for all pages or one page a
viewport. `PROJECT.json` quotes the documents the three disagree with.

An observation that is not a disagreement with behaviour: `bytes/PROVENANCE.md:53` says that
tickets deduplicate equal remaining ranges. They do when a poll creates one; two tickets whose
ranges become equal later stay apart, and each is still resumed.

## 4. Bounds

* *Sessions, generations, epochs.* Two sessions show every effect of one on another;
  fairness needs three, so that two can alternate against the third. Two generations show
  supersession; a third repeats it. Three epochs let an identity issued in the first be
  presented two restarts later.
* *Queues.* Capacities are chosen so that shared and reserved slots run out, the critical
  queue fills, the in-flight table is full while work is queued, and a worker's result slot,
  raster budget, surfaces and events are each exhausted.
* *Counters.* `CounterMax` and `MaxEpoch` stand for `u64::MAX`; they are small, so that
  exhaustion is reached and its error path is part of the state space. `NativeWorker` uses
  a `CounterMax` that is not reached: exhaustion is the scheduler's own subject.
* *Bytes.* Five offsets hold a range on each side of, inside, touching and covering another,
  and an end of file before, at and behind it.
* *Threads.* Two host threads suffice for every pair of racing calls.
* *Host.* The worker's host issues at most two commands beyond opens and viewports
  (`MaxCommands`), of the kinds a run names; the session's at most four requests
  (`MaxRequests`).
* *Constraints.* `FewCriticalEvents` bounds events that do not take part in the ordering of the
  normal queue. `FewSurfacesAcrossRestarts`: behaviours with a restart allocate one surface per
  epoch, in one session. `FewCompletions`: one replaced ledger, two completions held at a time.
  The theorems of section 6 cover the last two without bounds.
* *Symmetry* is used only in runs of invariants and action properties, on sets whose members
  are only compared for equality.
* `CHECK_DEADLOCK FALSE` everywhere: each component is passive and may be left alone, and
  with bounded counters every behaviour comes to an end.

## 5. Fairness

* `Scheduler!FairSpec`: the host loop keeps calling `dispatch_next` and
  `try_finish_shutdown` (weak fairness), and the worker of work in flight keeps trying to
  report its result. Reporting needs strong fairness, since a full critical queue rejects the
  report and the worker retries. Nothing forces a client to submit, cancel or close.
* `RangeStore!FairSpec`: a call that has begun goes on (weak fairness of the inner steps of
  each thread). Nothing forces a host to call again.
* `DocumentSession!FairSpec`: turns are given, but only while the phase is not
  `WaitingForData`, which is what the phase is for; and the host answers the tickets it was told
  of, or gives them up.
* `NativeWorker!FairSpec`: the host keeps calling `pump` and taking events, its executors finish
  what they started, parsers end, requests for data are answered, copies of surfaces are
  dropped. Nothing forces a command.

## 6. Proofs

The theorems hold for every value of the constants. They rest on the named assumptions of
the modules, which say what the limit constructors of the code validate
(`LimitsAssumption`, `SurfaceAssumption`) or what the type of an input says
(`InputAssumption`); the proofs about `RangeStore` and `DataTicketLedger` use no assumption.

**Scheduler.** `Inv` = `QueueIsSound` and finiteness. The parts need each other. That a
generation advance or a close leaves the counter at zero needs `QueueAccounting` for the
entries it drops; `WithinCapacity` has to count unused reservations with the queue, because the
admission test only compares the sum; and uniqueness of an entry by its enqueue order
(`QueueIsCurrent`) makes the removal of one entry lower a count by exactly one.
`SchedulerInvariant` holds the counting lemmas and their preservation, `SchedulerProofs`
the remaining conjuncts and the invariance theorem. From it follow `QueueCorrect`,
`ReservedAdmissionHolds`, `DispatchNeverFailsHolds` (a nonempty finite set of eligible entries
has a least key, and the arbiter accepts it) and the action properties `EndedIsFinalHolds` and
`CappedWorkIsFifoHolds`. `ResourceOwnershipHolds` needs only the types: `ResourceOwnership` is
inductive with them. `BoundedBypassHolds` rests on `WindowIsSpent`: past the burst of a waiting
session no other session is served twice before it. `WorkLifecycleRefinement`
(`SchedulerRefinementProofs`) shows that `Scheduler` implements `WorkLifecycle`: initial states map
to initial states, and under `Inv` each action maps to a step of the abstract specification
or to a stutter.

**SurfaceOwner.** `Inv` adds to the properties `Bookkeeping` (identities lie below their
counters; the state of a surface determines whether it has pixels and a token), `Provenance`
and `AccessBounds` (nothing handed out comes from a future epoch or from above the counters).
The last two carry `AcquireIsFaithful` across restarts: a restart lowers all counters, and
only the strictly increasing epoch keeps old accesses from naming new surfaces. Theorems:
`HandlesCorrect` (with the single import), `LiveCorrect`, `ReleasesCorrect`, `AcquireCorrect` and
the action property `RetirementCorrect`, by which a repeated release gets the first retirement's
reason. `IdentitiesCorrect` (`IdentitiesNeverReused`) is about the histories of accesses and
transfers, so it also covers identities whose surface is gone. It has its own invariant,
`HistoryInv`, over `Inv`: what the epoch handed out lies below the counters, and leases and
tokens, which are drawn from one counter, never coincide.

**RangeStore.** `Inv` = the shape of the ticket table, `SettlingHasCause`,
`ChangeIsBeingSettled`, `EveryWaiterIsHeld` and `PendingIsAwaited`. The last one is why a
release cannot lose a waiter: a ticket with subscribers is not released, and a pending one
has subscribers. What the range algorithms compute stays opaque. Theorems:
`SettledCorrect`, `WaitersCorrect` and the action properties `CommitCorrect` and
`TerminalCorrect`, for any number of threads and jobs.

**DataTicketLedger.** `IInv` = types, `EntriesAreBound`, `ObservedIsRecoverable`, `EpochsAreFresh` and
`AnsweredOnce`. `EpochsAreFresh` is the strengthening: epochs of tickets, answers and completions
of this ledger lie below the counter, an epoch belongs to one ticket, a ticket's epoch is not
yet answered, and a completion with the epoch of a ticket is a copy of it. Answers are recorded
with their ledger, and none is of a ledger to come, since a replaced ledger's epochs begin at
one again. From it follow
`AnsweredOnceCorrect`, `ExactCorrect`, `RecoverableCorrect` and the action property
`FailClosedCorrect`, for any number of sessions, completions and replaced ledgers.

**Only model-checked.** Liveness (`Progress`, `ChangeSettles`, `RequestsEnd`, `AcceptedEnds`, `DrainEnds`),
which is out of the prover's reach. Properties about sums and about what a recursion over a
sequence computes (`ResidentAccounting`, `StoreIsSound`, `ReadyIsReadable`, `SlicesAgree`), which need
induction over data, and with them `ImplementsTicketStore`. Everything about `DocumentSession` and `NativeWorker`:
their invariants range over queues that are filtered and folded, and are checked on small
instances only.

## 7. Limits of the models

* `SurfaceOwner`: pixel memory is one value per surface; capability secrets are drawn from a
  counter, as in the code, and are only compared.
* `RangeStore`: ticket namespaces of several stores, lock poisoning and failed allocations
  are left out; the slices readers hold are a set, so two equal slices are one.
* `Scheduler`: one host drives the scheduler, as its `&mut self` operations demand; workers
  appear through the reports the host forwards.
* `DocumentSession` runs over `TicketStore`: that `RangeStore` implements it is checked under the
  bounds of the two range runs. `take_requeue` of the arbiter, which only tests call, and its
  metadata byte counts are left out.
* `NativeWorker` keeps of the surface owner which surfaces are live and of the ledger which sessions
  wait; each is modelled in full in its own module, and the two views are joined by the
  calls the registry makes, not by a checked refinement.

## 8. Not modelled

The models cover the runtime's stateful core. By lines, most of the repository is elsewhere,
in sequential algorithms over unbounded data, where a model small enough for TLC would leave
out what is hard about the code.

* *Syntax, xref, document, content, scene, filters, fonts, raster, skia port*: parsers,
  decoders, an interpreter and pixel arithmetic. They share no state between calls. Their
  resumable jobs meet the runtime only through `poll`, which is modelled, as the sequence of
  reads they make.
* *Range coalescer, policy, protocol codec, viewer geometry*: functions of one call, or generated.
* *Tile cache*: used inside one turn of the registry. `NativeWorker` has its effect (hit, miss,
  several turns), not its eviction order and byte counts.
* *Ready-store owner, derived-data cache*: nothing under `src/` outside tests puts a value into them;
  the session creates and drops them.
* *Desktop supervisor, browser mailbox, bridge, spawn, clients*: I/O and framing around the
  registry. What reaches the worker are its commands, which are actions of `NativeWorker`;
  back-off, process state and message encoding are not modelled.
* *Tools*: outside the product.
