--------------------------- MODULE DocumentSession ---------------------------
(***************************************************************************)
(* The strict document session (runtime/session m1_session.rs) with the     *)
(* parts it is composed of: the opening coordinator                         *)
(* (strict_base_open_coordinator.rs), the owner of the opening job          *)
(* (strict_base_open_owner.rs) and the range-resume arbiter, which moves    *)
(* from the coordinator to the two services once the document is open.      *)
(*                                                                         *)
(* The session is one actor.  Its methods are the actions: a turn polls at  *)
(* most one parser job, and what a host callback does never polls one.  A   *)
(* job is the sequence of offset sets it reads; its checkpoint is the       *)
(* position it has reached.  A call that is rejected changes nothing and    *)
(* has no step.                                                            *)
(***************************************************************************)
EXTENDS RangeResume

CONSTANTS
    OpenRequest,        \* identity [id, job] of the opening request
    Identities,         \* identities a service request may carry
    OpenReads,          \* what the opening job reads, in order
    ServiceReads,       \* what the job of each service reads, in order
    Responses,          \* [offsets, length, matches] the host may supply
    Snapshots,          \* [length, matches] the host may observe
    MaxRequests         \* bound on the requests admitted in one behaviour

VARIABLES
    state,              \* SessionState: which owners exist
    phase,              \* M1SessionPhase
    opening,            \* coordinator phase and the owned job with its wait
    slots,              \* the slot of each service
    nextService,        \* round robin
    failure,            \* the first failure, or "None"
    requests            \* requests admitted so far

vars == <<arbiter, state, phase, opening, slots, nextService, failure, requests>>
ready == <<slots, nextService>>

Services == {"PageCount", "Outline"}
Other(s) == IF s = "PageCount" THEN "Outline" ELSE "PageCount"

NoWait == [ticket |-> 0, checkpoint |-> 0, completion |-> "None"]
WaitOn(r) == [ticket |-> r.ticket, checkpoint |-> r.checkpoint, completion |-> "None"]
NoSlot == [request |-> OpenRequest, used |-> FALSE, at |-> 0, wait |-> NoWait]
NoOpening == [coord |-> "Closed", at |-> 0, wait |-> NoWait]

Init ==
    /\ arbiter \in {NewArbiter(n) : n \in Limits}
    /\ state = "Opening" /\ phase = "Created"
    /\ opening = [coord |-> "Queued", at |-> 1, wait |-> NoWait]
    /\ slots = [s \in Services |-> NoSlot]
    /\ nextService = "PageCount"
    /\ failure = "None"
    /\ requests = 0
-----------------------------------------------------------------------------
(* Jobs.                                                                   *)

\* One poll of a job: it fails (parser, limit, end of file, cancellation token),
\* reads all it needs, or suspends at the first read that lacks bytes.
Outcomes(a, reads, at) ==
    LET lacking == {i \in at .. Len(reads) : ~(reads[i] \subseteq a.store.known)}
    IN  {[kind |-> "Failed", at |-> at]} \cup
        IF lacking = {} THEN {[kind |-> "Finished", at |-> at]}
        ELSE LET i == Min(lacking)
             IN  IF \/ Store!PastEnd(reads[i], a.store.length)
                    \/ Store!SubscriptionsIn(a.store) >= a.limit
                 THEN {}
                 ELSE {[kind |-> "Suspended", at |-> i]}

Missing(a, read) == read \ a.store.known

\* The store and the registration after a poll that suspended.
PolledArbiter(a, job, read, i) ==
    [a EXCEPT !.store = Store!Subscribed(@, [job |-> job, checkpoint |-> i], Missing(a, read))]

Target(a, job, read, i) == Registration(Store!TicketFor(a.store, Missing(a, read)), job, i)

-----------------------------------------------------------------------------
(* Terminal transitions.                                                   *)

\* close of the coordinator, and the ordered release of a ready state: the
\* arbiter keeps the terminal phase it may already have.
Released(a) ==
    /\ arbiter' = Ended(a, "Closed")
    /\ opening' = NoOpening
    /\ slots' = [s \in Services |-> NoSlot]
    /\ nextService' = "PageCount"

\* fail_opening, fail_ready.
FailSession(a, why) ==
    /\ Released(a)
    /\ state' = "Failed" /\ phase' = "Failed"
    /\ failure' = why
    /\ UNCHANGED requests

\* What an arbiter that has ended makes of the session.
FailureOf(a) == IF a.phase = "SourceChanged" THEN "SourceChanged" ELSE "Runtime"

-----------------------------------------------------------------------------
(* Opening.                                                                *)

\* sync_active_wait_phase: the coordinator follows the counters of the arbiter.
SyncedPhase(a, wait) ==
    LET counts == <<a.pendingTickets, a.readyResumes, a.queuedFailures>>
    IN  IF wait = NoWait \/ Registrations(a) # 1 THEN "Error"
        ELSE CASE counts = <<1, 0, 0>> -> "WaitingForData"
               [] counts = <<0, 1, 0>> -> "ResumeQueued"
               [] counts = <<0, 0, 1>> -> "FailureQueued"
               [] OTHER -> "Error"

\* finish_poll of a suspension: the wait is registered before the turn ends.
Suspend(a, i) ==
    LET polled == PolledArbiter(a, OpenRequest.job, OpenReads[i], i)
        target == Target(a, OpenRequest.job, OpenReads[i], i)
        coord == SyncedPhase(Registered(polled, target), WaitOn(target))
    IN  IF RegistrationOutcome(polled, target) # "Registered" \/ coord = "Error"
        THEN FailSession(polled, "Internal")
        ELSE /\ arbiter' = Registered(polled, target)
             /\ opening' = [coord |-> coord, at |-> i, wait |-> WaitOn(target)]
             /\ phase' = "WaitingForData"
             /\ UNCHANGED <<state, ready, failure, requests>>

\* The source owner is handed over only when nobody waits on it.
InstallReady(a) ==
    IF Registrations(a) # 0 \/ a.pendingTickets # 0
    THEN FailSession(a, "Internal")
    ELSE \/ FailSession(a, "Cache")
         \/ /\ arbiter' = a
            /\ opening' = NoOpening
            /\ state' = "Ready" /\ phase' = "Ready"
            /\ UNCHANGED <<ready, failure, requests>>

PollOpening(a) ==
    \E o \in Outcomes(a, OpenReads, opening.at) :
        \/ o.kind = "Failed" /\ \E why \in {"Parser", "Cancelled"} : FailSession(a, why)
        \/ o.kind = "Suspended" /\ Suspend(a, o.at)
        \/ o.kind = "Finished" /\ InstallReady(a)

\* discard_reason: a permit must name the ticket and the checkpoint waited for.
Exact(wait, job, permit) ==
    /\ permit.job = job
    /\ permit.ticket = wait.ticket /\ permit.checkpoint = wait.checkpoint

\* consume_one, past an empty stream.
ConsumeOne ==
    LET permit == Head(arbiter.done)
        a == AfterTake(arbiter)
        exact == /\ Exact(opening.wait, OpenRequest.job, permit)
                 /\ opening.coord = IF permit.failed THEN "FailureQueued" ELSE "ResumeQueued"
    IN  IF ~exact THEN FailSession(a, "Internal")
        ELSE IF permit.failed THEN FailSession(a, "Source")
        ELSE PollOpening(a)

RunOpening ==
    /\ state = "Opening" /\ phase # "Closing"
    /\ IF opening.coord = "Queued" THEN PollOpening(arbiter)
       ELSE IF arbiter.done # <<>> THEN ConsumeOne
       ELSE IF opening.coord # "WaitingForData" THEN FailSession(arbiter, "Internal")
       ELSE /\ phase' = "WaitingForData"
            /\ UNCHANGED <<arbiter, state, opening, ready, failure, requests>>

-----------------------------------------------------------------------------
(* The two services.                                                       *)

Runnable(slot) == slot.used /\ (slot.wait = NoWait \/ slot.wait.completion # "None")

\* Mutant: the permits that the services already hold are not looked at.
RefreshedPhaseMutant(a, sl) ==
    IF \/ \E s \in Services : sl[s].used /\ sl[s].wait = NoWait
       \/ a.readyResumes # 0 \/ a.queuedFailures # 0
    THEN "Ready"
    ELSE IF \E s \in Services : sl[s].wait # NoWait THEN "WaitingForData"
    ELSE "Ready"

\* refresh_ready_phase: what the session tells the one who schedules its turns.
RefreshedPhase(a, sl) ==
    IF \/ \E s \in Services : Runnable(sl[s])
       \/ a.readyResumes # 0 \/ a.queuedFailures # 0
    THEN "Ready"
    ELSE IF \E s \in Services : sl[s].wait # NoWait THEN "WaitingForData"
    ELSE "Ready"

\* attach_completion: the slot that waits for exactly this permit holds it.
Attached(c) ==
    LET permit == Head(c.arbiter.done)
        holders == {s \in Services : /\ c.slots[s].used
                                     /\ c.slots[s].wait.completion = "None"
                                     /\ Exact(c.slots[s].wait, c.slots[s].request.job, permit)}
        holder == IF "PageCount" \in holders THEN "PageCount" ELSE "Outline"
    IN  IF c.lost \/ c.arbiter.done = <<>> THEN c
        ELSE IF holders = {} THEN [c EXCEPT !.arbiter = AfterTake(@), !.lost = TRUE]
        ELSE [c EXCEPT
                !.arbiter = AfterTake(@),
                !.slots[holder].wait.completion =
                    IF permit.failed THEN "Failed" ELSE "Resume"]

\* Mutant: a turn runs what it finds before it takes the queued permits.
CollectedMutant ==
    LET now == [arbiter |-> arbiter, slots |-> slots, lost |-> FALSE]
    IN  IF \E s \in Services : Runnable(slots[s]) THEN now ELSE Attached(Attached(now))

\* collect_ready_completions: at most two, one for each service.
Collected == Attached(Attached([arbiter |-> arbiter, slots |-> slots, lost |-> FALSE]))

AfterTurn(s) == Other(s)

\* choose_runnable.
Chosen(sl) == IF Runnable(sl[nextService]) THEN nextService ELSE Other(nextService)

\* The turn of service s leaves its slot so, and the phase is refreshed.
EndTurn(a, sl, s, slot) ==
    LET after == [sl EXCEPT ![s] = slot]
    IN  /\ arbiter' = a
        /\ slots' = after
        /\ nextService' = AfterTurn(s)
        /\ phase' = RefreshedPhase(a, after)
        /\ UNCHANGED <<state, opening, failure, requests>>

\* poll_page_count and poll_outline, which are the same text.
PollService(a, sl, s) ==
    LET slot == sl[s] IN
    IF slot.wait.completion = "Failed"
    THEN EndTurn(a, sl, s, NoSlot)
    ELSE \E o \in Outcomes(a, ServiceReads[s], slot.at) :
            \/ /\ o.kind \in {"Failed", "Finished"}
               /\ EndTurn(a, sl, s, NoSlot)
            \/ /\ o.kind = "Suspended"
               /\ LET job == slot.request.job
                      read == ServiceReads[s][o.at]
                      polled == PolledArbiter(a, job, read, o.at)
                      target == Target(a, job, read, o.at)
                      answer == RegistrationOutcome(polled, target)
                  IN  IF answer = "Registered"
                      THEN EndTurn(Registered(polled, target), sl, s,
                                   [slot EXCEPT !.at = o.at, !.wait = WaitOn(target)])
                      ELSE FailSession(polled, IF answer = "AlreadyRegistered"
                                               THEN "Internal" ELSE "Runtime")

RunReady ==
    /\ state = "Ready" /\ phase # "Closing"
    /\ \E c \in {Collected} :
       IF c.lost THEN FailSession(c.arbiter, "Internal")
       ELSE IF \E s \in Services : Runnable(c.slots[s])
       THEN PollService(c.arbiter, c.slots, Chosen(c.slots))
       ELSE /\ arbiter' = c.arbiter /\ slots' = c.slots
            /\ phase' = RefreshedPhase(c.arbiter, c.slots)
            /\ UNCHANGED <<state, opening, nextService, failure, requests>>

\* request_page_count, request_outline.
RequestService(s, request) ==
    /\ state = "Ready" /\ phase \in {"Ready", "WaitingForData"}
    /\ ~slots[s].used
    /\ slots[Other(s)].used => /\ slots[Other(s)].request.id # request.id
                               /\ slots[Other(s)].request.job # request.job
    /\ requests < MaxRequests
    /\ requests' = requests + 1
    /\ slots' = [slots EXCEPT ![s] =
          [request |-> request, used |-> TRUE, at |-> 1, wait |-> NoWait]]
    /\ phase' = "Ready"
    /\ UNCHANGED <<arbiter, state, opening, nextService, failure>>

-----------------------------------------------------------------------------
(* Cancellation.                                                           *)

\* A queued job is dropped; one that waits leaves the arbiter first.
CancelOpen ==
    LET a == IF opening.coord = "Queued" THEN arbiter ELSE AfterCancel(arbiter, OpenRequest.job)
        known == \/ opening.coord = "Queued"
                 \/ /\ HasRegistration(arbiter, OpenRequest.job)
                    /\ Exact(opening.wait, OpenRequest.job, TargetOf(arbiter, OpenRequest.job))
    IN  /\ state = "Opening" /\ phase \notin {"Closing", "Closed", "Failed"}
        /\ FailSession(IF known THEN a ELSE arbiter, IF known THEN "Cancelled" ELSE "Internal")

\* Mutant: the slot is dropped and the arbiter is not told.
CancelServiceMutant(s, request) ==
    LET after == [slots EXCEPT ![s] = NoSlot] IN
    /\ state = "Ready" /\ phase \in {"Ready", "WaitingForData"}
    /\ slots[s].used /\ slots[s].request = request
    /\ slots' = after
    /\ phase' = RefreshedPhase(arbiter, after)
    /\ UNCHANGED <<arbiter, state, opening, nextService, failure, requests>>

\* A permit that the slot already holds is dropped with it.
CancelService(s, request) ==
    LET slot == slots[s]
        waits == slot.wait # NoWait /\ slot.wait.completion = "None"
        known == /\ HasRegistration(arbiter, request.job)
                 /\ Exact(slot.wait, request.job, TargetOf(arbiter, request.job))
        a == IF waits THEN AfterCancel(arbiter, request.job) ELSE arbiter
        after == [slots EXCEPT ![s] = NoSlot]
    IN  /\ state = "Ready" /\ phase \in {"Ready", "WaitingForData"}
        /\ slot.used /\ slot.request = request
        /\ IF waits /\ ~known THEN FailSession(arbiter, "Internal")
           ELSE /\ arbiter' = a /\ slots' = after
                /\ phase' = RefreshedPhase(a, after)
                /\ UNCHANGED <<state, opening, nextService, failure, requests>>

-----------------------------------------------------------------------------
(* Host callbacks: they change the arbiter and ask for a turn, no more.    *)

AcceptsIngress ==
    /\ phase \notin {"Closing", "Closed", "Failed"}
    /\ state = "Opening" =>
          opening.coord \in {"WaitingForData", "ResumeQueued", "FailureQueued"}

\* Mutant: the host is told, and the phase is left as it was.
WokenPhaseMutant(a) == phase

\* wake_scheduler: only newly queued work makes the session runnable.
WokenPhase(a) ==
    IF Len(a.done) = Len(arbiter.done) THEN phase
    ELSE IF state = "Opening" THEN "Opening"
    ELSE "Ready"

\* finish_open_ingress, finish_ready_supply: the arbiter after the callback.
Ingress(a) ==
    IF a.phase # "Active" THEN FailSession(a, FailureOf(a))
    ELSE IF state = "Opening" /\ SyncedPhase(a, opening.wait) = "Error"
    THEN FailSession(a, "Internal")
    ELSE /\ arbiter' = a
         /\ phase' = WokenPhase(a)
         /\ opening' = IF state = "Opening"
                       THEN [opening EXCEPT !.coord = SyncedPhase(a, opening.wait)] ELSE opening
         /\ UNCHANGED <<state, ready, failure, requests>>

Supply(r) ==
    /\ AcceptsIngress
    /\ state = "Ready" => Registrations(arbiter) # 0
    /\ \E a \in {AfterSupply(arbiter, r.offsets, r.length, r.matches)} : Ingress(a)

ObserveSnapshot(s) ==
    /\ AcceptsIngress
    /\ \E a \in {AfterSupply(arbiter, {}, s.length, s.matches)} : Ingress(a)

FailData(k) ==
    /\ AcceptsIngress
    /\ state = "Ready" => Registrations(arbiter) # 0
    /\ \E a \in {AfterFailure(arbiter, k)} : Ingress(a)

\* A change that the host reports is also heard before the first turn.
SignalSourceChanged ==
    /\ state \in {"Opening", "Ready"} /\ phase # "Closing"
    /\ FailSession(Ended(arbiter, "SourceChanged"), "SourceChanged")

-----------------------------------------------------------------------------
(* Close: queued by one call, done by the next turn.                       *)

Close ==
    /\ state # "Closed" /\ phase # "Closing"
    /\ phase' = "Closing"
    /\ UNCHANGED <<arbiter, state, opening, ready, failure, requests>>

FinishClose ==
    /\ phase = "Closing"
    /\ Released(arbiter)
    /\ state' = "Closed" /\ phase' = "Closed"
    /\ UNCHANGED <<failure, requests>>

-----------------------------------------------------------------------------
RunOne == FinishClose \/ RunOpening \/ RunReady

Next ==
    \/ RunOne
    \/ \E s \in Services, request \in Identities :
          RequestService(s, request) \/ CancelService(s, request)
    \/ CancelOpen
    \/ \E r \in Responses : Supply(r)
    \/ \E s \in Snapshots : ObserveSnapshot(s)
    \/ \E k \in Store!PendingIn(arbiter.store) : FailData(k)
    \/ SignalSourceChanged
    \/ Close

Spec == Init /\ [][Next]_vars

\* The scheduler gives turns while the phase asks for them, and only then.
Woken == phase # "WaitingForData" /\ RunOne

\* The host answers the tickets it was told of, each response helping at least
\* one of them, or gives them up.
HostAnswers ==
    \E k \in Store!PendingIn(arbiter.store) :
        \/ FailData(k)
        \/ \E r \in Responses :
              r.offsets \cap arbiter.store.tickets[k].missing # {} /\ Supply(r)

FairSpec == Spec /\ WF_vars(Woken) /\ WF_vars(HostAnswers)
-----------------------------------------------------------------------------
(* Properties.                                                             *)

\* Every variable has the type its declaration gives it.
TypeOK ==
    /\ state \in {"Opening", "Ready", "Failed", "Closed"}
    /\ phase \in {"Created", "Opening", "WaitingForData", "Ready", "Closing", "Closed", "Failed"}
    /\ arbiter.phase \in {"Active", "SourceChanged", "Failed", "Closed"}
    /\ {arbiter.pendingTickets, arbiter.readyResumes, arbiter.queuedFailures} \subseteq Nat
    /\ opening.coord \in {"Queued", "WaitingForData", "ResumeQueued", "FailureQueued", "Closed"}
    /\ \A s \in Services : slots[s].request \in Identities \cup {OpenRequest}
    /\ nextService \in Services /\ requests \in 0 .. MaxRequests

\* The checks that fail the whole session closed never fire: every permit finds
\* the job it was issued for, every cancellation its registration, the store's
\* tickets always pair up, a registration is never refused for want of room, and
\* the checked subtractions of the arbiter's counters succeed.
NeverFailsClosed ==
    TypeOK /\ failure \notin {"Internal", "Runtime"} /\ arbiter.phase # "Failed"

\* The waits of the jobs the session owns.
OwnedWaits ==
    {<<opening.wait, OpenRequest.job>>} \cup
    {<<slots[s].wait, slots[s].request.job>> : s \in Services}

\* No wait is lost and none outlives its job, whatever was cancelled, shared,
\* answered in part or given up: each job that was told to wait has exactly one
\* registration or queued permit with its ticket and checkpoint, or holds the permit
\* already; there are no others; and the subscriptions in the store, the
\* registrations and the counters describe the same waits.
EveryWaitIsHeld ==
    LET held == {Registration(r.ticket, r.job, r.checkpoint) :
                    r \in ToSet(arbiter.pending \o arbiter.done)}
    IN  /\ RegistrationsPairUp(arbiter)
        /\ Cardinality(held) = Registrations(arbiter)
        /\ held = {Registration(o[1].ticket, o[2], o[1].checkpoint) :
                      o \in {w \in OwnedWaits : w[1] # NoWait /\ w[1].completion = "None"}}

\* A turn would find something to do.
HasWork ==
    \/ arbiter.done # <<>>
    \/ opening.coord = "Queued"
    \/ \E s \in Services : Runnable(slots[s])

\* The phase tells the truth to whoever schedules turns by it: WaitingForData
\* means that every job is suspended on data, the runnable phases that a turn has
\* work, or that nothing was asked for.  And "Closed and Failed are provably all
\* zero": a session that has ended holds no store, and none is closed under a live one.
PhaseIsTrue ==
    /\ phase = "WaitingForData" => ~HasWork /\ arbiter.pending # <<>>
    /\ phase \in {"Created", "Opening"} => HasWork
    /\ phase = "Ready" => HasWork \/ \A s \in Services : ~slots[s].used
    /\ state \in {"Opening", "Ready"} <=> arbiter.phase = "Active"

\* A job that was suspended and waits again, on another ticket (a new one, or an
\* older one it shares), has got past the read it was suspended on: it is never
\* woken for data that is not all there.
ProgressStep ==
    /\ \A s \in Services :
          slots[s].wait # NoWait /\ slots'[s].wait.ticket \notin {0, slots[s].wait.ticket}
              => slots'[s].at > slots[s].at
    /\ opening.wait # NoWait /\ opening'.wait.ticket \notin {0, opening.wait.ticket}
          => opening'.at > opening.at

\* No turn of a resumed job ends on another ticket for the read it was resumed for.
ResumeMakesProgress == [][ProgressStep]_vars

\* Under a scheduler that gives turns only while the phase asks for them, no
\* wake-up is lost: opening ends, with a document or with a failure, every request
\* that was admitted ends, and a close that was queued is done, from every state.
RequestsEnd ==
    /\ state = "Opening" ~> state # "Opening"
    /\ \A s \in Services : slots[s].used ~> ~slots[s].used
    /\ phase = "Closing" ~> phase = "Closed"
=============================================================================
