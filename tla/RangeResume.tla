----------------------------- MODULE RangeResume -----------------------------
(***************************************************************************)
(* The range-resume arbiter (runtime/session range_resume.rs): the single   *)
(* owner of one byte store.  It pairs every subscription of a waiting job   *)
(* with a registration of its own, and turns the tickets that end into one  *)
(* ordered stream of resume and failure permits.                           *)
(*                                                                         *)
(* An arbiter is a record; a call is a function of it, because its owner    *)
(* makes several calls in one turn.  Registrations that are pending and     *)
(* those that ended are kept apart: the position of an ended one in `done`  *)
(* stands for its ready sequence number.  One session has one generation,   *)
(* so a target is a job and its checkpoint.                                *)
(***************************************************************************)
EXTENDS Integers, Sequences, FiniteSets, SequencesExt, FiniteSetsExt

CONSTANTS
    Jobs, Checkpoints, Reads, Supplies, Lengths, FirstLength,
    Limits              \* choices of max_total_subscriptions, which also
                        \* limits the registrations

VARIABLE arbiter

Store == INSTANCE TicketStore WITH
    store <- arbiter.store, MaxSubscriptions <- Max(Limits)

NewArbiter(limit) ==
    [phase |-> "Active", limit |-> limit, store |-> Store!NewStore, pending |-> <<>>, done |-> <<>>,
     pendingTickets |-> 0, readyResumes |-> 0, queuedFailures |-> 0]

\* The first terminal phase wins and drops the store and every registration.
Ended(a, phase) ==
    IF a.phase # "Active" THEN a ELSE [NewArbiter(a.limit) EXCEPT !.phase = phase]

Registration(k, job, checkpoint) == [ticket |-> k, job |-> job, checkpoint |-> checkpoint]

Permit(r, failed) ==
    [ticket |-> r.ticket, job |-> r.job, checkpoint |-> r.checkpoint, failed |-> failed]

Registrations(a) == Len(a.pending) + Len(a.done)

OnTicket(a, k) == SelectSeq(a.pending, LAMBDA r : r.ticket = k)

Without(seq, job) == SelectSeq(seq, LAMBDA r : r.job # job)

\* rollback_subscription: an abandoned ticket is released at once.
RolledBack(st, k, job) ==
    LET left == Store!Unsubscribed(st, k, job)
    IN  IF left.tickets[k].phase = "Abandoned" THEN Store!ReleasedTicket(left, k) ELSE left

-----------------------------------------------------------------------------
\* What register_pending answers to a ticket that a poll just returned.
RegistrationOutcome(a, r) ==
    IF r.ticket \notin Store!PendingIn(a.store) THEN "TicketNotPending"
    ELSE IF \E old \in ToSet(a.pending) : old = r THEN "AlreadyRegistered"
    ELSE IF \E old \in ToSet(a.pending \o a.done) : old.job = r.job THEN "Conflict"
    ELSE IF Registrations(a) >= a.limit THEN "Limit"
    ELSE "Registered"

Registered(a, r) ==
    [a EXCEPT
        !.pending = Append(@, r),
        !.pendingTickets = IF OnTicket(a, r.ticket) = <<>> THEN @ + 1 ELSE @]

\* process_terminal_ticket checks that the subscriptions of the ticket are
\* exactly the pending registrations before it changes anything.
PairsUp(a, k) ==
    LET subs == a.store.tickets[k].subs
        mine == OnTicket(a, k)
    IN  /\ subs # {}
        /\ Len(mine) = Cardinality(subs)
        /\ subs = {[job |-> mine[i].job, checkpoint |-> mine[i].checkpoint] :
                        i \in DOMAIN mine}
        /\ a.pendingTickets > 0

\* The registrations of these tickets, in ticket order; on one ticket in the order
\* of the polls, which is the order of its subscriptions.
InTicketOrder(a, ks) ==
    LET order == SetToSortSeq(ks, <)
    IN  FlattenSeq([i \in DOMAIN order |-> OnTicket(a, order[i])])

\* process_ready_tickets, process_failed_ticket: the tickets ks have ended.
Completed(a, ks, failed) ==
    IF ks = {} THEN a
    ELSE IF \E k \in ks : ~PairsUp(a, k) THEN Ended(a, "Failed")
    ELSE LET mine == InTicketOrder(a, ks)
             n == Len(mine)
         IN  [a EXCEPT
                !.store.tickets = [k \in DOMAIN @ \ ks |-> @[k]],
                !.pending = SelectSeq(@, LAMBDA r : r.ticket \notin ks),
                !.done = @ \o [i \in 1 .. n |-> Permit(mine[i], failed)],
                !.pendingTickets = @ - Cardinality(ks),
                !.readyResumes = IF failed THEN @ ELSE @ + n,
                !.queuedFailures = IF failed THEN @ + n ELSE @]

\* finish_store_update: every ticket that became ready.
FinishedUpdate(a) == Completed(a, Store!ReadyIn(a.store), FALSE)

\* supply and observe_snapshot; a response that does not match the snapshot, its
\* length or the bytes already known condemns the source.
AfterSupply(a, offsets, length, matches) ==
    IF ~matches \/ Store!Contradicts(a.store, length)
    THEN Ended(a, "SourceChanged")
    ELSE FinishedUpdate([a EXCEPT !.store = Store!Supplied(@, offsets, length)])

\* fail_ticket, of a pending ticket.
AfterFailure(a, k) ==
    Completed([a EXCEPT !.store = Store!FailedTicket(@, k)], {k}, TRUE)

HasRegistration(a, job) == \E r \in ToSet(a.pending \o a.done) : r.job = job

TargetOf(a, job) == CHOOSE r \in ToSet(a.pending \o a.done) : r.job = job

\* cancel, of a job that is registered: a permit that is queued is discarded.
AfterCancel(a, job) ==
    LET r == TargetOf(a, job)
        pending == Without(a.pending, job)
    IN  IF r \in ToSet(a.pending)
        THEN [a EXCEPT
                !.pending = pending,
                !.pendingTickets = IF OnTicket([a EXCEPT !.pending = pending], r.ticket) = <<>>
                                   THEN @ - 1 ELSE @,
                !.store = RolledBack(@, r.ticket, job)]
        ELSE [a EXCEPT
                !.done = Without(@, job),
                !.readyResumes = IF r.failed THEN @ ELSE @ - 1,
                !.queuedFailures = IF r.failed THEN @ - 1 ELSE @]

\* take_completion, of a stream that is not empty.
AfterTake(a) ==
    [a EXCEPT
        !.done = Tail(@),
        !.readyResumes = IF Head(a.done).failed THEN @ ELSE @ - 1,
        !.queuedFailures = IF Head(a.done).failed THEN @ - 1 ELSE @]
-----------------------------------------------------------------------------
(* What holds between the turns of the owner.                              *)

\* Registrations and subscriptions are the same pairs of jobs and tickets, and
\* the counters that the coordinator and the session decide by count them.  A
\* ticket that has ended is never left in the store.
RegistrationsPairUp(a) ==
    /\ DOMAIN a.store.tickets = Store!PendingIn(a.store)
    /\ \A k \in DOMAIN a.store.tickets : PairsUp(a, k)
    /\ \A r \in ToSet(a.pending) : r.ticket \in DOMAIN a.store.tickets
    /\ a.pendingTickets = Cardinality(DOMAIN a.store.tickets)
    /\ a.readyResumes = Cardinality({i \in DOMAIN a.done : ~a.done[i].failed})
    /\ a.queuedFailures = Cardinality({i \in DOMAIN a.done : a.done[i].failed})
=============================================================================
