----------------------------- MODULE RangeStore -----------------------------
(***************************************************************************)
(* The byte store of one immutable source snapshot (pdf-rs/bytes store.rs   *)
(* and the resident tracker of source.rs).  Parser jobs poll exact ranges;  *)
(* what is not cached yet is answered with a ticket that lists the missing  *)
(* ranges.  Host threads supply responses, observe metadata and signal that *)
(* the source changed.  All state but two atomics is behind one mutex.      *)
(*                                                                         *)
(* The two atomics, the source-changed flag and the resident byte counter,  *)
(* are read and written without the mutex, so supply is split at the points *)
(* where another thread can be seen: admission (before the lock), planning  *)
(* under the lock, coalescing, and the commit.  The other operations touch  *)
(* the flag once, at their start, and are single steps.                     *)
(*                                                                         *)
(* Bytes are members of Values, ranges are half open.  An operation that    *)
(* returns an error and changes nothing has no step of its own.             *)
(***************************************************************************)
EXTENDS Integers, Sequences, FiniteSets, FiniteSetsExt, Functions

CONSTANTS
    Threads,          \* host threads
    Jobs, Checkpoints,\* parser jobs and their resume checkpoints
    Requests,         \* ranges the jobs read
    Responses,        \* responses the host may deliver
    Snapshots,        \* metadata the host may observe without bytes
    SnapshotLen,      \* length bound at creation, or Unknown
    Slack,            \* spare capacity an allocation may come with
    MaxInput, MaxRead, MaxCached, MaxResident, MaxSegments,
    MaxTickets, MaxSubscribers, MaxSubscriptions, MaxMissing,
    TicketMax,        \* bound on the tickets one behaviour issues
    MaxSlices         \* bound on the slices readers keep at one time

VARIABLES
    segments,         \* cached backings, sorted by start
    cachedBytes,      \* StoreState::cached_bytes
    observedLen,      \* total length once known, else Unknown
    tickets,          \* retained tickets, by ticket value
    nextTicket,
    subscriptionCount,
    sourceChanged,    \* atomic, set outside the lock
    resident,         \* atomic, charged capacity
    slices,           \* byte slices that readers still hold
    pc,               \* where each host thread is inside its call
    response,         \* the response a thread is supplying
    held,             \* capacity of the backing it carries
    reserved,         \* coalescing reservation it carries
    asked             \* history: unanswered waits [ticket, job, range]

store == <<segments, cachedBytes, observedLen>>
book == <<tickets, nextTicket, subscriptionCount, asked>>
call == <<pc, response, held, reserved>>
vars == <<store, book, call, sourceChanged, resident, slices>>

Unknown == -1
NoResponse == [matches |-> FALSE, len |-> Unknown, range |-> [start |-> 0, end |-> 0], value |-> 0]
Phases == {"Pending", "Ready", "Failed", "SourceChanged", "Abandoned"}

ASSUME StoreAssumption ==
    /\ \A r \in Requests : r.start \in Nat /\ r.end \in Nat /\ r.start < r.end
    /\ \A r \in Responses : /\ r.range.start \in Nat /\ r.range.end \in Nat
                            /\ r.range.start < r.range.end
                            /\ r.len = Unknown \/ r.range.end <= r.len
    /\ 0 < MaxRead /\ MaxRead <= MaxInput /\ MaxRead <= MaxCached
    /\ MaxCached <= MaxResident
    /\ SnapshotLen = Unknown \/ SnapshotLen \in 0 .. MaxInput
-----------------------------------------------------------------------------
Offsets(r) == r.start .. (r.end - 1)
Size(r) == r.end - r.start
Span(s, e) == [start |-> s, end |-> e]

\* A loop over a sequence, front to back.
Scan(op(_, _), base, seq) ==
    LET after[i \in 0 .. Len(seq)] == IF i = 0 THEN base ELSE op(after[i - 1], seq[i])
    IN  after[Len(seq)]

\* range_is_covered: the cursor runs through the sorted segments.
RangeIsCovered(segs, r) ==
    LET step(cursor, seg) ==
            IF seg.start <= cursor /\ cursor < seg.end THEN seg.end ELSE cursor
    IN  Scan(step, r.start, segs) >= r.end

\* append_uncovered_ranges, without the limit on their number.
UncoveredSpans(segs, r) ==
    LET step(acc, seg) ==
            IF seg.end <= acc.cursor \/ seg.start >= r.end THEN acc
            ELSE [cursor |-> seg.end,
                  spans  |-> IF seg.start > acc.cursor
                             THEN Append(acc.spans, Span(acc.cursor, seg.start))
                             ELSE acc.spans]
        last == Scan(step, [cursor |-> r.start, spans |-> <<>>], segs)
    IN  IF last.cursor < r.end
        THEN Append(last.spans, Span(last.cursor, r.end))
        ELSE last.spans

\* remaining_missing_ranges.
Remaining(segs, missing) ==
    Scan(LAMBDA acc, r : acc \o UncoveredSpans(segs, r), <<>>, missing)

CrossesEof(missing, len) == missing # <<>> /\ missing[Len(missing)].end > len

Pending(k) == tickets[k].phase = "Pending"

Ticket(missing, subs, phase) ==
    [missing |-> missing, subs |-> subs, phase |-> phase]

\* transition_source_changed: only pending tickets move.
SourceChangedTickets ==
    [k \in DOMAIN tickets |->
        IF Pending(k)
        THEN Ticket(tickets[k].missing, tickets[k].subs, "SourceChanged")
        ELSE tickets[k]]

\* synchronize_source_change, the first thing every locked operation does.
Synchronized == IF sourceChanged THEN SourceChangedTickets ELSE tickets

\* Mutant: a read that ends at the new end of file is taken to cross it.
CompletedAtEofMutant(len) ==
    [k \in DOMAIN tickets |->
        IF Pending(k) /\ CrossesEof(tickets[k].missing, len - 1)
        THEN Ticket(tickets[k].missing, tickets[k].subs, "Ready")
        ELSE tickets[k]]

\* complete_tickets_at_eof.
CompletedAtEof(len) ==
    [k \in DOMAIN tickets |->
        IF Pending(k) /\ CrossesEof(tickets[k].missing, len)
        THEN Ticket(tickets[k].missing, tickets[k].subs, "Ready")
        ELSE tickets[k]]

PoisonSource ==
    /\ sourceChanged' = TRUE
    /\ tickets' = SourceChangedTickets

\* Supply is the only call that another thread can find holding the lock.
LockFree == \A t \in Threads : pc[t] \notin {"coalescing", "committing"}

\* The metadata of a snapshot contradicts what the store is bound to.
MetadataConflicts(len) ==
    IF observedLen # Unknown
    THEN len # observedLen
    ELSE len # Unknown /\ segments # <<>> /\ segments[Len(segments)].end > len

\* The length a commit binds, Unknown when there is nothing to bind.
BoundLen(len) == IF observedLen = Unknown THEN len ELSE Unknown

\* What binding that length does, for the commits that add no bytes.
BindLen(len) ==
    IF BoundLen(len) = Unknown
    THEN UNCHANGED <<observedLen, tickets>>
    ELSE observedLen' = len /\ tickets' = CompletedAtEof(len)
-----------------------------------------------------------------------------
Idle(t) ==
    /\ pc' = [pc EXCEPT ![t] = "idle"]
    /\ response' = [response EXCEPT ![t] = NoResponse]
    /\ held' = [held EXCEPT ![t] = 0]
    /\ reserved' = [reserved EXCEPT ![t] = 0]

\* Mutant: the flag goes up and the tickets are left to the next caller.
RaiseSourceChangedMutant(t) ==
    /\ sourceChanged' = TRUE
    /\ UNCHANGED <<store, book, call, resident, slices>>

\* The flag goes up before the lock is taken to move the tickets.
RaiseSourceChanged(t) ==
    /\ sourceChanged' = TRUE
    /\ pc' = [pc EXCEPT ![t] = "settling"]
    /\ UNCHANGED <<store, book, response, held, reserved, resident, slices>>

SignalSourceChanged(t) == pc[t] = "idle" /\ RaiseSourceChanged(t)

Settle(t) ==
    /\ pc[t] = "settling"
    /\ LockFree
    /\ tickets' = SourceChangedTickets
    /\ Idle(t)
    /\ UNCHANGED <<store, nextTicket, subscriptionCount, asked, sourceChanged,
                   resident, slices>>

ObserveSnapshot(t, s) ==
    /\ pc[t] = "idle"
    /\ \/ /\ sourceChanged \/ ~s.matches
          /\ RaiseSourceChanged(t)
       \/ /\ ~sourceChanged /\ s.matches /\ LockFree
          /\ \/ /\ MetadataConflicts(s.len)
                /\ PoisonSource
                /\ UNCHANGED store
             \/ /\ ~MetadataConflicts(s.len)
                /\ s.len <= MaxInput
                /\ BindLen(s.len)
                /\ UNCHANGED <<segments, cachedBytes, sourceChanged>>
          /\ UNCHANGED <<nextTicket, subscriptionCount, asked, call, resident, slices>>

-----------------------------------------------------------------------------
\* supply, up to the lock: limits, then the capacity of the response is charged.
SupplyAdmit(t, r) ==
    /\ pc[t] = "idle"
    /\ \/ /\ sourceChanged \/ ~r.matches
          /\ RaiseSourceChanged(t)
       \/ /\ ~sourceChanged /\ r.matches
          /\ response' = [response EXCEPT ![t] = r]
          /\ \E s \in Slack :
                LET cap == Size(r.range) + s IN
                IF /\ Size(r.range) <= MaxRead
                   /\ r.range.end <= MaxInput
                   /\ resident + cap <= MaxResident
                THEN /\ pc' = [pc EXCEPT ![t] = "queued"]
                     /\ held' = [held EXCEPT ![t] = cap]
                     /\ resident' = resident + cap
                ELSE /\ pc' = [pc EXCEPT ![t] = "rejecting"]
                     /\ UNCHANGED <<held, resident>>
          /\ UNCHANGED <<store, book, sourceChanged, reserved, slices>>

\* reject_if_observed_metadata_conflicts: a response that is over a limit can
\* still prove that the source changed.
SupplyReject(t) ==
    /\ pc[t] = "rejecting"
    /\ LockFree
    /\ IF sourceChanged \/ MetadataConflicts(response[t].len)
       THEN PoisonSource
       ELSE UNCHANGED <<sourceChanged, tickets>>
    /\ Idle(t)
    /\ UNCHANGED <<store, nextTicket, subscriptionCount, asked, resident, slices>>

\* Mutant: overlapping bytes are not compared.
OverlapConflictsMutant(r) == FALSE


OverlapConflicts(r) ==
    \E i \in DOMAIN segments :
        \E o \in Offsets(segments[i]) \cap Offsets(r.range) :
            segments[i].bytes[o] # r.value

\* Mutant: segments that only touch the response are left apart.
TouchesMutant(seg, r) == seg.start < r.range.end /\ r.range.start < seg.end

\* Segments that overlap or touch the response.
Touches(seg, r) == seg.start <= r.range.end /\ r.range.start <= seg.end

Affected(r) == {seg \in Range(segments) : Touches(seg, r)}

UnionStart(r) == Min({r.range.start} \cup {seg.start : seg \in Affected(r)})
UnionEnd(r) == Max({r.range.end} \cup {seg.end : seg \in Affected(r)})
MergedLen(r) == UnionEnd(r) - UnionStart(r)

NewCachedBytes(r) == cachedBytes - MapThenSumSet(Size, Affected(r)) + MergedLen(r)
NewSegmentCount(r) == Len(segments) - Cardinality(Affected(r)) + 1

\* copy_into_union: the affected segments first, then the response over them.
UnionBytes(r) ==
    [o \in UnionStart(r) .. (UnionEnd(r) - 1) |->
        IF o \in Offsets(r.range) THEN r.value
        ELSE (CHOOSE seg \in Affected(r) : o \in Offsets(seg)).bytes[o]]

Prospective(r, cap) ==
    LET kept == SelectSeq(segments, LAMBDA seg : ~Touches(seg, r))
        new == [start |-> UnionStart(r), end |-> UnionEnd(r), cap |-> cap,
                bytes |-> UnionBytes(r)]
    IN  SelectSeq(kept, LAMBDA seg : seg.start < new.start)
        \o <<new>> \o SelectSeq(kept, LAMBDA seg : seg.start > new.start)

\* A response that splits a waiting range can push a ticket over the limit.
TooManyMissing(segs) ==
    \E k \in DOMAIN tickets :
        Pending(k) /\ Len(Remaining(segs, tickets[k].missing)) > MaxMissing

\* Mutant: a ticket that is answered in part keeps its first missing list.
UpdatedTicketsMutant(segs, len) ==
    [k \in DOMAIN tickets |->
        IF ~Pending(k) THEN tickets[k]
        ELSE LET left == Remaining(segs, tickets[k].missing) IN
             IF left = <<>> \/ (len # Unknown /\ CrossesEof(left, len))
             THEN Ticket(tickets[k].missing, tickets[k].subs, "Ready")
             ELSE tickets[k]]

\* The ticket updates of a commit that binds len (or Unknown).
UpdatedTickets(segs, len) ==
    [k \in DOMAIN tickets |->
        IF ~Pending(k) THEN tickets[k]
        ELSE LET left == Remaining(segs, tickets[k].missing) IN
             IF left = <<>> \/ (len # Unknown /\ CrossesEof(left, len))
             THEN Ticket(tickets[k].missing, tickets[k].subs, "Ready")
             ELSE Ticket(left, tickets[k].subs, "Pending")]

\* An early return of supply: its backing and its reservation are dropped.
SupplyDrop(t) ==
    /\ resident' = resident - held[t] - reserved[t]
    /\ Idle(t)
    /\ UNCHANGED <<nextTicket, subscriptionCount, asked, slices>>

\* The limits a plan must meet before bytes are copied.
PlanFits(r) ==
    /\ NewCachedBytes(r) <= MaxCached
    /\ NewSegmentCount(r) <= MaxSegments
    /\ Affected(r) = {} => ~TooManyMissing(Prospective(r, 0))
    /\ Affected(r) # {} => MaxResident - resident >= MergedLen(r)

SupplyPlan(t) ==
    LET r == response[t]
        conflict == sourceChanged \/ MetadataConflicts(r.len)
        tooLong == observedLen = Unknown /\ r.len > MaxInput
    IN
    /\ pc[t] = "queued"
    /\ LockFree
    /\ \/ /\ conflict \/ (~tooLong /\ OverlapConflicts(r))
          /\ PoisonSource
          /\ SupplyDrop(t)
          /\ UNCHANGED store
       \/ /\ ~conflict
          /\ \/ tooLong
             \/ ~OverlapConflicts(r) /\ ~RangeIsCovered(segments, r.range) /\ ~PlanFits(r)
          /\ SupplyDrop(t)
          /\ UNCHANGED <<store, tickets, sourceChanged>>
       \/ /\ ~conflict /\ ~tooLong /\ ~OverlapConflicts(r)
          /\ RangeIsCovered(segments, r.range)
          /\ BindLen(r.len)
          /\ SupplyDrop(t)
          /\ UNCHANGED <<segments, cachedBytes, sourceChanged>>
       \/ /\ ~conflict /\ ~tooLong /\ ~OverlapConflicts(r)
          /\ ~RangeIsCovered(segments, r.range)
          /\ PlanFits(r)
          /\ IF Affected(r) = {}
             THEN /\ pc' = [pc EXCEPT ![t] = "committing"]
                  /\ UNCHANGED <<reserved, resident>>
             ELSE /\ pc' = [pc EXCEPT ![t] = "coalescing"]
                  /\ reserved' = [reserved EXCEPT ![t] = MaxResident - resident]
                  /\ resident' = MaxResident
          /\ UNCHANGED <<store, book, sourceChanged, response, held, slices>>

\* The union is allocated out of the reservation, the response is dropped and
\* the unused part of the reservation is returned.
SupplyCoalesce(t) ==
    LET r == response[t] IN
    /\ pc[t] = "coalescing"
    /\ \E s \in Slack :
        LET cap == MergedLen(r) + s IN
        IF cap <= reserved[t] /\ ~TooManyMissing(Prospective(r, cap))
        THEN /\ pc' = [pc EXCEPT ![t] = "committing"]
             /\ held' = [held EXCEPT ![t] = cap]
             /\ reserved' = [reserved EXCEPT ![t] = 0]
             /\ resident' = resident - held[t] - reserved[t] + cap
             /\ UNCHANGED <<response, nextTicket, subscriptionCount, asked, slices>>
        ELSE SupplyDrop(t)
    /\ UNCHANGED <<store, tickets, sourceChanged>>

\* Mutant: the replaced backings are uncharged although readers hold them.
ReleasedMutant(r) == MapThenSumSet(LAMBDA seg : seg.cap, Affected(r))

\* Capacity of the replaced segments that no slice keeps alive.
Released(r) ==
    MapThenSumSet(LAMBDA seg : seg.cap,
                  {seg \in Affected(r) : \A s \in slices : s.backing # seg})

\* Mutant: the flag is not looked at again before the commit.
SupplyCommitMutant(t) ==
    LET r == response[t] IN
    /\ pc[t] = "committing"
    /\ segments' = Prospective(r, held[t])
    /\ cachedBytes' = NewCachedBytes(r)
    /\ observedLen' = IF BoundLen(r.len) = Unknown THEN observedLen ELSE r.len
    /\ tickets' = UpdatedTickets(segments', BoundLen(r.len))
    /\ resident' = resident - Released(r)
    /\ Idle(t)
    /\ UNCHANGED <<nextTicket, subscriptionCount, asked, slices, sourceChanged>>

\* The last look at the flag is what orders a commit and a source change.
SupplyCommit(t) ==
    LET r == response[t] IN
    /\ pc[t] = "committing"
    /\ \/ /\ sourceChanged
          /\ tickets' = SourceChangedTickets
          /\ SupplyDrop(t)
          /\ UNCHANGED store
       \/ /\ ~sourceChanged
          /\ segments' = Prospective(r, held[t])
          /\ cachedBytes' = NewCachedBytes(r)
          /\ observedLen' = IF BoundLen(r.len) = Unknown THEN observedLen ELSE r.len
          /\ tickets' = UpdatedTickets(segments', BoundLen(r.len))
          /\ resident' = resident - Released(r)
          /\ Idle(t)
          /\ UNCHANGED <<nextTicket, subscriptionCount, asked, slices>>
    /\ UNCHANGED sourceChanged

-----------------------------------------------------------------------------
\* The pending ticket that waits for exactly these ranges, the oldest first.
Waiting(missing) == {k \in DOMAIN tickets : Pending(k) /\ tickets[k].missing = missing}

Subscription(job, checkpoint) == [job |-> job, checkpoint |-> checkpoint]
Ask(k, job, r) == [ticket |-> k, job |-> job, range |-> r]

\* poll, past its early returns: an answer of bytes or of a ticket.
PollReady(r) ==
    /\ RangeIsCovered(segments, r)
    /\ Cardinality(slices) < MaxSlices
    /\ \E seg \in Range(segments) :
          /\ seg.start <= r.start /\ r.end <= seg.end
          /\ slices' = slices \cup {[range |-> r, backing |-> seg]}
    /\ UNCHANGED book

PollSubscribe(job, checkpoint, r) ==
    LET missing == UncoveredSpans(segments, r) IN
    /\ ~RangeIsCovered(segments, r)
    /\ Len(missing) <= MaxMissing
    /\ \E k \in Waiting(missing) :
          LET subs == tickets[k].subs IN
          /\ \A j \in Waiting(missing) : k <= j
          /\ IF \E s \in subs : s.job = job
             THEN /\ Subscription(job, checkpoint) \in subs
                  /\ UNCHANGED <<tickets, subscriptionCount>>
             ELSE /\ subscriptionCount < MaxSubscriptions
                  /\ Cardinality(subs) < MaxSubscribers
                  /\ tickets' = [tickets EXCEPT ![k] =
                        Ticket(missing, subs \cup {Subscription(job, checkpoint)}, "Pending")]
                  /\ subscriptionCount' = subscriptionCount + 1
          /\ asked' = asked \cup {Ask(k, job, r)}
    /\ UNCHANGED <<nextTicket, slices>>

PollNewTicket(job, checkpoint, r) ==
    LET missing == UncoveredSpans(segments, r) IN
    /\ ~RangeIsCovered(segments, r)
    /\ Len(missing) <= MaxMissing
    /\ Waiting(missing) = {}
    /\ Cardinality(DOMAIN tickets) < MaxTickets
    /\ subscriptionCount < MaxSubscriptions
    /\ nextTicket < TicketMax
    /\ nextTicket' = nextTicket + 1
    /\ tickets' = [k \in DOMAIN tickets \cup {nextTicket} |->
          IF k = nextTicket
          THEN Ticket(missing, {Subscription(job, checkpoint)}, "Pending")
          ELSE tickets[k]]
    /\ subscriptionCount' = subscriptionCount + 1
    /\ asked' = asked \cup {Ask(nextTicket, job, r)}
    /\ UNCHANGED slices


Poll(job, checkpoint, r) ==
    /\ LockFree
    /\ \/ /\ sourceChanged
          /\ tickets' = SourceChangedTickets
          /\ UNCHANGED <<nextTicket, subscriptionCount, asked, slices>>
       \/ /\ ~sourceChanged
          /\ Size(r) <= MaxRead
          /\ observedLen # Unknown => r.end <= observedLen
          /\ r.end <= MaxInput
          /\ \/ PollReady(r)
             \/ PollSubscribe(job, checkpoint, r)
             \/ PollNewTicket(job, checkpoint, r)
    /\ UNCHANGED <<store, call, sourceChanged, resident>>

\* A reader drops a slice; the last reference to a replaced backing frees it.
DropSlice(s) ==
    /\ s \in slices
    /\ slices' = slices \ {s}
    /\ resident' =
          IF \/ s.backing \in Range(segments)
             \/ \E other \in slices' : other.backing = s.backing
          THEN resident
          ELSE resident - s.backing.cap
    /\ UNCHANGED <<store, book, call, sourceChanged>>

\* An integrity failure condemns the snapshot whatever its ticket's phase is.
FailTicket(k, integrity) ==
    /\ LockFree
    /\ IF integrity
       THEN PoisonSource
       ELSE /\ tickets' = [Synchronized EXCEPT ![k] =
                  IF @.phase = "Pending" THEN Ticket(@.missing, @.subs, "Failed") ELSE @]
            /\ UNCHANGED sourceChanged
    /\ UNCHANGED <<store, nextTicket, subscriptionCount, asked, call, resident, slices>>


Unsubscribe(k, job) ==
    LET left == {s \in tickets[k].subs : s.job # job} IN
    /\ LockFree
    /\ IF Synchronized[k].phase = "Pending"
       THEN /\ tickets' = [tickets EXCEPT ![k] =
                  Ticket(@.missing, left, IF left = {} THEN "Abandoned" ELSE "Pending")]
            /\ subscriptionCount' =
                  subscriptionCount - Cardinality(tickets[k].subs \ left)
            /\ asked' = {a \in asked : ~(a.ticket = k /\ a.job = job)}
       ELSE /\ tickets' = Synchronized
            /\ UNCHANGED <<subscriptionCount, asked>>
    /\ UNCHANGED <<store, nextTicket, call, sourceChanged, resident, slices>>

\* The caller now owns the taken subscriptions: these jobs are answered.
TakeSubscriptions(k) ==
    /\ LockFree
    /\ Synchronized[k].phase # "Pending"
    /\ tickets' = [Synchronized EXCEPT ![k] = Ticket(@.missing, {}, @.phase)]
    /\ subscriptionCount' = subscriptionCount - Cardinality(tickets[k].subs)
    /\ asked' = {a \in asked :
          ~(a.ticket = k /\ \E s \in tickets[k].subs : s.job = a.job)}
    /\ UNCHANGED <<store, nextTicket, call, sourceChanged, resident, slices>>

\* ticket_status only synchronizes.
TicketStatus ==
    /\ LockFree
    /\ tickets' = Synchronized
    /\ UNCHANGED <<store, nextTicket, subscriptionCount, asked, call, sourceChanged,
                   resident, slices>>


ReleaseTicket(k) ==
    /\ LockFree
    /\ IF Synchronized[k].phase # "Pending" /\ tickets[k].subs = {}
       THEN tickets' = [j \in DOMAIN tickets \ {k} |-> Synchronized[j]]
       ELSE tickets' = Synchronized
    /\ UNCHANGED <<store, nextTicket, subscriptionCount, asked, call, sourceChanged,
                   resident, slices>>

-----------------------------------------------------------------------------
Init ==
    /\ segments = <<>>
    /\ cachedBytes = 0
    /\ observedLen = SnapshotLen
    /\ tickets = [k \in {} |-> 0]
    /\ nextTicket = 1
    /\ subscriptionCount = 0
    /\ sourceChanged = FALSE
    /\ resident = 0
    /\ slices = {}
    /\ pc = [t \in Threads |-> "idle"]
    /\ response = [t \in Threads |-> NoResponse]
    /\ held = [t \in Threads |-> 0]
    /\ reserved = [t \in Threads |-> 0]
    /\ asked = {}

\* The steps a call in progress still has to take.
InFlight(t) ==
    \/ Settle(t) \/ SupplyReject(t) \/ SupplyPlan(t)
    \/ SupplyCoalesce(t) \/ SupplyCommit(t)

HostStep(t) ==
    \/ SignalSourceChanged(t)
    \/ \E s \in Snapshots : ObserveSnapshot(t, s)
    \/ \E r \in Responses : SupplyAdmit(t, r)
    \/ InFlight(t)

RuntimeStep ==
    \/ \E job \in Jobs, c \in Checkpoints, r \in Requests : Poll(job, c, r)
    \/ \E s \in slices : DropSlice(s)
    \/ \E k \in DOMAIN tickets :
          \/ \E integrity \in BOOLEAN : FailTicket(k, integrity)
          \/ \E job \in Jobs : Unsubscribe(k, job)
          \/ TakeSubscriptions(k)
          \/ ReleaseTicket(k)
    \/ TicketStatus

Next == (\E t \in Threads : HostStep(t)) \/ RuntimeStep

Spec == Init /\ [][Next]_vars

\* A call that has begun goes on; nothing forces a host or a job to call.
FairSpec == Spec /\ \A t \in Threads : WF_vars(InFlight(t))
-----------------------------------------------------------------------------
(* Properties.                                                             *)

\* The reference for the range algorithms: offsets the store has bytes for.
CachedOffsets == UNION {Offsets(seg) : seg \in Range(segments)}

\* Sorted, disjoint and not adjacent, so no two neighbours could be one range.
Canonical(spans) ==
    /\ \A i \in DOMAIN spans : spans[i].start < spans[i].end
    /\ \A i \in 1 .. (Len(spans) - 1) : spans[i].end < spans[i + 1].start

OffsetsOf(spans) == UNION {Offsets(spans[i]) : i \in DOMAIN spans}

\* Every field has the type its declaration in store.rs gives it.
TypeOK ==
    /\ cachedBytes \in Nat /\ resident \in Nat /\ nextTicket \in Nat \ {0}
    /\ observedLen \in Nat \cup {Unknown}
    /\ subscriptionCount \in Nat
    /\ sourceChanged \in BOOLEAN
    /\ pc \in [Threads -> {"idle", "settling", "rejecting", "queued", "coalescing", "committing"}]
    /\ response \in [Threads -> Responses \cup {NoResponse}]
    /\ held \in [Threads -> Nat] /\ reserved \in [Threads -> Nat]
    /\ DOMAIN tickets \subseteq 1 .. (nextTicket - 1)
    /\ \A k \in DOMAIN tickets :
          /\ tickets[k].phase \in Phases
          /\ tickets[k].subs \subseteq [job : Jobs, checkpoint : Checkpoints]
    /\ asked \subseteq [ticket : 1 .. (nextTicket - 1), job : Jobs, range : Requests]

\* The cache supply builds is canonical, inside the source, within its limits,
\* and cached_bytes counts exactly the offsets it covers.
CacheIsCanonical ==
    /\ Canonical(segments)
    /\ cachedBytes = Cardinality(CachedOffsets)
    /\ cachedBytes <= MaxCached
    /\ Len(segments) <= MaxSegments
    /\ \A o \in CachedOffsets : o < MaxInput /\ (observedLen # Unknown => o < observedLen)

\* While a ticket is pending, its missing list is exactly what each of the reads
\* waiting on it lacks, in canonical form; partial supply keeps it so.
PendingIsExact ==
    \A k \in DOMAIN tickets : Pending(k) =>
        /\ tickets[k].subs # {}
        /\ tickets[k].missing # <<>> /\ Canonical(tickets[k].missing)
        /\ Len(tickets[k].missing) <= MaxMissing
        /\ \A a \in asked : a.ticket = k =>
              /\ OffsetsOf(tickets[k].missing) = Offsets(a.range) \ CachedOffsets
              /\ observedLen # Unknown => a.range.end <= observedLen

\* The count that guards the global limit is the number of subscriptions retained,
\* whichever of the calls that move subscriptions ran, so capacity never leaks.
SubscriptionAccounting ==
    /\ subscriptionCount
          = MapThenSumSet(LAMBDA k : Cardinality(tickets[k].subs), DOMAIN tickets)
    /\ subscriptionCount <= MaxSubscriptions

\* The representation is sound: coalescing, subtraction and counting agree with the
\* set of offsets that are really there, after every kind of response.
StoreIsSound == TypeOK /\ CacheIsCanonical /\ PendingIsExact /\ SubscriptionAccounting

\* Charged capacity is exactly the capacity of the backings that somebody still
\* references plus what calls in progress hold, and never exceeds its ceiling:
\* no return path of supply leaks or returns twice.
ResidentAccounting ==
    LET live == Range(segments) \cup {s.backing : s \in slices}
    IN  /\ resident <= MaxResident
        /\ resident = MapThenSumSet(LAMBDA b : b.cap, live)
                      + MapThenSumSet(LAMBDA t : held[t] + reserved[t], Threads)

\* The slice a poll returned keeps showing the bytes the store has for its range,
\* whatever was coalesced since: two revisions are never spliced together.
SlicesAgree ==
    \A s \in slices : \A o \in Offsets(s.range) :
        \E seg \in Range(segments) :
            o \in Offsets(seg) /\ seg.bytes[o] = s.backing.bytes[o]

\* A ready ticket is no false alarm: every read that waits on it can complete,
\* with bytes of one segment or with the end of the file.
ReadyIsReadable ==
    \A a \in asked :
        a.ticket \in DOMAIN tickets /\ tickets[a.ticket].phase = "Ready" =>
            \/ \E seg \in Range(segments) : Offsets(a.range) \subseteq Offsets(seg)
            \/ observedLen # Unknown /\ a.range.end > observedLen

\* No job that was told to wait is forgotten, and none is held that did not ask: a
\* job is subscribed on its ticket, with one checkpoint, until it leaves or is
\* handed to the runtime.
EveryWaiterIsHeld ==
    /\ \A a \in asked :
          /\ a.ticket \in DOMAIN tickets
          /\ \E s \in tickets[a.ticket].subs : s.job = a.job
    /\ \A k \in DOMAIN tickets : \A s \in tickets[k].subs :
          \E a \in asked : a.ticket = k /\ a.job = s.job
    /\ \A k \in DOMAIN tickets : \A s1, s2 \in tickets[k].subs :
          s1.job = s2.job => s1 = s2

\* Once the source changed, a ticket is pending only while the thread that raised
\* the flag is still on its way to the lock.
ChangeIsBeingSettled ==
    sourceChanged /\ (\E k \in DOMAIN tickets : Pending(k))
        => \E t \in Threads : pc[t] = "settling"

\* After the flag is up no step commits bytes, a length or a ready ticket, not
\* even of a supply that was past its checks when the flag went up.
CommitStep ==
    sourceChanged =>
        /\ UNCHANGED <<store, nextTicket>>
        /\ sourceChanged'
        /\ \A k \in DOMAIN tickets' :
              /\ k \in DOMAIN tickets
              /\ tickets'[k].phase = "Ready" => tickets[k].phase = "Ready"

NoCommitAfterChange == [][CommitStep]_vars

\* The first terminal phase of a ticket stands, a pending ticket is never released,
\* and a released ticket never comes back.
TerminalStep ==
    \A k \in 1 .. (nextTicket - 1) :
        /\ k \in DOMAIN tickets' => k \in DOMAIN tickets
        /\ k \in DOMAIN tickets' /\ ~Pending(k) => tickets'[k].phase = tickets[k].phase
        /\ k \in DOMAIN tickets \ DOMAIN tickets' => ~Pending(k)

FirstTerminalStands == [][TerminalStep]_vars

\* A source change reaches every pending ticket without another call being made.
ChangeSettles == sourceChanged ~> (\A k \in DOMAIN tickets : ~Pending(k))
-----------------------------------------------------------------------------
(* The store as its owner sees it.                                         *)

\* A ticket after the change that the flag already announces; what a terminal
\* ticket missed is dropped.
SeenTicket(k) ==
    LET t == Synchronized[k] IN
    [t EXCEPT !.missing = IF t.phase = "Pending" THEN OffsetsOf(t.missing) ELSE {}]

Promise == INSTANCE TicketStore WITH
    Reads <- {Offsets(r) : r \in Requests},
    Supplies <- {Offsets(r.range) : r \in Responses},
    Lengths <- {r.len : r \in Responses} \cup {s.len : s \in Snapshots},
    FirstLength <- SnapshotLen,
    store <- [known |-> CachedOffsets, length |-> observedLen,
              tickets |-> [k \in DOMAIN tickets |-> SeenTicket(k)],
              next |-> nextTicket, changed |-> sourceChanged]

\* Segments, coalescing, the two atomics and the host threads are invisible: each
\* step of supply, poll and the other calls is one call of the abstract store, or
\* none; a supply takes effect at its commit, a source change at its flag.
ImplementsTicketStore == Promise!Spec
=============================================================================
