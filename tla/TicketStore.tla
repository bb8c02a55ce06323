----------------------------- MODULE TicketStore -----------------------------
(***************************************************************************)
(* What the byte store promises to its owner: a set of known offsets that   *)
(* only grows, a length that is bound at most once, and tickets that wait   *)
(* for exactly the offsets a read still lacks.  Every call is one step.     *)
(*                                                                         *)
(* RangeStore, with its segments, atomics and host threads, implements this *)
(* module; RangeResume is written against it.  The calls are functions of   *)
(* the store, so an owner that makes several calls in one turn composes     *)
(* them.                                                                   *)
(***************************************************************************)
EXTENDS Integers, FiniteSets, FiniteSetsExt

CONSTANTS
    Jobs, Checkpoints,
    Reads,              \* the sets of offsets a job may read at once
    Supplies,           \* the sets of offsets a response may carry
    Lengths,            \* the lengths the host may report
    FirstLength,        \* the length bound at creation, or NoLength
    MaxSubscriptions    \* max_total_subscriptions

VARIABLE store

NoLength == -1

NewStore ==
    [known |-> {}, length |-> FirstLength, tickets |-> [k \in {} |-> {}],
     next |-> 1, changed |-> FALSE]

TicketRecord(missing, subs, phase) ==
    [missing |-> missing, subs |-> subs, phase |-> phase]

\* What a terminal ticket was waiting for is of no interest any more.
Terminated(t, phase) == TicketRecord({}, t.subs, phase)

PendingIn(st) == {k \in DOMAIN st.tickets : st.tickets[k].phase = "Pending"}

ReadyIn(st) == {k \in DOMAIN st.tickets : st.tickets[k].phase = "Ready"}

PastEnd(offsets, length) == length # NoLength /\ \E o \in offsets : o >= length

\* A length that contradicts the one bound, or the bytes already known.
Contradicts(st, length) ==
    IF st.length # NoLength THEN length # st.length ELSE PastEnd(st.known, length)

SubscriptionsIn(st) ==
    MapThenSumSet(LAMBDA k : Cardinality(st.tickets[k].subs), DOMAIN st.tickets)

-----------------------------------------------------------------------------
(* The calls.                                                              *)

\* The ticket a read waits on: the oldest that waits for the same, or a new one.
TicketFor(st, missing) ==
    LET same == {k \in PendingIn(st) : st.tickets[k].missing = missing}
    IN  IF same = {} THEN st.next ELSE Min(same)

Subscribed(st, sub, missing) ==
    LET k == TicketFor(st, missing)
        others == IF k = st.next THEN {} ELSE st.tickets[k].subs
    IN  [st EXCEPT
            !.next = IF k = st.next THEN @ + 1 ELSE @,
            !.tickets = [j \in DOMAIN @ \cup {k} |->
                IF j = k THEN TicketRecord(missing, others \cup {sub}, "Pending") ELSE @[j]]]

\* Mutant: the first bytes of a wait make it ready.
SuppliedMutant(st, offsets, length) ==
    LET known == st.known \cup offsets
        end == IF st.length = NoLength THEN length ELSE st.length
        after(t) ==
            IF t.phase = "Pending" /\ (t.missing \cap known # {} \/ PastEnd(t.missing, end))
            THEN Terminated(t, "Ready") ELSE t
    IN  [st EXCEPT !.known = known, !.length = end,
                   !.tickets = [k \in DOMAIN @ |-> after(@[k])]]

\* Offsets arrive, and a length may be bound: waits shrink, and those that can
\* go on, with bytes or with the end of the file, become ready.
Supplied(st, offsets, length) ==
    LET known == st.known \cup offsets
        end == IF st.length = NoLength THEN length ELSE st.length
        after(t) ==
            LET left == t.missing \ known
            IN  IF t.phase # "Pending" THEN t
                ELSE IF left = {} \/ PastEnd(left, end) THEN Terminated(t, "Ready")
                ELSE TicketRecord(left, t.subs, "Pending")
    IN  [st EXCEPT !.known = known, !.length = end,
                   !.tickets = [k \in DOMAIN @ |-> after(@[k])]]

Changed(st) ==
    [st EXCEPT !.changed = TRUE,
               !.tickets = [k \in DOMAIN @ |->
                   IF @[k].phase = "Pending" THEN Terminated(@[k], "SourceChanged") ELSE @[k]]]

FailedTicket(st, k) == [st EXCEPT !.tickets[k] = Terminated(@, "Failed")]

Unsubscribed(st, k, job) ==
    LET left == {s \in st.tickets[k].subs : s.job # job}
    IN  [st EXCEPT !.tickets[k] =
            IF left = {} THEN TicketRecord({}, {}, "Abandoned")
            ELSE TicketRecord(@.missing, left, "Pending")]

Taken(st, k) == [st EXCEPT !.tickets[k].subs = {}]

ReleasedTicket(st, k) ==
    [st EXCEPT !.tickets = [j \in DOMAIN @ \ {k} |-> @[j]]]
-----------------------------------------------------------------------------
Init == store = NewStore

\* A read is refused, or waits for all it lacks and for nothing else.
Poll(sub, read) ==
    LET missing == read \ store.known
        k == TicketFor(store, missing)
    IN  /\ ~store.changed
        /\ missing # {} /\ ~PastEnd(read, store.length)
        /\ k # store.next => \A s \in store.tickets[k].subs : s.job # sub.job
        /\ SubscriptionsIn(store) < MaxSubscriptions
        /\ store' = Subscribed(store, sub, missing)

Supply(offsets, length) ==
    /\ ~store.changed /\ ~Contradicts(store, length)
    /\ store' = Supplied(store, offsets, length)

Change == store' = Changed(store)

Fail(k) == k \in PendingIn(store) /\ store' = FailedTicket(store, k)

Unsubscribe(k, job) == k \in PendingIn(store) /\ store' = Unsubscribed(store, k, job)

Take(k) == k \notin PendingIn(store) /\ store' = Taken(store, k)

Release(k) ==
    /\ k \notin PendingIn(store) /\ store.tickets[k].subs = {}
    /\ store' = ReleasedTicket(store, k)

Next ==
    \/ \E sub \in [job : Jobs, checkpoint : Checkpoints], read \in Reads : Poll(sub, read)
    \/ \E offsets \in Supplies \cup {{}}, length \in Lengths \cup {NoLength} :
          Supply(offsets, length)
    \/ Change
    \/ \E k \in DOMAIN store.tickets :
          \/ Fail(k) \/ Take(k) \/ Release(k)
          \/ \E job \in Jobs : Unsubscribe(k, job)

Spec == Init /\ [][Next]_store
=============================================================================
