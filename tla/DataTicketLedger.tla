--------------------------- MODULE DataTicketLedger ---------------------------
(***************************************************************************)
(* The ledger of outstanding data tickets (runtime/protocol data_ticket.rs): *)
(* sessions are bound to a source, a NeedData event registers a ticket, and *)
(* the host's answer is first prepared, which changes nothing but may show   *)
(* that the source changed, and then committed, which ends the ticket.       *)
(*                                                                         *)
(* Between the two the caller holds a completion by value.  The registry     *)
(* may close the session, bind it again, reuse the ticket number, or replace *)
(* the whole ledger in between; so the model never takes a completion away   *)
(* from its caller, which may have prepared it any number of times.          *)
(***************************************************************************)
EXTENDS Integers, FiniteSets

CONSTANTS
    Workers, Sessions, Tickets,
    Sources,            \* source descriptors
    Wants,              \* request, ranges and checkpoint of a NeedData event
    Capacity,           \* of the bindings, and of the outstanding tickets
    MaxEpoch            \* u64::MAX

VARIABLES
    identity,           \* which ledger this is: the pointer every completion carries
    state, source,      \* SessionSourceBinding of each worker and session
    entries,            \* OutstandingDataTicket
    nextEpoch,
    prepared,           \* the completions that callers hold or have held
    answered, twice     \* history: completions that ended a ticket, by ledger and
                        \* epoch, and whether one ended another

binding == <<state, source>>
history == <<answered, twice>>
vars == <<identity, binding, entries, nextEpoch, prepared, history>>

Keys == Workers \X Sessions

NoSource == "none"

Kinds == {"Provided", "Failed", "SourceChanged"}

Entry == [key : Keys, ticket : Tickets, source : Sources, wants : Wants, epoch : Nat]

EntriesOf(k) == {e \in entries : e.key = k}

Init ==
    /\ identity = 0
    /\ state = [k \in Keys |-> "Unbound"]
    /\ source = [k \in Keys |-> NoSource]
    /\ entries = {}
    /\ nextEpoch = 1
    /\ prepared = {}
    /\ answered = {} /\ twice = FALSE
-----------------------------------------------------------------------------
\* Mutant: a session whose source changed can be bound again.
BindSessionMutant(k, s) ==
    /\ state[k] \in {"Unbound", "Changed"}
    /\ state' = [state EXCEPT ![k] = "Active"]
    /\ source' = [source EXCEPT ![k] = s]
    /\ UNCHANGED <<identity, entries, nextEpoch, prepared, history>>

\* A session that is bound, and even one whose source changed, is not bound again.
BindSession(k, s) ==
    /\ state[k] = "Unbound"
    /\ Cardinality({j \in Keys : state[j] # "Unbound"}) # Capacity
    /\ state' = [state EXCEPT ![k] = "Active"]
    /\ source' = [source EXCEPT ![k] = s]
    /\ UNCHANGED <<identity, entries, nextEpoch, prepared, history>>

\* Mutant: every registration gets the same epoch.
RegisterSameEpoch(k, t, w) ==
    /\ state[k] = "Active"
    /\ Cardinality(entries) # Capacity
    /\ \A e \in EntriesOf(k) : e.ticket # t
    /\ entries' = entries \cup
          {[key |-> k, ticket |-> t, source |-> source[k], wants |-> w, epoch |-> nextEpoch]}
    /\ UNCHANGED <<identity, binding, nextEpoch, prepared, history>>

\* A ticket number is free again once its ticket has ended; the epoch never is.
RegisterNeedData(k, t, w) ==
    /\ state[k] = "Active"
    /\ Cardinality(entries) # Capacity
    /\ \A e \in EntriesOf(k) : e.ticket # t
    /\ nextEpoch < MaxEpoch
    /\ entries' = entries \cup
          {[key |-> k, ticket |-> t, source |-> source[k], wants |-> w, epoch |-> nextEpoch]}
    /\ nextEpoch' = nextEpoch + 1
    /\ UNCHANGED <<identity, binding, prepared, history>>

\* OutstandingDataTicket::pending.  An answer is prepared only if it names the
\* entry's source and exactly its ranges, so a completion is a copy of the entry.
Pending(e, kind) == [ledger |-> identity, entry |-> e, kind |-> kind]

PrepareProvideData(e) ==
    /\ state[e.key] = "Active"
    /\ prepared' = prepared \cup {Pending(e, "Provided")}
    /\ UNCHANGED <<identity, binding, entries, nextEpoch, history>>

\* The source change is observed, and blocks the session, before it is committed.
PrepareFailData(e, kind) ==
    /\ \/ state[e.key] = "Active"
       \/ state[e.key] = "Observed" /\ kind = "SourceChanged"
    /\ prepared' = prepared \cup {Pending(e, kind)}
    /\ state' = IF kind = "SourceChanged" THEN [state EXCEPT ![e.key] = "Observed"] ELSE state
    /\ UNCHANGED <<identity, source, entries, nextEpoch, history>>

\* A commit looks for the ticket number and the epoch, not for what was asked.
Matches(p, e) ==
    e.key = p.entry.key /\ e.ticket = p.entry.ticket /\ e.epoch = p.entry.epoch

Answer(p) ==
    /\ answered' = answered \cup {<<p.ledger, p.entry.epoch>>}
    /\ twice' = (twice \/ <<p.ledger, p.entry.epoch>> \in answered)

\* Mutants: the ticket is left for a retry; an observed source change does not
\* block an answer that was prepared before.
CommitLeavesTicket(p) ==
    /\ p.ledger = identity /\ p.kind # "SourceChanged"
    /\ state[p.entry.key] = "Active"
    /\ \E e \in entries : Matches(p, e)
    /\ Answer(p)
    /\ UNCHANGED <<identity, binding, entries, nextEpoch, prepared>>

CommitWhileObserved(p) ==
    /\ p.ledger = identity /\ p.kind # "SourceChanged"
    /\ state[p.entry.key] \in {"Active", "Observed"}
    /\ \E e \in entries : Matches(p, e) /\ entries' = entries \ {e}
    /\ Answer(p)
    /\ UNCHANGED <<identity, binding, nextEpoch, prepared>>

\* An answer of the current ledger ends its ticket while its source stands.
Commit(p) ==
    /\ p.ledger = identity /\ p.kind # "SourceChanged"
    /\ state[p.entry.key] = "Active"
    /\ \E e \in entries : Matches(p, e) /\ entries' = entries \ {e}
    /\ Answer(p)
    /\ UNCHANGED <<identity, binding, nextEpoch, prepared>>

CommitSourceChanged(p) ==
    /\ p.ledger = identity /\ p.kind = "SourceChanged"
    /\ state[p.entry.key] = "Observed" /\ source[p.entry.key] = p.entry.source
    /\ \E e \in entries : Matches(p, e)
    /\ entries' = entries \ EntriesOf(p.entry.key)
    /\ state' = [state EXCEPT ![p.entry.key] = "Changed"]
    /\ Answer(p)
    /\ UNCHANGED <<identity, source, nextEpoch, prepared>>

\* The sessions in ks are forgotten with their tickets.
Invalidate(ks) ==
    /\ entries' = {e \in entries : e.key \notin ks}
    /\ state' = [k \in Keys |-> IF k \in ks THEN "Unbound" ELSE state[k]]
    /\ source' = [k \in Keys |-> IF k \in ks THEN NoSource ELSE source[k]]
    /\ UNCHANGED <<identity, nextEpoch, prepared, history>>

InvalidateSession(k) == Invalidate({k})

InvalidateWorker(w) == Invalidate({w} \X Sessions)

\* A restart of the registry makes a new ledger, whose epochs begin again.
Replace ==
    /\ identity' = identity + 1
    /\ state' = [k \in Keys |-> "Unbound"]
    /\ source' = [k \in Keys |-> NoSource]
    /\ entries' = {} /\ nextEpoch' = 1
    /\ UNCHANGED <<prepared, history>>
-----------------------------------------------------------------------------
Next ==
    \/ \E k \in Keys :
          \/ \E s \in Sources : BindSession(k, s)
          \/ \E t \in Tickets, w \in Wants : RegisterNeedData(k, t, w)
          \/ InvalidateSession(k)
    \/ \E e \in entries :
          \/ PrepareProvideData(e)
          \/ \E kind \in {"Failed", "SourceChanged"} : PrepareFailData(e, kind)
    \/ \E p \in prepared : Commit(p) \/ CommitSourceChanged(p)
    \/ \E w \in Workers : InvalidateWorker(w)
    \/ Replace

Spec == Init /\ [][Next]_vars
-----------------------------------------------------------------------------
\* Every variable has the type of the field it stands for.
TypeOK ==
    /\ identity \in Nat /\ nextEpoch \in Nat
    /\ state \in [Keys -> {"Unbound", "Active", "Observed", "Changed"}]
    /\ source \in [Keys -> Sources \cup {NoSource}]
    /\ \A k \in Keys : state[k] # "Unbound" => source[k] \in Sources
    /\ entries \subseteq Entry
    /\ prepared \subseteq [ledger : Nat, entry : Entry, kind : Kinds]
    /\ answered \subseteq Nat \X Nat /\ twice \in BOOLEAN

\* "Exactly-once terminal ledger": a registration of a ticket is ended by one commit
\* only and its completion ends nothing else, however often it was prepared and
\* whatever was closed, bound again or replaced in between: not the same ticket, nor
\* the one that has its number and epoch in a later ledger.
AnsweredOnce == ~twice

\* A completion that still finds its epoch was prepared for that very registration:
\* the commit compares two numbers, and the data go to a request that asked for
\* exactly these ranges of this source at this checkpoint.
PreparedIsExact ==
    \A p \in prepared, e \in entries :
        p.ledger = identity /\ Matches(p, e) => p.entry = e

\* The state between observing a source change and committing it is never a dead
\* end: a ticket of the session is left, with the source the commit compares, so
\* a SourceChanged completion can be prepared, again if need be, and committed.
ObservedIsRecoverable ==
    \A k \in Keys : state[k] = "Observed" => \E e \in EntriesOf(k) : e.source = source[k]

\* Tickets are outstanding only for sessions that are bound and not poisoned, and
\* ask for the source their session is bound to.
EntriesAreBound ==
    \A e \in entries : state[e.key] \in {"Active", "Observed"} /\ e.source = source[e.key]

\* Once a source change was observed no other answer of the session wins: its
\* tickets stay until all of them go at once, and only an invalidation makes the
\* session usable again.
FailClosedStep ==
    \A k \in Keys : state[k] \in {"Observed", "Changed"} =>
        /\ state'[k] # "Active"
        /\ EntriesOf(k)' = IF state'[k] = "Observed" THEN EntriesOf(k) ELSE {}

\* No call of the ledger takes any other step while a session is blocked.
FailClosed == [][FailClosedStep]_vars
=============================================================================
