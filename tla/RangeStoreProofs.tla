-------------------------- MODULE RangeStoreProofs --------------------------
(***************************************************************************)
(* Proofs about the tickets of the range store, for every number of         *)
(* threads and jobs, every limit and every set of requests and responses.   *)
(* What the range algorithms compute stays opaque: nothing here depends on  *)
(* it.                                                                      *)
(***************************************************************************)
EXTENDS RangeStore, TLAPS

Locations == {"idle", "settling", "rejecting", "queued", "coalescing", "committing"}

\* The shape of the variables that the ticket life cycle uses.
Shape ==
    /\ pc \in [Threads -> Locations]
    /\ sourceChanged \in BOOLEAN
    /\ nextTicket \in Nat \ {0}
    /\ DOMAIN tickets \subseteq 1 .. (nextTicket - 1)

\* A pending ticket has somebody waiting, so it cannot be released.
PendingIsAwaited ==
    \A k \in DOMAIN tickets : Pending(k) => tickets[k].subs # {}

\* A thread is on its way to settle a change only when there was one.
SettlingHasCause == \A t \in Threads : pc[t] = "settling" => sourceChanged

Inv ==
    /\ Shape
    /\ SettlingHasCause
    /\ ChangeIsBeingSettled
    /\ EveryWaiterIsHeld
    /\ PendingIsAwaited

\* What every step keeps.
StepOK == Inv' /\ CommitStep /\ TerminalStep

\* Waiters stay held when a step only changes phases and missing ranges.
LEMMA WaitersStay ==
    ASSUME EveryWaiterIsHeld, UNCHANGED asked, DOMAIN tickets' = DOMAIN tickets,
           \A k \in DOMAIN tickets : tickets'[k].subs = tickets[k].subs
    PROVE  EveryWaiterIsHeld'
BY DEF EveryWaiterIsHeld

\* A step that leaves the tickets and the flag alone, and no settling thread behind.
LEMMA QuietStep ==
    ASSUME Inv, UNCHANGED <<tickets, nextTicket, asked, sourceChanged>>,
           pc' \in [Threads -> Locations],
           \A t \in Threads : pc'[t] = "settling" <=> pc[t] = "settling",
           sourceChanged => UNCHANGED store
    PROVE  StepOK
<1>1. Shape' /\ PendingIsAwaited' /\ SettlingHasCause'
  BY DEF Inv, Shape, PendingIsAwaited, Pending, SettlingHasCause
<1>2. EveryWaiterIsHeld'
  BY DEF Inv, EveryWaiterIsHeld
<1>3. ChangeIsBeingSettled'
  BY DEF Inv, ChangeIsBeingSettled, Pending
<1>4. CommitStep /\ TerminalStep
  BY DEF CommitStep, TerminalStep, Inv, Shape
<1> QED
  BY <1>1, <1>2, <1>3, <1>4 DEF StepOK, Inv

\* transition_source_changed under the lock, with the flag up afterwards: whatever
\* the thread does with its call, no ticket is pending any more.
LEMMA SettledStep ==
    ASSUME Inv, tickets' = SourceChangedTickets, sourceChanged' = TRUE,
           UNCHANGED <<store, nextTicket, asked>>,
           pc' \in [Threads -> Locations]
    PROVE  StepOK
<1>1. /\ DOMAIN tickets' = DOMAIN tickets
      /\ \A k \in DOMAIN tickets :
            /\ tickets'[k].subs = tickets[k].subs
            /\ tickets'[k].phase # "Pending"
            /\ tickets'[k].phase = "Ready" => tickets[k].phase = "Ready"
            /\ ~Pending(k) => tickets'[k].phase = tickets[k].phase
  BY DEF SourceChangedTickets, Ticket, Pending
<1>2. Shape' /\ PendingIsAwaited' /\ SettlingHasCause'
  BY <1>1 DEF Inv, Shape, PendingIsAwaited, Pending, SettlingHasCause
<1>3. EveryWaiterIsHeld'
  BY <1>1, WaitersStay DEF Inv
<1>4. ChangeIsBeingSettled'
  BY <1>1 DEF ChangeIsBeingSettled, Pending
<1>5. CommitStep /\ TerminalStep
  BY <1>1 DEF CommitStep, TerminalStep
<1> QED
  BY <1>2, <1>3, <1>4, <1>5 DEF StepOK, Inv

\* A commit before any source change: tickets may become ready or wait for less.
LEMMA CommittedStep ==
    ASSUME Inv, ~sourceChanged, UNCHANGED <<nextTicket, asked, sourceChanged>>,
           pc' \in [Threads -> Locations],
           \A t \in Threads : pc'[t] = "settling" => pc[t] = "settling",
           DOMAIN tickets' = DOMAIN tickets,
           \A k \in DOMAIN tickets :
              /\ tickets'[k].subs = tickets[k].subs
              /\ ~Pending(k) => tickets'[k].phase = tickets[k].phase
    PROVE  StepOK
<1>1. Shape' /\ SettlingHasCause'
  BY DEF Inv, Shape, SettlingHasCause
<1>2. PendingIsAwaited'
  BY DEF Inv, PendingIsAwaited, Pending
<1>3. EveryWaiterIsHeld'
  BY WaitersStay DEF Inv
<1>4. ChangeIsBeingSettled' /\ CommitStep /\ TerminalStep
  BY DEF ChangeIsBeingSettled, CommitStep, TerminalStep
<1> QED
  BY <1>1, <1>2, <1>3, <1>4 DEF StepOK, Inv

-----------------------------------------------------------------------------
\* Raising the flag: the thread that raised it is on its way to the lock.
LEMMA RaiseKeeps ==
    ASSUME Inv, NEW t \in Threads, RaiseSourceChanged(t)
    PROVE  StepOK
<1> USE DEF RaiseSourceChanged, book, store, call
<1>1. pc' \in [Threads -> Locations] /\ pc'[t] = "settling"
  BY DEF Inv, Shape, Locations
<1>2. Shape' /\ PendingIsAwaited' /\ SettlingHasCause'
  BY <1>1 DEF Inv, Shape, PendingIsAwaited, Pending, SettlingHasCause
<1>3. EveryWaiterIsHeld'
  BY DEF Inv, EveryWaiterIsHeld
<1>4. ChangeIsBeingSettled'
  BY <1>1 DEF ChangeIsBeingSettled
<1>5. CommitStep /\ TerminalStep
  BY DEF CommitStep, TerminalStep
<1> QED
  BY <1>2, <1>3, <1>4, <1>5 DEF StepOK, Inv

\* A thread that ends its call is idle, the others are where they were.
LEMMA IdleShape ==
    ASSUME Inv, NEW t \in Threads, Idle(t)
    PROVE  /\ pc' \in [Threads -> Locations]
           /\ \A u \in Threads : pc'[u] = "settling" <=> pc[u] = "settling" /\ u # t
BY DEF Inv, Shape, Idle, Locations

\* Settle: the tickets move while the flag, once up, stays up.
LEMMA SettleKeeps ==
    ASSUME Inv, NEW t \in Threads, Settle(t)
    PROVE  StepOK
<1>1. pc' \in [Threads -> Locations] /\ sourceChanged
  BY IdleShape DEF Settle, Inv, SettlingHasCause
<1> QED
  BY <1>1, SettledStep DEF Settle

\* The commits of a length without bytes, by observe_snapshot or a covered supply.
LEMMA BindLenKeeps ==
    ASSUME Inv, ~sourceChanged, NEW len, BindLen(len),
           UNCHANGED <<nextTicket, asked, sourceChanged>>,
           pc' \in [Threads -> Locations],
           \A t \in Threads : pc'[t] = "settling" => pc[t] = "settling"
    PROVE  StepOK
<1>1. /\ DOMAIN tickets' = DOMAIN tickets
      /\ \A k \in DOMAIN tickets :
            /\ tickets'[k].subs = tickets[k].subs
            /\ ~Pending(k) => tickets'[k].phase = tickets[k].phase
  <2>1. CASE tickets' = tickets
    BY <2>1
  <2>2. CASE tickets' = CompletedAtEof(len)
    BY <2>2 DEF CompletedAtEof, Ticket, Pending
  <2> QED
    BY <2>1, <2>2 DEF BindLen
<1> QED
  BY <1>1, CommittedStep

\* observe_snapshot: a foreign snapshot raises the flag, a contradicting one poisons
\* the source, an agreeing one may bind the length.
LEMMA ObserveKeeps ==
    ASSUME Inv, NEW t \in Threads, NEW s \in Snapshots, ObserveSnapshot(t, s)
    PROVE  StepOK
<1>1. pc \in [Threads -> Locations]
  BY DEF Inv, Shape
<1>2. CASE RaiseSourceChanged(t)
  BY <1>2, RaiseKeeps
<1>3. CASE PoisonSource /\ UNCHANGED <<store, nextTicket, asked, call>>
  BY <1>1, <1>3, SettledStep DEF PoisonSource, call
<1>4. CASE /\ ~sourceChanged /\ BindLen(s.len)
           /\ UNCHANGED <<nextTicket, asked, call, sourceChanged>>
  BY <1>1, <1>4, BindLenKeeps DEF call
<1> QED
  BY <1>2, <1>3, <1>4 DEF ObserveSnapshot

\* supply before the lock moves no ticket.
LEMMA AdmitKeeps ==
    ASSUME Inv, NEW t \in Threads, NEW r \in Responses, SupplyAdmit(t, r)
    PROVE  StepOK
<1>1. CASE RaiseSourceChanged(t)
  BY <1>1, RaiseKeeps
<1>2. CASE ~RaiseSourceChanged(t)
  <2>1. /\ UNCHANGED <<store, book, sourceChanged>>
        /\ ~sourceChanged
        /\ \/ pc' = [pc EXCEPT ![t] = "queued"]
           \/ pc' = [pc EXCEPT ![t] = "rejecting"]
        /\ pc[t] = "idle"
    BY <1>2 DEF SupplyAdmit
  <2>2. /\ pc' \in [Threads -> Locations]
        /\ \A u \in Threads : pc'[u] = "settling" <=> pc[u] = "settling"
    BY <2>1 DEF Inv, Shape, Locations
  <2> QED
    BY <2>1, <2>2, QuietStep DEF book
<1> QED
  BY <1>1, <1>2

\* A response over a limit is dropped, or condemns the source.
LEMMA RejectKeeps ==
    ASSUME Inv, NEW t \in Threads, SupplyReject(t)
    PROVE  StepOK
<1>1. /\ pc' \in [Threads -> Locations]
      /\ \A u \in Threads : pc'[u] = "settling" <=> pc[u] = "settling"
  BY IdleShape DEF SupplyReject
<1>2. CASE PoisonSource
  BY <1>1, <1>2, SettledStep DEF SupplyReject, PoisonSource
<1>3. CASE UNCHANGED <<sourceChanged, tickets>>
  BY <1>1, <1>3, QuietStep DEF SupplyReject
<1> QED
  BY <1>2, <1>3 DEF SupplyReject

\* An early return of supply, with the tickets as they were.
LEMMA DropKeeps ==
    ASSUME Inv, NEW t \in Threads, pc[t] # "settling", SupplyDrop(t),
           UNCHANGED <<store, tickets, sourceChanged>>
    PROVE  StepOK
<1>1. /\ pc' \in [Threads -> Locations]
      /\ \A u \in Threads : pc'[u] = "settling" <=> pc[u] = "settling"
  BY IdleShape DEF SupplyDrop
<1> QED
  BY <1>1, QuietStep DEF SupplyDrop

\* The locked part of supply up to coalescing.
LEMMA PlanKeeps ==
    ASSUME Inv, NEW t \in Threads, SupplyPlan(t)
    PROVE  StepOK
<1> DEFINE r == response[t]
<1>0. pc[t] = "queued"
  BY DEF SupplyPlan
<1>1. CASE PoisonSource /\ SupplyDrop(t) /\ UNCHANGED store
  <2>1. pc' \in [Threads -> Locations]
    BY <1>1, IdleShape DEF SupplyDrop
  <2> QED
    BY <1>1, <2>1, SettledStep DEF PoisonSource, SupplyDrop
<1>2. CASE SupplyDrop(t) /\ UNCHANGED <<store, tickets, sourceChanged>>
  BY <1>0, <1>2, DropKeeps
<1>3. CASE ~sourceChanged /\ BindLen(r.len) /\ SupplyDrop(t) /\ UNCHANGED sourceChanged
  <2>1. /\ pc' \in [Threads -> Locations]
        /\ \A u \in Threads : pc'[u] = "settling" => pc[u] = "settling"
    BY <1>3, IdleShape DEF SupplyDrop
  <2>2. UNCHANGED <<nextTicket, asked, sourceChanged>>
    BY <1>3 DEF SupplyDrop
  <2> HIDE DEF r
  <2> QED
    BY <1>3, <2>1, <2>2, BindLenKeeps
<1>4. CASE /\ ~sourceChanged
           /\ \/ pc' = [pc EXCEPT ![t] = "committing"]
              \/ pc' = [pc EXCEPT ![t] = "coalescing"]
           /\ UNCHANGED <<store, book, sourceChanged>>
  <2>1. /\ pc' \in [Threads -> Locations]
        /\ \A u \in Threads : pc'[u] = "settling" <=> pc[u] = "settling"
    BY <1>0, <1>4 DEF Inv, Shape, Locations
  <2> QED
    BY <1>4, <2>1, QuietStep DEF book
<1> QED
  BY <1>1, <1>2, <1>3, <1>4 DEF SupplyPlan

\* Coalescing allocates and releases capacity; the tickets do not see it.
LEMMA CoalesceKeeps ==
    ASSUME Inv, NEW t \in Threads, SupplyCoalesce(t)
    PROVE  StepOK
<1>0. pc[t] = "coalescing" /\ UNCHANGED <<store, tickets, sourceChanged>>
  BY DEF SupplyCoalesce
<1>1. CASE SupplyDrop(t)
  BY <1>0, <1>1, DropKeeps
<1>2. CASE pc' = [pc EXCEPT ![t] = "committing"] /\ UNCHANGED <<nextTicket, asked>>
  <2>1. /\ pc' \in [Threads -> Locations]
        /\ \A u \in Threads : pc'[u] = "settling" <=> pc[u] = "settling"
    BY <1>0, <1>2 DEF Inv, Shape, Locations
  <2> QED
    BY <1>0, <1>2, <2>1, QuietStep
<1> QED
  BY <1>1, <1>2 DEF SupplyCoalesce

\* The commit looks at the flag once more: it settles the tickets or updates them.
LEMMA CommitKeeps ==
    ASSUME Inv, NEW t \in Threads, SupplyCommit(t)
    PROVE  StepOK
<1>0. /\ pc[t] = "committing" /\ Idle(t)
      /\ UNCHANGED <<sourceChanged, nextTicket, asked>>
  BY DEF SupplyCommit, SupplyDrop
<1>1. /\ pc' \in [Threads -> Locations]
      /\ \A u \in Threads : pc'[u] = "settling" => pc[u] = "settling"
  BY <1>0, IdleShape
<1>2. CASE sourceChanged
  BY <1>0, <1>1, <1>2, SettledStep DEF SupplyCommit
<1>3. CASE ~sourceChanged
  <2> DEFINE len == BoundLen(response[t].len)
  <2>1. tickets' = UpdatedTickets(segments', len)
    BY <1>3 DEF SupplyCommit
  <2> HIDE DEF len
  <2>2. /\ DOMAIN tickets' = DOMAIN tickets
        /\ \A k \in DOMAIN tickets :
              /\ tickets'[k].subs = tickets[k].subs
              /\ ~Pending(k) => tickets'[k].phase = tickets[k].phase
    BY <2>1 DEF UpdatedTickets, Ticket
  <2> QED
    BY <1>0, <1>1, <1>3, <2>2, CommittedStep
<1> QED
  BY <1>2, <1>3

-----------------------------------------------------------------------------
\* A poll that joins a pending ticket adds its job once.
LEMMA SubscribeKeeps ==
    ASSUME Inv, ~sourceChanged, NEW job \in Jobs, NEW c \in Checkpoints, NEW r \in Requests,
           PollSubscribe(job, c, r), UNCHANGED <<store, call, sourceChanged>>
    PROVE  StepOK
<1> DEFINE missing == UncoveredSpans(segments, r)
           sub == Subscription(job, c)
<1>1. PICK k \in Waiting(missing) :
         /\ IF \E s \in tickets[k].subs : s.job = job
            THEN sub \in tickets[k].subs /\ tickets' = tickets
            ELSE tickets' = [tickets EXCEPT ![k] =
                    Ticket(missing, tickets[k].subs \cup {sub}, "Pending")]
         /\ asked' = asked \cup {Ask(k, job, r)}
  BY DEF PollSubscribe
<1> HIDE DEF missing
<1>2. k \in DOMAIN tickets /\ Pending(k)
  BY DEF Waiting
<1>3. sub.job = job /\ Ask(k, job, r).ticket = k /\ Ask(k, job, r).job = job
  BY DEF Subscription, Ask
<1> HIDE DEF sub
<1>4. /\ DOMAIN tickets' = DOMAIN tickets
      /\ tickets'[k].subs = tickets[k].subs \cup {sub}
      /\ tickets'[k].phase = "Pending"
      /\ \A j \in DOMAIN tickets : j # k => tickets'[j] = tickets[j]
  BY <1>1, <1>2 DEF Ticket, Pending
<1>5. \A s \in tickets[k].subs : s.job = job => s = sub
  BY <1>1, <1>2, <1>3 DEF Inv, EveryWaiterIsHeld
<1>6. UNCHANGED <<pc, nextTicket, sourceChanged>>
  BY DEF PollSubscribe, call
<1>7. Shape' /\ SettlingHasCause'
  BY <1>4, <1>6 DEF Inv, Shape, SettlingHasCause
<1>8. PendingIsAwaited'
  BY <1>4 DEF Inv, PendingIsAwaited, Pending
<1>9. EveryWaiterIsHeld'
  <2>1. ASSUME NEW a \in asked'
        PROVE  a.ticket \in DOMAIN tickets' /\ \E s \in tickets'[a.ticket].subs : s.job = a.job
    <3>1. CASE a \in asked
      BY <3>1, <1>4 DEF Inv, EveryWaiterIsHeld
    <3>2. CASE a = Ask(k, job, r)
      BY <3>2, <1>2, <1>3, <1>4
    <3> QED
      BY <3>1, <3>2, <1>1
  <2>2. ASSUME NEW j \in DOMAIN tickets', NEW s \in tickets'[j].subs
        PROVE  \E a \in asked' : a.ticket = j /\ a.job = s.job
    <3>1. CASE s \in tickets[j].subs
      BY <3>1, <1>1, <1>4 DEF Inv, EveryWaiterIsHeld
    <3>2. CASE j = k /\ s = sub
      BY <3>2, <1>1, <1>3
    <3> QED
      BY <3>1, <3>2, <1>4
  <2>3. ASSUME NEW j \in DOMAIN tickets', NEW s1 \in tickets'[j].subs,
               NEW s2 \in tickets'[j].subs, s1.job = s2.job
        PROVE  s1 = s2
    <3>1. CASE j # k
      BY <3>1, <2>3, <1>4 DEF Inv, EveryWaiterIsHeld
    <3>2. CASE j = k
      BY <3>2, <2>3, <1>2, <1>3, <1>4, <1>5 DEF Inv, EveryWaiterIsHeld
    <3> QED
      BY <3>1, <3>2
  <2> QED
    BY <2>1, <2>2, <2>3 DEF EveryWaiterIsHeld
<1>10. ChangeIsBeingSettled' /\ CommitStep
  BY <1>6 DEF ChangeIsBeingSettled, CommitStep
<1>11. TerminalStep
  BY <1>2, <1>4 DEF TerminalStep, Pending
<1> QED
  BY <1>7, <1>8, <1>9, <1>10, <1>11 DEF StepOK, Inv

\* A poll that creates a ticket subscribes its job on it.
LEMMA NewTicketKeeps ==
    ASSUME Inv, ~sourceChanged, NEW job \in Jobs, NEW c \in Checkpoints, NEW r \in Requests,
           PollNewTicket(job, c, r), UNCHANGED <<store, call, sourceChanged>>
    PROVE  StepOK
<1> DEFINE sub == Subscription(job, c)
           n == nextTicket
<1>1. /\ DOMAIN tickets' = DOMAIN tickets \cup {n}
      /\ tickets'[n].subs = {sub}
      /\ \A k \in DOMAIN tickets : k # n => tickets'[k] = tickets[k]
      /\ asked' = asked \cup {Ask(n, job, r)}
      /\ nextTicket' = n + 1
  BY DEF PollNewTicket, Ticket
<1>2. sub.job = job /\ Ask(n, job, r).ticket = n /\ Ask(n, job, r).job = job
  BY DEF Subscription, Ask
<1> HIDE DEF sub
<1>3. n \in Nat /\ n >= 1 /\ n \notin DOMAIN tickets /\ n \notin 1 .. (n - 1)
  BY DEF Inv, Shape
<1>4. UNCHANGED <<pc, sourceChanged>>
  BY DEF call
<1>5. Shape' /\ SettlingHasCause'
  BY <1>1, <1>3, <1>4 DEF Inv, Shape, SettlingHasCause
<1> HIDE DEF n
<1>6. PendingIsAwaited'
  <2>1. \A k \in DOMAIN tickets : tickets'[k] = tickets[k]
    BY <1>1, <1>3
  <2> QED
    BY <1>1, <2>1 DEF Inv, PendingIsAwaited, Pending
<1>7. EveryWaiterIsHeld'
  <2>1. ASSUME NEW a \in asked'
        PROVE  a.ticket \in DOMAIN tickets' /\ \E s \in tickets'[a.ticket].subs : s.job = a.job
    <3>1. CASE a \in asked
      BY <3>1, <1>1, <1>3 DEF Inv, EveryWaiterIsHeld
    <3>2. CASE a = Ask(n, job, r)
      BY <3>2, <1>1, <1>2
    <3> QED
      BY <3>1, <3>2, <1>1
  <2>2. ASSUME NEW j \in DOMAIN tickets', NEW s \in tickets'[j].subs
        PROVE  \E a \in asked' : a.ticket = j /\ a.job = s.job
    <3>1. CASE j \in DOMAIN tickets
      BY <3>1, <1>1, <1>3 DEF Inv, EveryWaiterIsHeld
    <3>2. CASE j = n
      BY <3>2, <1>1, <1>2
    <3> QED
      BY <3>1, <3>2, <1>1
  <2>3. \A j \in DOMAIN tickets' : \A s1, s2 \in tickets'[j].subs : s1.job = s2.job => s1 = s2
    BY <1>1, <1>3 DEF Inv, EveryWaiterIsHeld
  <2> QED
    BY <2>1, <2>2, <2>3, ZenonT(60) DEF EveryWaiterIsHeld
<1>8. ChangeIsBeingSettled' /\ CommitStep
  BY <1>4 DEF ChangeIsBeingSettled, CommitStep
<1>9. TerminalStep
  BY <1>1, <1>3 DEF TerminalStep, n
<1> QED
  BY <1>5, <1>6, <1>7, <1>8, <1>9 DEF StepOK, Inv

-----------------------------------------------------------------------------
\* What synchronize_source_change does to a ticket under the lock.
LEMMA SynchronizedFacts ==
    /\ DOMAIN Synchronized = DOMAIN tickets
    /\ \A k \in DOMAIN tickets :
          /\ Synchronized[k].subs = tickets[k].subs
          /\ ~Pending(k) => Synchronized[k].phase = tickets[k].phase
          /\ Synchronized[k].phase = "Ready" => tickets[k].phase = "Ready"
          /\ Synchronized[k].phase = "Pending" => ~sourceChanged /\ Pending(k)
BY DEF Synchronized, SourceChangedTickets, Ticket, Pending

\* A call under the lock that creates no ticket and completes none.
LEMMA LockedStep ==
    ASSUME Inv, UNCHANGED <<store, nextTicket, sourceChanged, pc>>, EveryWaiterIsHeld',
           DOMAIN tickets' \subseteq DOMAIN tickets,
           \A k \in DOMAIN tickets' :
              /\ ~Pending(k) => tickets'[k].phase = tickets[k].phase
              /\ tickets'[k].phase = "Ready" => tickets[k].phase = "Ready"
              /\ tickets'[k].phase = "Pending" => ~sourceChanged /\ tickets'[k].subs # {},
           \A k \in DOMAIN tickets \ DOMAIN tickets' : ~Pending(k)
    PROVE  StepOK
<1>1. Shape' /\ SettlingHasCause'
  BY DEF Inv, Shape, SettlingHasCause
<1>2. PendingIsAwaited' /\ ChangeIsBeingSettled'
  BY DEF PendingIsAwaited, ChangeIsBeingSettled, Pending
<1>3. CommitStep
  BY DEF CommitStep
<1>4. TerminalStep
  BY DEF TerminalStep
<1> QED
  BY <1>1, <1>2, <1>3, <1>4 DEF StepOK, Inv

\* ticket_status, and every refused call: the tickets are only synchronized.
LEMMA SyncKeeps ==
    ASSUME Inv, tickets' = Synchronized,
           UNCHANGED <<store, nextTicket, sourceChanged, pc, asked>>
    PROVE  StepOK
<1>1. EveryWaiterIsHeld'
  BY SynchronizedFacts, WaitersStay DEF Inv
<1>2. \A k \in DOMAIN tickets : Pending(k) => tickets[k].subs # {}
  BY DEF Inv, PendingIsAwaited
<1> QED
  BY <1>1, <1>2, SynchronizedFacts, LockedStep

\* fail_ticket: an integrity failure poisons the source, any other fails a pending
\* ticket.
LEMMA FailKeeps ==
    ASSUME Inv, NEW k \in DOMAIN tickets, NEW integrity \in BOOLEAN, FailTicket(k, integrity)
    PROVE  StepOK
<1>0. UNCHANGED <<store, nextTicket, pc, asked>>
  BY DEF FailTicket, call
<1>1. CASE integrity
  BY <1>0, <1>1, SettledStep DEF FailTicket, PoisonSource, Inv, Shape
<1>2. CASE ~integrity
  <2>1. /\ DOMAIN tickets' = DOMAIN tickets
        /\ \A j \in DOMAIN tickets : j # k => tickets'[j] = Synchronized[j]
        /\ tickets'[k].subs = Synchronized[k].subs
        /\ tickets'[k].phase =
              IF Synchronized[k].phase = "Pending" THEN "Failed" ELSE Synchronized[k].phase
        /\ UNCHANGED sourceChanged
    BY <1>2, SynchronizedFacts DEF FailTicket, Ticket
  <2>2. \A j \in DOMAIN tickets : tickets'[j].subs = tickets[j].subs
    BY <2>1, SynchronizedFacts
  <2>3. EveryWaiterIsHeld'
    BY <1>0, <2>1, <2>2, WaitersStay DEF Inv
  <2>4. \A j \in DOMAIN tickets :
           /\ ~Pending(j) => tickets'[j].phase = tickets[j].phase
           /\ tickets'[j].phase = "Ready" => tickets[j].phase = "Ready"
           /\ tickets'[j].phase = "Pending" => ~sourceChanged /\ Pending(j)
    BY <2>1, SynchronizedFacts DEF Pending
  <2>5. \A j \in DOMAIN tickets : Pending(j) => tickets[j].subs # {}
    BY DEF Inv, PendingIsAwaited
  <2> QED
    BY <1>0, <2>1, <2>2, <2>3, <2>4, <2>5, LockedStep
<1> QED
  BY <1>1, <1>2

\* unsubscribe: the job leaves a pending ticket, which the last one abandons.
LEMMA UnsubscribeKeeps ==
    ASSUME Inv, NEW k \in DOMAIN tickets, NEW job \in Jobs, Unsubscribe(k, job)
    PROVE  StepOK
<1>0. UNCHANGED <<store, nextTicket, sourceChanged, pc>>
  BY DEF Unsubscribe, call
<1>1. CASE Synchronized[k].phase # "Pending"
  BY <1>0, <1>1, SyncKeeps DEF Unsubscribe
<1>2. CASE Synchronized[k].phase = "Pending"
  <2> DEFINE left == {s \in tickets[k].subs : s.job # job}
  <2>1. ~sourceChanged /\ Pending(k)
    BY <1>2, SynchronizedFacts
  <2>2. /\ DOMAIN tickets' = DOMAIN tickets
        /\ \A j \in DOMAIN tickets : j # k => tickets'[j] = tickets[j]
        /\ tickets'[k].subs = left
        /\ tickets'[k].phase = (IF left = {} THEN "Abandoned" ELSE "Pending")
        /\ asked' = {a \in asked : ~(a.ticket = k /\ a.job = job)}
    BY <1>2 DEF Unsubscribe, Ticket
  <2>3. \A j \in DOMAIN tickets : tickets'[j].subs \subseteq tickets[j].subs
    BY <2>2
  <2>4. EveryWaiterIsHeld'
    <3>1. ASSUME NEW a \in asked'
          PROVE  a.ticket \in DOMAIN tickets' /\ \E s \in tickets'[a.ticket].subs : s.job = a.job
      BY <2>2 DEF Inv, EveryWaiterIsHeld
    <3>2. ASSUME NEW j \in DOMAIN tickets', NEW s \in tickets'[j].subs
          PROVE  \E a \in asked' : a.ticket = j /\ a.job = s.job
      BY <2>2 DEF Inv, EveryWaiterIsHeld
    <3>3. \A j \in DOMAIN tickets' : \A s1, s2 \in tickets'[j].subs : s1.job = s2.job => s1 = s2
      BY <2>2, <2>3 DEF Inv, EveryWaiterIsHeld
    <3> QED
      BY <3>1, <3>2, <3>3 DEF EveryWaiterIsHeld
  <2>5. \A j \in DOMAIN tickets :
           /\ ~Pending(j) => tickets'[j].phase = tickets[j].phase
           /\ tickets'[j].phase = "Ready" => tickets[j].phase = "Ready"
           /\ tickets'[j].phase = "Pending" => tickets'[j].subs # {}
    BY <2>1, <2>2 DEF Inv, PendingIsAwaited, Pending
  <2> QED
    BY <1>0, <2>1, <2>2, <2>4, <2>5, LockedStep
<1> QED
  BY <1>1, <1>2

\* take_subscriptions: the waiters of a terminal ticket are handed over together.
LEMMA TakeKeeps ==
    ASSUME Inv, NEW k \in DOMAIN tickets, TakeSubscriptions(k)
    PROVE  StepOK
<1>0. UNCHANGED <<store, nextTicket, sourceChanged, pc>>
  BY DEF TakeSubscriptions, call
<1>1. /\ DOMAIN tickets' = DOMAIN tickets
      /\ \A j \in DOMAIN tickets : j # k => tickets'[j] = Synchronized[j]
      /\ tickets'[k].subs = {}
      /\ tickets'[k].phase = Synchronized[k].phase
      /\ tickets'[k].phase # "Pending"
  BY SynchronizedFacts DEF TakeSubscriptions, Ticket
<1>2. asked' = {a \in asked : ~(a.ticket = k /\ \E s \in tickets[k].subs : s.job = a.job)}
  BY DEF TakeSubscriptions
<1>3. \A j \in DOMAIN tickets : j # k => tickets'[j].subs = tickets[j].subs
  BY <1>1, SynchronizedFacts
<1>4. \A a \in asked : a \in asked' <=> a.ticket # k
  BY <1>2 DEF Inv, EveryWaiterIsHeld
<1>5. EveryWaiterIsHeld'
  <2>1. ASSUME NEW a \in asked'
        PROVE  a.ticket \in DOMAIN tickets' /\ \E s \in tickets'[a.ticket].subs : s.job = a.job
    BY <1>1, <1>2, <1>3, <1>4 DEF Inv, EveryWaiterIsHeld
  <2>2. ASSUME NEW j \in DOMAIN tickets', NEW s \in tickets'[j].subs
        PROVE  \E a \in asked' : a.ticket = j /\ a.job = s.job
    BY <1>1, <1>3, <1>4 DEF Inv, EveryWaiterIsHeld
  <2>3. \A j \in DOMAIN tickets' : \A s1, s2 \in tickets'[j].subs : s1.job = s2.job => s1 = s2
    BY <1>1, <1>3 DEF Inv, EveryWaiterIsHeld
  <2> QED
    BY <2>1, <2>2, <2>3 DEF EveryWaiterIsHeld
<1>6. \A j \in DOMAIN tickets :
         /\ ~Pending(j) => tickets'[j].phase = tickets[j].phase
         /\ tickets'[j].phase = "Ready" => tickets[j].phase = "Ready"
         /\ tickets'[j].phase = "Pending" => ~sourceChanged /\ tickets'[j].subs # {}
  BY <1>1, <1>3, SynchronizedFacts DEF Inv, PendingIsAwaited
<1> QED
  BY <1>0, <1>1, <1>5, <1>6, LockedStep

\* release_ticket: only a terminal ticket without waiters goes away.
LEMMA ReleaseKeeps ==
    ASSUME Inv, NEW k \in DOMAIN tickets, ReleaseTicket(k)
    PROVE  StepOK
<1>0. UNCHANGED <<store, nextTicket, sourceChanged, pc, asked>>
  BY DEF ReleaseTicket, call
<1>1. CASE tickets' = Synchronized
  BY <1>0, <1>1, SyncKeeps
<1>2. CASE /\ tickets[k].subs = {}
           /\ tickets' = [j \in DOMAIN tickets \ {k} |-> Synchronized[j]]
  <2>1. /\ DOMAIN tickets' = DOMAIN tickets \ {k}
        /\ \A j \in DOMAIN tickets' : tickets'[j] = Synchronized[j]
    BY <1>2
  <2>2. \A j \in DOMAIN tickets' : tickets'[j].subs = tickets[j].subs
    BY <2>1, SynchronizedFacts
  <2>3. EveryWaiterIsHeld'
    <3>1. \A a \in asked : a.ticket # k
      BY <1>2 DEF Inv, EveryWaiterIsHeld
    <3>2. ASSUME NEW a \in asked
          PROVE  a.ticket \in DOMAIN tickets' /\ \E s \in tickets'[a.ticket].subs : s.job = a.job
      BY <2>1, <2>2, <3>1 DEF Inv, EveryWaiterIsHeld
    <3>3. ASSUME NEW j \in DOMAIN tickets', NEW s \in tickets'[j].subs
          PROVE  \E a \in asked : a.ticket = j /\ a.job = s.job
      BY <2>1, <2>2 DEF Inv, EveryWaiterIsHeld
    <3>4. \A j \in DOMAIN tickets' : \A s1, s2 \in tickets'[j].subs : s1.job = s2.job => s1 = s2
      BY <2>1, <2>2 DEF Inv, EveryWaiterIsHeld
    <3> QED
      BY <1>0, <3>2, <3>3, <3>4 DEF EveryWaiterIsHeld
  <2>4. ~Pending(k)
    BY <1>2 DEF Inv, PendingIsAwaited
  <2>5. \A j \in DOMAIN tickets' :
           /\ ~Pending(j) => tickets'[j].phase = tickets[j].phase
           /\ tickets'[j].phase = "Ready" => tickets[j].phase = "Ready"
           /\ tickets'[j].phase = "Pending" => ~sourceChanged /\ tickets'[j].subs # {}
    BY <2>1, <2>2, SynchronizedFacts DEF Inv, PendingIsAwaited
  <2> QED
    BY <1>0, <2>1, <2>3, <2>4, <2>5, LockedStep
<1> QED
  BY <1>1, <1>2 DEF ReleaseTicket

\* poll: a source change is settled, an answer of bytes moves no ticket, a wait
\* joins a ticket or creates one.
LEMMA PollKeeps ==
    ASSUME Inv, NEW job \in Jobs, NEW c \in Checkpoints, NEW r \in Requests, Poll(job, c, r)
    PROVE  StepOK
<1>0. UNCHANGED <<store, call, sourceChanged, pc>> /\ pc \in [Threads -> Locations]
  BY DEF Poll, call, Inv, Shape
<1>1. CASE sourceChanged
  BY <1>0, <1>1, SettledStep DEF Poll
<1>2. CASE ~sourceChanged /\ PollReady(r)
  BY <1>0, <1>2, QuietStep DEF PollReady, book
<1>3. CASE ~sourceChanged /\ PollSubscribe(job, c, r)
  BY <1>0, <1>3, SubscribeKeeps
<1>4. CASE ~sourceChanged /\ PollNewTicket(job, c, r)
  BY <1>0, <1>4, NewTicketKeeps
<1> QED
  BY <1>1, <1>2, <1>3, <1>4 DEF Poll
-----------------------------------------------------------------------------
\* A new store has no tickets and nobody in a call.
LEMMA InvInit == Init => Inv
<1> SUFFICES ASSUME Init PROVE Inv
  OBVIOUS
<1>1. /\ DOMAIN tickets = {} /\ asked = {}
      /\ nextTicket = 1 /\ sourceChanged = FALSE
      /\ pc = [t \in Threads |-> "idle"]
  BY DEF Init
<1>2. pc \in [Threads -> Locations]
  BY <1>1 DEF Locations
<1>3. Shape
  <2>1. sourceChanged \in BOOLEAN
    BY <1>1, Zenon
  <2>2. nextTicket \in Nat \ {0}
    BY <1>1
  <2>3. DOMAIN tickets \subseteq 1 .. (nextTicket - 1)
    BY <1>1, Zenon
  <2> QED
    BY <1>2, <2>1, <2>2, <2>3, Zenon DEF Shape
<1>4. SettlingHasCause /\ ChangeIsBeingSettled
  BY <1>1 DEF SettlingHasCause, ChangeIsBeingSettled
<1>5. EveryWaiterIsHeld /\ PendingIsAwaited
  BY <1>1 DEF EveryWaiterIsHeld, PendingIsAwaited
<1> QED
  BY <1>3, <1>4, <1>5 DEF Inv

\* Every step keeps the invariant and is allowed by both action properties.
LEMMA EveryStep == Inv /\ Next => StepOK
<1> SUFFICES ASSUME Inv, Next PROVE StepOK
  OBVIOUS
<1>1. ASSUME NEW t \in Threads, HostStep(t) PROVE StepOK
  <2>1. CASE SignalSourceChanged(t)
    BY <2>1, RaiseKeeps DEF SignalSourceChanged
  <2>2. CASE \E s \in Snapshots : ObserveSnapshot(t, s)
    BY <2>2, ObserveKeeps
  <2>3. CASE \E r \in Responses : SupplyAdmit(t, r)
    BY <2>3, AdmitKeeps
  <2>4. CASE InFlight(t)
    BY <2>4, SettleKeeps, RejectKeeps, PlanKeeps, CoalesceKeeps, CommitKeeps DEF InFlight
  <2> QED
    BY <1>1, <2>1, <2>2, <2>3, <2>4 DEF HostStep
<1>2. CASE RuntimeStep
  <2>1. CASE \E job \in Jobs, c \in Checkpoints, r \in Requests : Poll(job, c, r)
    BY <2>1, PollKeeps
  <2>2. CASE \E s \in slices : DropSlice(s)
    <3>1. UNCHANGED <<tickets, nextTicket, asked, sourceChanged, pc, store>>
      BY <2>2 DEF DropSlice, book, call
    <3> QED
      BY <3>1, QuietStep DEF Inv, Shape
  <2>3. ASSUME NEW k \in DOMAIN tickets,
               \/ \E integrity \in BOOLEAN : FailTicket(k, integrity)
               \/ \E job \in Jobs : Unsubscribe(k, job)
               \/ TakeSubscriptions(k)
               \/ ReleaseTicket(k)
        PROVE  StepOK
    BY <2>3, FailKeeps, UnsubscribeKeeps, TakeKeeps, ReleaseKeeps
  <2>4. CASE TicketStatus
    BY <2>4, SyncKeeps DEF TicketStatus, call
  <2> QED
    BY <1>2, <2>1, <2>2, <2>3, <2>4 DEF RuntimeStep
<1> QED
  BY <1>1, <1>2 DEF Next

\* A step that changes nothing keeps the invariant.
LEMMA Stutter == Inv /\ UNCHANGED vars => Inv'
<1> SUFFICES ASSUME Inv, UNCHANGED vars PROVE Inv'
  OBVIOUS
<1>1. UNCHANGED <<tickets, nextTicket, asked, sourceChanged, pc, store>>
  BY DEF vars, book, call
<1>2. StepOK
  BY <1>1, QuietStep DEF Inv, Shape
<1> QED
  BY <1>2 DEF StepOK

\* The inductive invariant holds of every behaviour of the store.
THEOREM Invariance == Spec => []Inv
<1>1. Inv /\ [Next]_vars => Inv'
  BY EveryStep, Stutter DEF StepOK
<1> QED
  BY <1>1, InvInit, PTL DEF Spec

\* ChangeIsBeingSettled: after signal_source_changed (or a foreign response) raised
\* the flag, a ticket is pending only while the raising thread has not settled it.
THEOREM SettledCorrect == Spec => []ChangeIsBeingSettled
<1>1. Inv => ChangeIsBeingSettled
  BY DEF Inv
<1> QED
  BY <1>1, Invariance, PTL

\* EveryWaiterIsHeld: no interleaving of poll, supply, fail, unsubscribe, take and
\* release loses or invents a waiting job.
THEOREM WaitersCorrect == Spec => []EveryWaiterIsHeld
<1>1. Inv => EveryWaiterIsHeld
  BY DEF Inv
<1> QED
  BY <1>1, Invariance, PTL

\* NoCommitAfterChange: the last look at the flag in supply makes a source change
\* final for bytes, length and ready tickets.
THEOREM CommitCorrect == Spec => NoCommitAfterChange
<1>1. Inv /\ [Next]_vars => [CommitStep]_vars
  BY EveryStep DEF StepOK
<1> QED
  BY <1>1, Invariance, PTL DEF Spec, NoCommitAfterChange

\* FirstTerminalStands: supply, fail_ticket, unsubscribe and a source change race
\* for a ticket, and the first one to end it wins.
THEOREM TerminalCorrect == Spec => FirstTerminalStands
<1>1. Inv /\ [Next]_vars => [TerminalStep]_vars
  BY EveryStep DEF StepOK
<1> QED
  BY <1>1, Invariance, PTL DEF Spec, FirstTerminalStands
=============================================================================
