------------------------ MODULE SchedulerInvariant -------------------------
(***************************************************************************)
(* The inductive invariant of the scheduler and what it rests on: the type  *)
(* of every variable, the counting of queue slots, and how each change of   *)
(* the queue keeps the counts.                                              *)
(***************************************************************************)
EXTENDS Scheduler, FiniteSetTheorems, SequenceTheorems, WellFoundedInduction, TLAPS

-----------------------------------------------------------------------------
(* Types.                                                                  *)

\* The constants are naturals, and a session's capacity covers its reservation.
LEMMA LimitsType ==
    /\ NormalCapacity \in Nat
    /\ PerSessionReservation \in Nat
    /\ PerSessionCapacity \in Nat
    /\ CriticalCapacity \in Nat
    /\ InFlightCapacity \in Nat
    /\ MaxSessions \in Nat
    /\ MaxWorkIds \in Nat
    /\ FairnessBurst \in Nat \ {0}
    /\ PerSessionReservation <= PerSessionCapacity
  BY LimitsAssumption, Zenon DEF LimitsAssumption

\* The inputs as far as arithmetic needs them.
LEMMA InputType ==
    /\ IsFiniteSet(SessionIds)
    /\ CounterMax \in Nat \ {0}
    /\ Deltas \subseteq Nat
    /\ Generations \subseteq Nat \ {0}
  BY InputAssumption DEF InputAssumption, Generations

\* A request names a registered-or-not session, and a positive generation.
LEMMA RequestType ==
    ASSUME NEW r \in Requests
    PROVE  /\ r.session \in SessionIds
           /\ r.gen \in Nat \ {0}
           /\ r.gen \in Generations
           /\ r.work \in WorkIds
           /\ r.priority \in Nat
           /\ r.geometry \in Nat
           /\ SignalOf(r) \in Signals
           /\ SignalOf(r).work = r.work
           /\ SignalOf(r).session = r.session
           /\ SignalOf(r).gen = r.gen
  BY InputAssumption DEF InputAssumption, WorkIds, Generations, Signals, SignalOf

\* The parts of a terminal signal.
LEMMA SignalType ==
    ASSUME NEW a \in Signals
    PROVE  /\ a.session \in SessionIds
           /\ a.work \in WorkIds
           /\ a.gen \in Nat \ {0}
  BY InputAssumption DEF InputAssumption, WorkIds, Signals, SignalOf

\* The parts of a queued entry.
LEMMA EntryType ==
    ASSUME NEW e \in Entries
    PROVE  /\ e.request \in Requests
           /\ e.order \in Nat
           /\ e.tick \in Nat
           /\ e.request.session \in SessionIds
           /\ e.request.work \in WorkIds
  BY RequestType DEF Entries

\* The initial state has the declared types.
LEMMA InitType == Init => TypeOK
  BY InputType DEF Init, TypeOK

\* Every step preserves the types.
LEMMA TypeStep == TypeOK /\ [Next]_vars => TypeOK'
<1> SUFFICES ASSUME TypeOK, [Next]_vars PROVE TypeOK'
  OBVIOUS
<1> USE DEF TypeOK
<1>1. ASSUME NEW s \in SessionIds, NEW g \in Generations, RegisterSession(s, g)
      PROVE  TypeOK'
  BY <1>1, InputType DEF RegisterSession, resourceVars
<1>2. ASSUME NEW delta \in Deltas, AdvanceTick(delta)
      PROVE  TypeOK'
  BY <1>2, InputType DEF AdvanceTick, queueVars, resourceVars
<1>3. ASSUME NEW s \in SessionIds, NEW g \in Generations, AdvanceGeneration(s, g)
      PROVE  TypeOK'
  <2>1. /\ generation' \in [SessionIds -> Nat]
        /\ queued' \in [SessionIds -> Nat]
        /\ normal' \subseteq Entries
    BY <1>3, InputType DEF AdvanceGeneration, Without
  <2>2. QED
    BY <1>3, <2>1 DEF AdvanceGeneration, resourceVars
<1>4. ASSUME NEW r \in Requests, SubmitCoalesced(r)
      PROVE  TypeOK'
  <2>1. PICK e \in Replaceable(r) :
           normal' = (normal \ {e}) \cup
                        {[request |-> r, order |-> e.order, tick |-> e.tick]}
    BY <1>4 DEF SubmitCoalesced
  <2>2. e \in Entries
    BY DEF Replaceable, Kept, Without
  <2>3. [request |-> r, order |-> e.order, tick |-> e.tick] \in Entries
    BY <2>2 DEF Entries
  <2>4. QED
    BY <1>4, <2>1, <2>3, RequestType DEF SubmitCoalesced, resourceVars
<1>5. ASSUME NEW r \in Requests, SubmitEnqueued(r)
      PROVE  TypeOK'
  <2>1. [request |-> r, order |-> nextEnqueueOrder, tick |-> tick] \in Entries
    BY DEF Entries
  <2>2. Kept(r) \subseteq normal /\ Held(r) \in Nat
    BY RequestType DEF Kept, Without, Held
  <2>3. /\ generation' \in [SessionIds -> Nat]
        /\ queued' \in [SessionIds -> Nat]
        /\ nextEnqueueOrder' \in 0..CounterMax
    BY <1>5, <2>2, RequestType, InputType DEF SubmitEnqueued, CanEnqueue
  <2>4. normal' \subseteq Entries /\ seenWorkIds' \subseteq WorkIds
    BY <1>5, <2>1, <2>2, RequestType DEF SubmitEnqueued
  <2>5. QED
    BY <1>5, <2>3, <2>4 DEF SubmitEnqueued, resourceVars
<1>6. ASSUME NEW r \in Requests, SubmitRejected(r)
      PROVE  TypeOK'
  <2>1. /\ generation' \in [SessionIds -> Nat]
        /\ queued' \in [SessionIds -> Nat]
        /\ normal' \subseteq Entries
    BY <1>6, RequestType DEF SubmitRejected, Kept, Without
  <2>2. QED
    BY <1>6, <2>1 DEF SubmitRejected, resourceVars
<1>7. ASSUME NEW event \in Events, EnqueueCritical(event)
      PROVE  critical' \in Seq(Events) /\ nextCriticalOrder' \in 0..CounterMax
  BY <1>7, InputType DEF EnqueueCritical
<1>8. ASSUME NEW a \in Signals, EnqueueCancel(a) \/ EnqueueFailure(a)
      PROVE  TypeOK'
  <2>1. /\ [kind |-> "Cancel", signal |-> a] \in Events
        /\ [kind |-> "Failure", signal |-> a] \in Events
    BY DEF Events
  <2>2. critical' \in Seq(Events) /\ nextCriticalOrder' \in 0..CounterMax
    BY <1>7, <1>8, <2>1 DEF EnqueueCancel, EnqueueFailure
  <2>3. QED
    BY <1>8, <2>2 DEF EnqueueCancel, EnqueueFailure, queueVars, resourceVars
<1>9. ASSUME NEW a \in Signals, NEW d \in Resources, EnqueueCompletion(a, d)
      PROVE  TypeOK'
  <2>1. [kind |-> "Completion", signal |-> a, resource |-> d] \in Events
    BY DEF Events
  <2>2. critical' \in Seq(Events) /\ nextCriticalOrder' \in 0..CounterMax
    BY <1>7, <1>9, <2>1 DEF EnqueueCompletion
  <2>3. QED
    BY <1>9, <2>2 DEF EnqueueCompletion, queueVars
<1>10. ASSUME NEW p \in published, EnqueueRelease(p)
       PROVE  TypeOK'
  <2>1. p.resource \in Resources /\ p.signal.session \in SessionIds
    BY SignalType
  <2>2. [kind |-> "Release", session |-> p.signal.session,
         resource |-> p.resource] \in Events
    BY <2>1 DEF Events
  <2>3. critical' \in Seq(Events) /\ nextCriticalOrder' \in 0..CounterMax
    BY <1>7, <1>10, <2>2 DEF EnqueueRelease
  <2>4. QED
    BY <1>10, <2>1, <2>3 DEF EnqueueRelease, queueVars
<1>11. ASSUME NEW s \in SessionIds, CloseSession(s)
       PROVE  TypeOK'
  <2>1. [kind |-> "Close", session |-> s] \in Events
    BY DEF Events
  <2>2. critical' \in Seq(Events) /\ nextCriticalOrder' \in 0..CounterMax
    BY <1>7, <1>11, <2>1 DEF CloseSession
  <2>3. QED
    BY <1>11, <2>2 DEF CloseSession, Without, resourceVars
<1>12. ASSUME BeginShutdown
       PROVE  TypeOK'
  <2>1. [kind |-> "Shutdown"] \in Events
    BY DEF Events
  <2>2. critical' \in Seq(Events) /\ nextCriticalOrder' \in 0..CounterMax
    BY <1>7, <1>12, <2>1 DEF BeginShutdown
  <2>3. QED
    BY <1>12, <2>2 DEF BeginShutdown, resourceVars
<1>13. ASSUME DispatchCritical
       PROVE  TypeOK'
  <2>1. /\ critical' \in Seq(Events)
        /\ Head(critical) \in Events
        /\ UNCHANGED <<phase, tick, nextCriticalOrder, nextServiceTurn, queueVars>>
    BY <1>13, HeadTailProperties DEF DispatchCritical
  <2>2. CASE DispatchCompletion(Head(critical))
    <3>1. Head(critical).signal \in Signals /\ Head(critical).resource \in Resources
      BY <2>1, <2>2 DEF Events, DispatchCompletion
    <3>2. inFlight' \subseteq Signals
      BY <2>2 DEF DispatchCompletion
    <3>3. /\ resource' \in [Resources -> {"Worker", "Queued", "Published",
                                          "Releasing", "Released", "Discarded"}]
          /\ published' \subseteq [signal : Signals, resource : Resources]
      <4>1. CASE Publishes(Head(critical).signal)
        <5>1. [signal |-> Head(critical).signal, resource |-> Head(critical).resource]
                \in [signal : Signals, resource : Resources]
          BY <3>1
        <5>2. QED
          BY <2>2, <3>1, <4>1, <5>1 DEF DispatchCompletion
      <4>2. CASE ~ Publishes(Head(critical).signal)
        BY <2>2, <3>1, <4>2 DEF DispatchCompletion
      <4>3. QED
        BY <4>1, <4>2
    <3>4. QED
      BY <2>1, <3>2, <3>3 DEF queueVars
  <2>3. CASE DispatchTerminal(Head(critical))
    BY <2>1, <2>3 DEF DispatchTerminal, queueVars, resourceVars
  <2>4. CASE DispatchRelease(Head(critical))
    BY <2>1, <2>4, ZenonT(60) DEF DispatchRelease, queueVars
  <2>5. CASE DispatchMarker(Head(critical))
    BY <2>1, <2>5 DEF DispatchMarker, queueVars, resourceVars
  <2>6. QED
    BY <1>13, <2>2, <2>3, <2>4, <2>5 DEF DispatchCritical
<1>14. ASSUME DispatchNormal
       PROVE  TypeOK'
  <2>1. PICK e \in normal :
           /\ CanStart(e)
           /\ inFlight' = inFlight \cup {SignalOf(e.request)}
           /\ normal' = normal \ {e}
           /\ queued' = [queued EXCEPT ![e.request.session] = @ - 1]
           /\ lastServiceTurn' =
                 [lastServiceTurn EXCEPT ![e.request.session] = nextServiceTurn]
    BY <1>14 DEF DispatchNormal
  <2>2. e.request.session \in SessionIds /\ SignalOf(e.request) \in Signals
    BY EntryType, RequestType
  <2>3. queued[e.request.session] - 1 \in Nat
    BY <2>1, <2>2 DEF CanStart
  <2>4. queued' \in [SessionIds -> Nat]
    BY <2>1, <2>3
  <2>5. /\ lastServiceTurn' \in [SessionIds -> 0..CounterMax]
        /\ nextServiceTurn' \in 1..CounterMax
    BY <1>14, <2>1, <2>2, InputType DEF DispatchNormal, NormalReady
  <2>6. normal' \subseteq Entries /\ inFlight' \subseteq Signals
    BY <2>1, <2>2
  <2>7. QED
    BY <1>14, <2>4, <2>5, <2>6 DEF DispatchNormal, resourceVars
<1>15. ASSUME TryFinishShutdown
       PROVE  TypeOK'
  BY <1>15 DEF TryFinishShutdown, queueVars, resourceVars
<1>16. CASE UNCHANGED vars
  BY <1>16 DEF vars, queueVars, resourceVars
<1>17. QED
  BY <1>1, <1>2, <1>3, <1>4, <1>5, <1>6, <1>8, <1>9, <1>10, <1>11, <1>12,
     <1>13, <1>14, <1>15, <1>16 DEF Next
-----------------------------------------------------------------------------
(* Counting.                                                               *)

\* A set of naturals has a least element.
LEMMA LeastNatural ==
    ASSUME NEW S \in SUBSET Nat, S # {}
    PROVE  \E m \in S : \A k \in S : m <= k
<1> DEFINE R == OpToRel(<, Nat)
<1>1. IsWellFoundedOn(R, Nat)
  BY NatLessThanWellFounded
<1> HIDE DEF R
<1>2. PICK x \in S : \A y \in S : ~ (<<y, x>> \in R)
  BY <1>1, WFMin
<1>3. \A y \in S : y < x => <<y, x>> \in R
  BY DEF R, OpToRel
<1>4. \A y \in S : ~ (y < x)
  BY <1>2, <1>3, Zenon
<1>5. QED
  BY <1>4

\* The unused slots of one session: as many as its reservation exceeds n.
OwnSlots(s, n) == {s} \X ((n + 1)..PerSessionReservation)

Excess(n) == IF n < PerSessionReservation THEN PerSessionReservation - n ELSE 0

\* A session that holds n pieces of work has its reservation less n slots unused.
LEMMA OwnSlotsCount ==
    ASSUME NEW s, NEW n \in Nat
    PROVE  /\ IsFiniteSet(OwnSlots(s, n))
           /\ Cardinality(OwnSlots(s, n)) = Excess(n)
<1>1. /\ IsFiniteSet((n + 1)..PerSessionReservation)
      /\ Cardinality((n + 1)..PerSessionReservation) = Excess(n)
  BY FS_Interval, LimitsType, SMT DEF Excess
<1>2. IsFiniteSet({s}) /\ Cardinality({s}) = 1
  BY FS_Singleton
<1>3. /\ IsFiniteSet(OwnSlots(s, n))
      /\ Cardinality(OwnSlots(s, n)) =
           Cardinality({s}) * Cardinality((n + 1)..PerSessionReservation)
  BY <1>1, <1>2, FS_Product, Zenon DEF OwnSlots
<1>4. Excess(n) \in Nat
  BY LimitsType DEF Excess
<1>5. QED
  BY <1>1, <1>2, <1>3, <1>4

\* UnusedSlots as a function of the open sessions and of the counts.
SlotSet(open, count, excluded) ==
    {p \in (open \ excluded) \X (1..PerSessionReservation) : count[p[1]] < p[2]}

\* The unused reserved slots can be counted.
LEMMA SlotSetFinite ==
    ASSUME NEW open \in SUBSET SessionIds, NEW count, NEW excluded
    PROVE  /\ IsFiniteSet(SlotSet(open, count, excluded))
           /\ Cardinality(SlotSet(open, count, excluded)) \in Nat
<1> DEFINE I == 1..PerSessionReservation
<1>1. IsFiniteSet(I)
  BY FS_Interval, LimitsType
<1>2. IsFiniteSet(open \ excluded)
  BY InputType, FS_Subset
<1> HIDE DEF I
<1>3. IsFiniteSet((open \ excluded) \X I)
  BY <1>1, <1>2, FS_Product
<1>4. SlotSet(open, count, excluded) \in SUBSET ((open \ excluded) \X I)
  BY DEF SlotSet, I
<1>5. QED
  BY <1>3, <1>4, FS_Subset, FS_CardinalityType

\* The unused slots are those of one session and those of the others.
LEMMA SlotSetSplit ==
    ASSUME NEW open \in SUBSET SessionIds,
           NEW count \in [SessionIds -> Nat],
           NEW s \in SessionIds
    PROVE  Cardinality(SlotSet(open, count, {})) =
             Cardinality(SlotSet(open, count, {s})) +
             (IF s \in open THEN Excess(count[s]) ELSE 0)
<1> DEFINE A == SlotSet(open, count, {})
           B == SlotSet(open, count, {s})
           C == OwnSlots(s, count[s])
<1>1. CASE s \in open
  <2>1. A = B \cup C
    BY <1>1, LimitsType DEF SlotSet, OwnSlots
  <2>2. B \cap C = {}
    BY DEF SlotSet, OwnSlots
  <2>3. IsFiniteSet(C) /\ Cardinality(C) = Excess(count[s])
    BY OwnSlotsCount
  <2>4. IsFiniteSet(B) /\ Cardinality(B) \in Nat
    BY SlotSetFinite
  <2>5. Excess(count[s]) \in Nat
    BY LimitsType DEF Excess
  <2> HIDE DEF A, B, C
  <2>6. Cardinality(B \cup C) = Cardinality(B) + Cardinality(C) - Cardinality(B \cap C)
    BY <2>3, <2>4, FS_Union
  <2>7. Cardinality(B \cap C) = 0
    BY <2>2, FS_EmptySet
  <2>8. Cardinality(A) = Cardinality(B) + Excess(count[s])
    BY <2>1, <2>3, <2>4, <2>5, <2>6, <2>7
  <2>9. QED
    BY <1>1, <2>8 DEF A, B
<1>2. CASE s \notin open
  <2>1. A = B
    BY <1>2 DEF SlotSet
  <2>2. Cardinality(B) \in Nat
    BY SlotSetFinite
  <2>3. QED
    BY <1>2, <2>1, <2>2
<1>3. QED
  BY <1>1, <1>2

\* unused_open_reservations is what it is without an open session, plus what
\* that session leaves unused.
LEMMA SlotSetSplitOpen ==
    ASSUME NEW open \in SUBSET SessionIds,
           NEW count \in [SessionIds -> Nat],
           NEW s \in open
    PROVE  Cardinality(SlotSet(open, count, {})) =
             Cardinality(SlotSet(open, count, {s})) + Excess(count[s])
<1>1. s \in SessionIds
  OBVIOUS
<1>2. Cardinality(SlotSet(open, count, {})) =
        Cardinality(SlotSet(open, count, {s})) +
        (IF s \in open THEN Excess(count[s]) ELSE 0)
  BY <1>1, SlotSetSplit
<1>3. QED
  BY <1>2

\* A queue is the entries of one session and the others.
LEMMA QueueSplit ==
    ASSUME NEW Q, IsFiniteSet(Q), NEW s
    PROVE  /\ IsFiniteSet(OfSession(Q, s))
           /\ IsFiniteSet(Without(Q, s))
           /\ Cardinality(OfSession(Q, s)) \in Nat
           /\ Cardinality(Without(Q, s)) \in Nat
           /\ Cardinality(Q) = Cardinality(OfSession(Q, s)) + Cardinality(Without(Q, s))
<1> DEFINE A == OfSession(Q, s)
           B == Without(Q, s)
<1>1. A \in SUBSET Q /\ B \in SUBSET Q /\ Q = A \cup B /\ A \cap B = {}
  BY DEF OfSession, Without
<1> HIDE DEF A, B
<1>2. IsFiniteSet(A) /\ IsFiniteSet(B)
  BY <1>1, FS_Subset
<1>3. Cardinality(A) \in Nat /\ Cardinality(B) \in Nat
  BY <1>2, FS_CardinalityType
<1>4. Cardinality(A \cup B) = Cardinality(A) + Cardinality(B) - Cardinality(A \cap B)
  BY <1>2, FS_Union
<1>5. Cardinality(A \cap B) = 0
  BY <1>1, FS_EmptySet
<1>6. Cardinality(Q) = Cardinality(A) + Cardinality(B)
  BY <1>1, <1>3, <1>4, <1>5
<1>7. QED
  BY <1>2, <1>3, <1>6 DEF A, B

-----------------------------------------------------------------------------
(* How each change of the queue keeps the counts and the reservations.     *)

Accounted(Q, count) ==
    \A t \in SessionIds : count[t] = Cardinality(OfSession(Q, t))

Fits(Q, open, count) ==
    Cardinality(Q) + Cardinality(SlotSet(open, count, {})) <= NormalCapacity

\* remove_queued_for_session, with or without closing the session.
LEMMA ClearKeeps ==
    ASSUME NEW Q, IsFiniteSet(Q),
           NEW open \in SUBSET SessionIds, NEW openNext \in SUBSET SessionIds,
           NEW count \in [SessionIds -> Nat], NEW countNext, NEW s \in SessionIds,
           s \in open, openNext \in {open, open \ {s}},
           countNext = [count EXCEPT ![s] = 0],
           Accounted(Q, count), Fits(Q, open, count)
    PROVE  /\ IsFiniteSet(Without(Q, s))
           /\ Accounted(Without(Q, s), countNext)
           /\ Fits(Without(Q, s), openNext, countNext)
<1>1. countNext \in [SessionIds -> Nat] /\ countNext[s] = 0
      /\ \A t \in SessionIds : t # s => countNext[t] = count[t]
  OBVIOUS
<1>2. Accounted(Without(Q, s), countNext)
  <2> SUFFICES ASSUME NEW t \in SessionIds
               PROVE  countNext[t] = Cardinality(OfSession(Without(Q, s), t))
    BY DEF Accounted
  <2>1. CASE t = s
    <3>1. OfSession(Without(Q, s), s) = {}
      BY DEF OfSession, Without
    <3>2. QED
      BY <1>1, <2>1, <3>1, FS_EmptySet
  <2>2. CASE t # s
    <3>1. OfSession(Without(Q, s), t) = OfSession(Q, t)
      BY <2>2 DEF OfSession, Without
    <3>2. QED
      BY <1>1, <2>2, <3>1 DEF Accounted
  <2>3. QED
    BY <2>1, <2>2
<1>3. /\ Cardinality(Q) = count[s] + Cardinality(Without(Q, s))
      /\ Cardinality(Without(Q, s)) \in Nat
      /\ IsFiniteSet(Without(Q, s))
  BY QueueSplit DEF Accounted
<1>4. SlotSet(openNext, countNext, {s}) = SlotSet(open, count, {s})
  BY <1>1 DEF SlotSet
<1>5. Cardinality(SlotSet(open, count, {s})) \in Nat
  BY SlotSetFinite
<1>6. Cardinality(SlotSet(open, count, {})) =
        Cardinality(SlotSet(open, count, {s})) + Excess(count[s])
  BY SlotSetSplit
<1>7. Cardinality(SlotSet(openNext, countNext, {})) =
        Cardinality(SlotSet(open, count, {s})) +
        (IF s \in openNext THEN Excess(0) ELSE 0)
  <2>1. Cardinality(SlotSet(openNext, countNext, {})) =
          Cardinality(SlotSet(openNext, countNext, {s})) +
          (IF s \in openNext THEN Excess(countNext[s]) ELSE 0)
    BY <1>1, SlotSetSplit, ZenonT(60)
  <2>2. QED
    BY <1>1, <1>4, <2>1
<1>8. count[s] \in Nat
  OBVIOUS
<1>9. Fits(Without(Q, s), openNext, countNext)
  BY <1>3, <1>5, <1>6, <1>7, <1>8, LimitsType DEF Fits, Excess
<1>10. QED
  BY <1>2, <1>3, <1>9

\* A new entry admitted within the reservations of the others.
LEMMA AddKeeps ==
    ASSUME NEW Q, IsFiniteSet(Q), NEW e, e \notin Q,
           NEW open \in SUBSET SessionIds,
           NEW count \in [SessionIds -> Nat], NEW countNext, NEW s \in SessionIds,
           s \in open, e.request.session = s,
           countNext = [count EXCEPT ![s] = count[s] + 1],
           Accounted(Q, count), Fits(Q, open, count),
           Cardinality(Q) + 1 + Cardinality(SlotSet(open, count, {s})) <= NormalCapacity
    PROVE  /\ IsFiniteSet(Q \cup {e})
           /\ Accounted(Q \cup {e}, countNext)
           /\ Fits(Q \cup {e}, open, countNext)
<1>1. countNext \in [SessionIds -> Nat] /\ countNext[s] = count[s] + 1
      /\ \A t \in SessionIds : t # s => countNext[t] = count[t]
  OBVIOUS
<1>2. Accounted(Q \cup {e}, countNext)
  <2> SUFFICES ASSUME NEW t \in SessionIds
               PROVE  countNext[t] = Cardinality(OfSession(Q \cup {e}, t))
    BY DEF Accounted
  <2>1. CASE t = s
    <3>1. OfSession(Q \cup {e}, s) = OfSession(Q, s) \cup {e} /\ e \notin OfSession(Q, s)
      BY DEF OfSession
    <3>2. IsFiniteSet(OfSession(Q, s))
      BY QueueSplit
    <3>3. Cardinality(OfSession(Q, s) \cup {e}) = Cardinality(OfSession(Q, s)) + 1
      BY <3>1, <3>2, FS_AddElement, ZenonT(60)
    <3>4. QED
      BY <1>1, <2>1, <3>1, <3>3 DEF Accounted
  <2>2. CASE t # s
    <3>1. OfSession(Q \cup {e}, t) = OfSession(Q, t)
      BY <2>2 DEF OfSession
    <3>2. QED
      BY <1>1, <2>2, <3>1 DEF Accounted
  <2>3. QED
    BY <2>1, <2>2
<1>3. /\ IsFiniteSet(Q \cup {e})
      /\ Cardinality(Q \cup {e}) = Cardinality(Q) + 1
      /\ Cardinality(Q) \in Nat
  BY FS_AddElement, FS_CardinalityType
<1>4. SlotSet(open, countNext, {s}) = SlotSet(open, count, {s})
  BY <1>1 DEF SlotSet
<1>5. Cardinality(SlotSet(open, count, {s})) \in Nat
  BY SlotSetFinite
<1>6. Cardinality(SlotSet(open, count, {})) =
        Cardinality(SlotSet(open, count, {s})) + Excess(count[s])
  BY SlotSetSplit
<1>7. Cardinality(SlotSet(open, countNext, {})) =
        Cardinality(SlotSet(open, count, {s})) + Excess(count[s] + 1)
  <2>1. countNext \in [SessionIds -> Nat]
    BY <1>1
  <2>2. Cardinality(SlotSet(open, countNext, {})) =
          Cardinality(SlotSet(open, countNext, {s})) + Excess(countNext[s])
    BY <2>1, SlotSetSplitOpen, ZenonT(60)
  <2>3. QED
    BY <1>1, <1>4, <2>2
<1>8. count[s] \in Nat
  OBVIOUS
<1>9. Fits(Q \cup {e}, open, countNext)
  BY <1>3, <1>5, <1>6, <1>7, <1>8, LimitsType DEF Fits, Excess
<1>10. QED
  BY <1>2, <1>3, <1>9

\* A dispatched entry leaves the queue.
LEMMA RemoveKeeps ==
    ASSUME NEW Q, IsFiniteSet(Q), NEW e \in Q,
           NEW open \in SUBSET SessionIds,
           NEW count \in [SessionIds -> Nat], NEW countNext, NEW s \in SessionIds,
           s \in open, e.request.session = s, count[s] > 0,
           countNext = [count EXCEPT ![s] = count[s] - 1],
           Accounted(Q, count), Fits(Q, open, count)
    PROVE  /\ IsFiniteSet(Q \ {e})
           /\ Accounted(Q \ {e}, countNext)
           /\ Fits(Q \ {e}, open, countNext)
<1>1. count[s] \in Nat /\ count[s] - 1 \in Nat
  OBVIOUS
<1>2. countNext \in [SessionIds -> Nat] /\ countNext[s] = count[s] - 1
      /\ \A t \in SessionIds : t # s => countNext[t] = count[t]
  BY <1>1
<1>3. Accounted(Q \ {e}, countNext)
  <2> SUFFICES ASSUME NEW t \in SessionIds
               PROVE  countNext[t] = Cardinality(OfSession(Q \ {e}, t))
    BY DEF Accounted
  <2>1. CASE t = s
    <3>1. OfSession(Q \ {e}, s) = OfSession(Q, s) \ {e} /\ e \in OfSession(Q, s)
      BY DEF OfSession
    <3>2. IsFiniteSet(OfSession(Q, s))
      BY QueueSplit
    <3>3. Cardinality(OfSession(Q, s) \ {e}) = Cardinality(OfSession(Q, s)) - 1
      BY <3>1, <3>2, FS_RemoveElement, ZenonT(60)
    <3>4. QED
      BY <1>2, <2>1, <3>1, <3>3 DEF Accounted
  <2>2. CASE t # s
    <3>1. OfSession(Q \ {e}, t) = OfSession(Q, t)
      BY <2>2 DEF OfSession
    <3>2. QED
      BY <1>2, <2>2, <3>1 DEF Accounted
  <2>3. QED
    BY <2>1, <2>2
<1>4. /\ IsFiniteSet(Q \ {e})
      /\ Cardinality(Q \ {e}) = Cardinality(Q) - 1
      /\ Cardinality(Q) \in Nat
  BY FS_RemoveElement, FS_CardinalityType
<1>5. SlotSet(open, countNext, {s}) = SlotSet(open, count, {s})
  BY <1>2 DEF SlotSet
<1>6. Cardinality(SlotSet(open, count, {s})) \in Nat
  BY SlotSetFinite
<1>7. Cardinality(SlotSet(open, count, {})) =
        Cardinality(SlotSet(open, count, {s})) + Excess(count[s])
  BY SlotSetSplit
<1>8. Cardinality(SlotSet(open, countNext, {})) =
        Cardinality(SlotSet(open, count, {s})) + Excess(count[s] - 1)
  <2>1. countNext \in [SessionIds -> Nat]
    BY <1>2
  <2>2. Cardinality(SlotSet(open, countNext, {})) =
          Cardinality(SlotSet(open, countNext, {s})) + Excess(countNext[s])
    BY <2>1, SlotSetSplitOpen, ZenonT(60)
  <2>3. QED
    BY <1>2, <1>5, <2>2
<1>9. Fits(Q \ {e}, open, countNext)
  BY <1>1, <1>4, <1>6, <1>7, <1>8, LimitsType DEF Fits, Excess
<1>10. QED
  BY <1>3, <1>4, <1>9

\* Coalescing exchanges an entry for another of the same session.
LEMMA ReplaceKeeps ==
    ASSUME NEW Q, IsFiniteSet(Q), NEW e \in Q, NEW f, f \notin Q \ {e},
           NEW open, NEW count,
           f.request.session = e.request.session,
           Accounted(Q, count), Fits(Q, open, count)
    PROVE  /\ IsFiniteSet((Q \ {e}) \cup {f})
           /\ Accounted((Q \ {e}) \cup {f}, count)
           /\ Fits((Q \ {e}) \cup {f}, open, count)
<1>1. ASSUME NEW S, IsFiniteSet(S), e \in S, f \notin S \ {e}
      PROVE  /\ IsFiniteSet((S \ {e}) \cup {f})
             /\ Cardinality((S \ {e}) \cup {f}) = Cardinality(S)
  <2>1. IsFiniteSet(S \ {e}) /\ Cardinality(S \ {e}) = Cardinality(S) - 1
    BY <1>1, FS_RemoveElement
  <2>2. Cardinality(S) \in Nat
    BY <1>1, FS_CardinalityType
  <2>3. /\ IsFiniteSet((S \ {e}) \cup {f})
        /\ Cardinality((S \ {e}) \cup {f}) = Cardinality(S \ {e}) + 1
    BY <1>1, <2>1, FS_AddElement
  <2>4. QED
    BY <2>1, <2>2, <2>3
<1>2. Accounted((Q \ {e}) \cup {f}, count)
  <2> SUFFICES ASSUME NEW t \in SessionIds
               PROVE  count[t] = Cardinality(OfSession((Q \ {e}) \cup {f}, t))
    BY DEF Accounted
  <2>1. CASE t = e.request.session
    <3>1. /\ OfSession((Q \ {e}) \cup {f}, t) = (OfSession(Q, t) \ {e}) \cup {f}
          /\ e \in OfSession(Q, t)
          /\ f \notin OfSession(Q, t) \ {e}
      BY <2>1 DEF OfSession
    <3>2. IsFiniteSet(OfSession(Q, t))
      BY QueueSplit
    <3>3. Cardinality((OfSession(Q, t) \ {e}) \cup {f}) = Cardinality(OfSession(Q, t))
      BY <1>1, <3>1, <3>2
    <3>4. QED
      BY <3>1, <3>3 DEF Accounted
  <2>2. CASE t # e.request.session
    <3>1. OfSession((Q \ {e}) \cup {f}, t) = OfSession(Q, t)
      BY <2>2 DEF OfSession
    <3>2. QED
      BY <3>1 DEF Accounted
  <2>3. QED
    BY <2>1, <2>2
<1>3. QED
  BY <1>1, <1>2 DEF Fits

\* A session registered within the unreserved capacity.
LEMMA RegisterKeeps ==
    ASSUME NEW Q, NEW open \in SUBSET SessionIds,
           NEW count \in [SessionIds -> Nat], NEW s \in SessionIds,
           s \notin open, count[s] = 0,
           Cardinality(Q) \in Nat,
           Cardinality(Q) + Cardinality(SlotSet(open, count, {})) + PerSessionReservation
             <= NormalCapacity
    PROVE  Fits(Q, open \cup {s}, count)
<1>1. SlotSet(open \cup {s}, count, {s}) = SlotSet(open, count, {s})
  BY DEF SlotSet
<1>2. Cardinality(SlotSet(open, count, {s})) \in Nat
  BY SlotSetFinite
<1>3. Cardinality(SlotSet(open, count, {})) = Cardinality(SlotSet(open, count, {s}))
  BY <1>2, SlotSetSplit
<1>4. Cardinality(SlotSet(open \cup {s}, count, {})) =
        Cardinality(SlotSet(open, count, {s})) + Excess(0)
  <2>1. Cardinality(SlotSet(open \cup {s}, count, {})) =
          Cardinality(SlotSet(open \cup {s}, count, {s})) + Excess(count[s])
    BY SlotSetSplit
  <2>2. QED
    BY <1>1, <2>1
<1>5. QED
  BY <1>2, <1>3, <1>4, LimitsType DEF Fits, Excess

-----------------------------------------------------------------------------
(* The inductive invariant.                                                *)

Finite ==
    IsFiniteSet(normal) /\ IsFiniteSet(inFlight) /\ IsFiniteSet(seenWorkIds)

Inv ==
    /\ TypeOK
    /\ Finite
    /\ QueueAccounting
    /\ WithinCapacity
    /\ QueueIsCurrent
    /\ WorkIdsAreUnique

\* What an action must keep of the normal queue's counts.
CountsOK ==
    /\ IsFiniteSet(normal)
    /\ Accounted(normal, queued)
    /\ Fits(normal, Open, queued)
    /\ \A s \in SessionIds : queued[s] <= PerSessionCapacity

\* What an action must keep of the other bounded collections.
BoundsOK ==
    /\ IsFiniteSet(inFlight)
    /\ IsFiniteSet(seenWorkIds)
    /\ Len(critical) <= CriticalCapacity
    /\ Cardinality(inFlight) <= InFlightCapacity
    /\ Cardinality(seenWorkIds) <= MaxWorkIds

\* The inductive invariant is the type invariant and the rest.
LEMMA InvSplit ==
    Inv <=> TypeOK /\ CountsOK /\ BoundsOK /\ QueueIsCurrent /\ WorkIdsAreUnique
  BY DEF Inv, Finite, CountsOK, BoundsOK, QueueAccounting, WithinCapacity,
         Accounted, Fits, UnusedOpenReservations, UnusedSlots, SlotSet

\* A new scheduler satisfies the invariant.
LEMMA InvInit == Init => Inv
<1> SUFFICES ASSUME Init PROVE Inv
  OBVIOUS
<1>1. TypeOK
  BY InitType
<1>2. CountsOK
  <2>1. Open = {}
    BY DEF Init, Open
  <2>2. SlotSet(Open, queued, {}) = {}
    BY <2>1 DEF SlotSet
  <2>3. \A s \in SessionIds : OfSession(normal, s) = {}
    BY DEF Init, OfSession
  <2>4. normal = {} /\ \A s \in SessionIds : queued[s] = 0
    BY DEF Init
  <2>5. QED
    BY <2>2, <2>3, <2>4, FS_EmptySet, LimitsType DEF CountsOK, Accounted, Fits
<1>3. BoundsOK
  BY FS_EmptySet, LimitsType DEF Init, BoundsOK
<1>4. QueueIsCurrent /\ WorkIdsAreUnique
  BY DEF Init, QueueIsCurrent, WorkIdsAreUnique
<1>5. QED
  BY <1>1, <1>2, <1>3, <1>4, InvSplit

=============================================================================
