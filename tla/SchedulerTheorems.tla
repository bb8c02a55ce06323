------------------------- MODULE SchedulerTheorems -------------------------
(***************************************************************************)
(* What the inductive invariant of SchedulerProofs buys: the admission     *)
(* guarantee, the success of every dispatch, the order of aged work, the   *)
(* finality of ends, the ownership of resources and the bound on bypasses. *)
(***************************************************************************)
EXTENDS SchedulerProofs, SchedulerFairness

\* In a state of the invariant, the shared queue has room for a request of an
\* open session that holds less than its reservation.
LEMMA ReservationLeavesRoom == Inv => ReservedAdmission
<1> SUFFICES ASSUME Inv, NEW r \in Requests,
                    Submittable(r), Held(r) < PerSessionReservation,
                    nextEnqueueOrder < CounterMax, CanReserve(r.work)
             PROVE  CanEnqueue(r)
  BY DEF ReservedAdmission
<1> DEFINE s == r.session
           others == Cardinality(SlotSet(Open, queued, {s}))
<1>1. s \in SessionIds /\ s \in Open
  BY RequestType DEF Submittable, Open
<1>2. /\ IsFiniteSet(normal)
      /\ Cardinality(normal) + Cardinality(SlotSet(Open, queued, {})) <= NormalCapacity
      /\ queued[s] = Cardinality(OfSession(normal, s))
      /\ queued \in [SessionIds -> Nat] /\ queued[s] \in Nat
      /\ Open \in SUBSET SessionIds
  BY <1>1, InvSplit DEF CountsOK, Fits, Accounted, TypeOK, Open
<1>3. Cardinality(SlotSet(Open, queued, {})) = others + Excess(queued[s])
  BY <1>1, <1>2, SlotSetSplitOpen
<1>4. others \in Nat
  BY <1>2, SlotSetFinite
<1>5. /\ Cardinality(normal) = queued[s] + Cardinality(Without(normal, s))
      /\ Cardinality(Without(normal, s)) \in Nat
  BY <1>2, QueueSplit
<1>6. Held(r) < PerSessionCapacity
  BY <1>2, LimitsType DEF Held
<1>7. UnusedOpenReservations({s}) = others
  BY DEF UnusedOpenReservations, UnusedSlots, SlotSet
<1> HIDE DEF others, s
<1>8. Cardinality(Kept(r)) + 1 + others <= NormalCapacity
  <2>1. CASE Advances(r)
    <3>1. Kept(r) = Without(normal, s) /\ Held(r) = 0
      BY <2>1 DEF Kept, Held, s
    <3>2. QED
      BY <1>2, <1>3, <1>4, <1>5, <3>1, LimitsType DEF Excess
  <2>2. CASE ~ Advances(r)
    <3>1. Kept(r) = normal /\ Held(r) = queued[s]
      BY <2>2 DEF Kept, Held, s
    <3>2. QED
      BY <1>2, <1>3, <1>4, <1>5, <3>1, LimitsType DEF Excess
  <2>3. QED
    BY <2>1, <2>2
<1>9. QED
  BY <1>6, <1>7, <1>8 DEF CanEnqueue, s

\* submit always admits a fresh request of an open session whose reservation is
\* not used up, whatever the other sessions hold, and after its own generation
\* advance as well.
THEOREM ReservedAdmissionHolds == Spec => []ReservedAdmission
  BY ReservationLeavesRoom, Invariance, PTL

-----------------------------------------------------------------------------
(* Dispatch.                                                               *)

\* The components of the keys of E are naturals.
NatAt(E, key, i) == \A e \in E : key[e][i] \in Nat

\* Least elements of a set under one component of its keys.
LeastAt(E, key, i) == {e \in E : \A f \in E : key[e][i] <= key[f][i]}

\* How the least elements compare with each other and with the rest.
Separates(L, E, key, i) ==
    /\ L # {} /\ L \subseteq E
    /\ \A m, f \in L : key[m][i] = key[f][i]
    /\ \A m \in L, f \in E \ L : key[m][i] < key[f][i]

\* A nonempty set of entries has least elements under every key component.
LEMMA LeastAtSeparates ==
    ASSUME NEW E, E # {}, NEW key, NEW i, NatAt(E, key, i)
    PROVE  Separates(LeastAt(E, key, i), E, key, i)
<1> DEFINE S == {key[e][i] : e \in E}
<1>1. S \in SUBSET Nat /\ S # {}
  BY DEF NatAt
<1>2. PICK m \in S : \A k \in S : m <= k
  BY <1>1, LeastNatural
<1>3. PICK e \in E : key[e][i] = m
  BY <1>2
<1>4. e \in LeastAt(E, key, i)
  BY <1>2, <1>3 DEF LeastAt
<1>5. QED
  BY <1>4 DEF LeastAt, NatAt, Separates

\* Among entries whose last key components differ, one has the least key.
LEMMA LeastKeyExists ==
    ASSUME NEW E, E # {}, NEW key,
           \A i \in 1..6 : NatAt(E, key, i),
           \A e, f \in E : key[e][6] = key[f][6] => e = f
    PROVE  \E e \in E : \A f \in E \ {e} : KeyLess(key[e], key[f])
<1> DEFINE E1 == LeastAt(E, key, 1)
           E2 == LeastAt(E1, key, 2)
           E3 == LeastAt(E2, key, 3)
           E4 == LeastAt(E3, key, 4)
           E5 == LeastAt(E4, key, 5)
           E6 == LeastAt(E5, key, 6)
<1>0. ASSUME NEW S \in SUBSET E
      PROVE  /\ NatAt(S, key, 1) /\ NatAt(S, key, 2) /\ NatAt(S, key, 3)
             /\ NatAt(S, key, 4) /\ NatAt(S, key, 5) /\ NatAt(S, key, 6)
  BY DEF NatAt
<1> HIDE DEF E1, E2, E3, E4, E5, E6
<1>1. Separates(E1, E, key, 1)
  BY <1>0, LeastAtSeparates DEF E1
<1>2. Separates(E2, E1, key, 2) /\ E2 \in SUBSET E
  <2>1. E1 # {} /\ E1 \in SUBSET E
    BY <1>1 DEF Separates
  <2>2. NatAt(E1, key, 2)
    BY <1>0, <2>1
  <2>3. Separates(E2, E1, key, 2)
    BY <2>1, <2>2, LeastAtSeparates DEF E2
  <2>4. QED
    BY <2>1, <2>3 DEF Separates
<1>3. Separates(E3, E2, key, 3) /\ E3 \in SUBSET E
  <2>1. E2 # {} /\ E2 \in SUBSET E
    BY <1>2 DEF Separates
  <2>2. NatAt(E2, key, 3)
    BY <1>0, <2>1
  <2>3. Separates(E3, E2, key, 3)
    BY <2>1, <2>2, LeastAtSeparates DEF E3
  <2>4. QED
    BY <2>1, <2>3 DEF Separates
<1>4. Separates(E4, E3, key, 4) /\ E4 \in SUBSET E
  <2>1. E3 # {} /\ E3 \in SUBSET E
    BY <1>3 DEF Separates
  <2>2. NatAt(E3, key, 4)
    BY <1>0, <2>1
  <2>3. Separates(E4, E3, key, 4)
    BY <2>1, <2>2, LeastAtSeparates DEF E4
  <2>4. QED
    BY <2>1, <2>3 DEF Separates
<1>5. Separates(E5, E4, key, 5) /\ E5 \in SUBSET E
  <2>1. E4 # {} /\ E4 \in SUBSET E
    BY <1>4 DEF Separates
  <2>2. NatAt(E4, key, 5)
    BY <1>0, <2>1
  <2>3. Separates(E5, E4, key, 5)
    BY <2>1, <2>2, LeastAtSeparates DEF E5
  <2>4. QED
    BY <2>1, <2>3 DEF Separates
<1>6. Separates(E6, E5, key, 6) /\ E6 \in SUBSET E
  <2>1. E5 # {} /\ E5 \in SUBSET E
    BY <1>5 DEF Separates
  <2>2. NatAt(E5, key, 6)
    BY <1>0, <2>1
  <2>3. Separates(E6, E5, key, 6)
    BY <2>1, <2>2, LeastAtSeparates DEF E6
  <2>4. QED
    BY <2>1, <2>3 DEF Separates
<1>7. PICK m \in E6 : m \in E
  BY <1>6 DEF Separates
<1>8. m \in E1 /\ m \in E2 /\ m \in E3 /\ m \in E4 /\ m \in E5 /\ m \in E6
  BY <1>2, <1>3, <1>4, <1>5, <1>6, <1>7 DEF Separates
<1>9. ASSUME NEW f \in E \ {m}
      PROVE  KeyLess(key[m], key[f])
  <2>1. f \in E1 => key[m][1] = key[f][1]
    BY <1>1, <1>8 DEF Separates
  <2>2. f \in E2 => key[m][2] = key[f][2] /\ f \in E1
    BY <1>2, <1>8 DEF Separates
  <2>3. f \in E3 => key[m][3] = key[f][3] /\ f \in E2
    BY <1>3, <1>8 DEF Separates
  <2>4. f \in E4 => key[m][4] = key[f][4] /\ f \in E3
    BY <1>4, <1>8 DEF Separates
  <2>5. f \in E5 => key[m][5] = key[f][5] /\ f \in E4
    BY <1>5, <1>8 DEF Separates
  <2>6. f \in E6 => key[m][6] = key[f][6] /\ f \in E5
    BY <1>6, <1>8 DEF Separates
  <2>7. f \notin E6
    BY <1>7, <2>6
  <2>8. PICK i \in 1..6 : key[m][i] < key[f][i] /\ \A j \in 1..(i - 1) : key[m][j] = key[f][j]
    <3>1. CASE f \notin E1
      <4>1. key[m][1] < key[f][1]
        BY <1>1, <1>8, <3>1 DEF Separates
      <4>2. \A j \in 1..(1 - 1) : key[m][j] = key[f][j]
        BY <3>1
      <4>3. QED
        BY <4>1, <4>2
    <3>2. CASE f \in E1 /\ f \notin E2
      <4>1. key[m][2] < key[f][2]
        BY <1>2, <1>8, <3>2 DEF Separates
      <4>2. \A j \in 1..(2 - 1) : key[m][j] = key[f][j]
        BY <3>2, <2>1
      <4>3. QED
        BY <4>1, <4>2
    <3>3. CASE f \in E2 /\ f \notin E3
      <4>1. key[m][3] < key[f][3]
        BY <1>3, <1>8, <3>3 DEF Separates
      <4>2. \A j \in 1..(3 - 1) : key[m][j] = key[f][j]
        BY <3>3, <2>1, <2>2
      <4>3. QED
        BY <4>1, <4>2
    <3>4. CASE f \in E3 /\ f \notin E4
      <4>1. key[m][4] < key[f][4]
        BY <1>4, <1>8, <3>4 DEF Separates
      <4>2. \A j \in 1..(4 - 1) : key[m][j] = key[f][j]
        BY <3>4, <2>1, <2>2, <2>3
      <4>3. QED
        BY <4>1, <4>2
    <3>5. CASE f \in E4 /\ f \notin E5
      <4>1. key[m][5] < key[f][5]
        BY <1>5, <1>8, <3>5 DEF Separates
      <4>2. \A j \in 1..(5 - 1) : key[m][j] = key[f][j]
        BY <3>5, <2>1, <2>2, <2>3, <2>4
      <4>3. QED
        BY <4>1, <4>2
    <3>6. CASE f \in E5 /\ f \notin E6
      <4>1. key[m][6] < key[f][6]
        BY <1>6, <1>8, <3>6 DEF Separates
      <4>2. \A j \in 1..(6 - 1) : key[m][j] = key[f][j]
        BY <3>6, <2>1, <2>2, <2>3, <2>4, <2>5
      <4>3. QED
        BY <4>1, <4>2
    <3>7. QED
      BY <2>7, <3>1, <3>2, <3>3, <3>4, <3>5, <3>6
  <2>9. QED
    BY <2>8 DEF KeyLess
<1>10. QED
  BY <1>7, <1>9

\* The components of a queued entry's key are naturals, the last its order.
LEMMA KeyType ==
    ASSUME TypeOK, NEW e \in normal
    PROVE  /\ \A i \in 1..6 : SchedulingKey(e)[i] \in Nat
           /\ SchedulingKey(e)[6] = e.order
<1>1. /\ e.order \in Nat /\ e.tick \in Nat
      /\ e.request.geometry \in Nat /\ e.request.priority \in Nat
  BY EntryType, RequestType DEF TypeOK
<1>2. AgingQuantum \in Nat \ {0} /\ MaxAgingSteps \in Nat
  BY LimitsAssumption, Zenon DEF LimitsAssumption
<1>3. AgingSteps(e) \in Nat
  <2>1. tick \in Nat
    BY InputType DEF TypeOK
  <2> DEFINE waited == IF tick > e.tick THEN tick - e.tick ELSE 0
  <2>2. waited \in Nat
    BY <1>1, <2>1
  <2> HIDE DEF waited
  <2>3. waited \div AgingQuantum \in Nat
    BY <1>2, <2>2
  <2>4. QED
    BY <1>2, <2>3 DEF AgingSteps, waited
<1> DEFINE k == SchedulingKey(e)
<1>4. /\ k[1] \in Nat /\ k[2] \in Nat /\ k[3] \in Nat
      /\ k[4] \in Nat /\ k[5] \in Nat /\ k[6] = e.order
  BY <1>1, <1>3 DEF SchedulingKey
<1>5. QED
  BY <1>1, <1>4

\* The fairness window always leaves some entry eligible.
LEMMA EligibleNonempty ==
    ASSUME TypeOK, normal # {}
    PROVE  Eligible # {}
<1> DEFINE turns == {lastServiceTurn[s] : s \in Backlogged}
           Least(s) == \A t \in Backlogged : lastServiceTurn[s] <= lastServiceTurn[t]
           c == CHOOSE s \in Backlogged : Least(s)
<1>1. Backlogged # {} /\ \A s \in Backlogged : lastServiceTurn[s] \in Nat
  <2>1. \A e \in normal : e.request.session \in SessionIds
    BY EntryType DEF TypeOK
  <2>2. \A s \in SessionIds : lastServiceTurn[s] \in Nat
    BY InputType DEF TypeOK
  <2>3. QED
    BY <2>1, <2>2 DEF Backlogged
<1>2. PICK n \in turns : \A k \in turns : n <= k
  BY <1>1, LeastNatural
<1>3. \E s \in Backlogged : Least(s)
  BY <1>2
<1>4. c \in Backlogged
  BY <1>3
<1>5. PICK e \in normal : e.request.session = c
  BY <1>4 DEF Backlogged
<1>6. ExclusiveTurnLimit = FairnessBurst + lastServiceTurn[c]
  BY DEF ExclusiveTurnLimit
<1> HIDE DEF c
<1>7. lastServiceTurn[c] < ExclusiveTurnLimit
  BY <1>1, <1>4, <1>6, LimitsType
<1>8. QED
  BY <1>5, <1>7 DEF Eligible

\* The selected entry exists, and the arbiter starts it.
LEMMA SelectionStarts == Inv => DispatchNeverFails
<1> SUFFICES ASSUME Inv, NormalReady
             PROVE  \E e \in normal : Selects(e) /\ CanStart(e)
  BY DEF DispatchNeverFails
<1>1. TypeOK /\ QueueIsCurrent /\ WorkIdsAreUnique /\ QueueAccounting /\ Finite
  BY DEF Inv
<1>2. normal # {}
  BY DEF NormalReady
<1>3. Eligible # {} /\ Eligible \subseteq normal
  BY <1>1, <1>2, EligibleNonempty DEF Eligible
<1> DEFINE key == [e \in Eligible |-> SchedulingKey(e)]
<1>4. \A i \in 1..6 : NatAt(Eligible, key, i)
  BY <1>1, <1>3, KeyType DEF NatAt
<1>5. \A e, f \in Eligible : key[e][6] = key[f][6] => e = f
  BY <1>1, <1>3, KeyType DEF QueueIsCurrent
<1>6. \A e \in Eligible : key[e] = SchedulingKey(e)
  OBVIOUS
<1> HIDE DEF key
<1>7. PICK e \in Eligible : \A f \in Eligible \ {e} : KeyLess(key[e], key[f])
  BY <1>3, <1>4, <1>5, LeastKeyExists
<1>8. Selects(e)
  BY <1>6, <1>7 DEF Selects
<1>9. e \in normal /\ e.request.session \in SessionIds
  BY <1>1, <1>3, EntryType DEF TypeOK
<1>10. queued[e.request.session] > 0
  <2> DEFINE Q == OfSession(normal, e.request.session)
  <2>1. e \in Q
    BY <1>9 DEF OfSession
  <2>2. IsFiniteSet(Q)
    BY <1>1, QueueSplit DEF Finite
  <2> HIDE DEF Q
  <2>3. Cardinality(Q) # 0
    BY <2>1, <2>2, FS_EmptySet
  <2>4. Cardinality(Q) \in Nat
    BY <2>2, FS_CardinalityType
  <2>5. queued[e.request.session] = Cardinality(Q)
    BY <1>1, <1>9 DEF QueueAccounting, Q
  <2>6. QED
    BY <2>3, <2>4, <2>5
<1>11. CanStart(e)
  BY <1>1, <1>9, <1>10 DEF CanStart, QueueIsCurrent, WorkIdsAreUnique
<1>12. QED
  BY <1>8, <1>9, <1>11

\* dispatch_next never reports InvariantViolation from the normal queue.
THEOREM DispatchNeverFailsHolds == Spec => []DispatchNeverFails
  BY SelectionStarts, Invariance, PTL

-----------------------------------------------------------------------------
(* The order of aged work.                                                 *)

\* A configuration in which aging outgrows every priority class (the engine's limits.rs
\* sets four steps for the five classes): aged to the cap, work has the best priority.
AgingClearsPriority == \A r \in Requests : r.priority <= MaxAgingSteps

\* The first three components of the key of work that reached the cap, and the
\* first one of work that did not.
LEMMA CappedKey ==
    ASSUME TypeOK, AgingClearsPriority, NEW e \in normal
    PROVE  /\ Capped(e) => /\ SchedulingKey(e)[1] = 0
                           /\ SchedulingKey(e)[2] = 0
                           /\ SchedulingKey(e)[3] = e.order
           /\ ~ Capped(e) => SchedulingKey(e)[1] = 1
<1>1. e.request.priority \in Nat /\ e.request.priority <= MaxAgingSteps
  BY EntryType, RequestType DEF TypeOK, AgingClearsPriority
<1>2. MaxAgingSteps \in Nat
  BY LimitsAssumption, Zenon DEF LimitsAssumption
<1>3. Capped(e) => ~ (e.request.priority > AgingSteps(e))
  BY <1>1, <1>2 DEF Capped
<1>4. QED
  BY <1>3 DEF SchedulingKey

\* The entry dispatch_next selects precedes every other entry at the cap.
LEMMA SelectionIsFifo ==
    ASSUME Inv, AgingClearsPriority, NEW e \in Eligible, NEW f \in Eligible,
           Selects(e), Capped(f), f # e
    PROVE  Capped(e) /\ e.order < f.order
<1> DEFINE a == SchedulingKey(e)
           b == SchedulingKey(f)
<1>1. TypeOK /\ e \in normal /\ f \in normal
  BY DEF Inv, Eligible
<1>2. /\ \A i \in 1..6 : a[i] \in Nat /\ b[i] \in Nat
      /\ b[1] = 0 /\ b[2] = 0 /\ b[3] = f.order
      /\ Capped(e) => a[1] = 0 /\ a[2] = 0 /\ a[3] = e.order
      /\ ~ Capped(e) => a[1] = 1
  BY <1>1, KeyType, CappedKey
<1>3. e.order # f.order
  BY <1>1 DEF Inv, QueueIsCurrent
<1>4. KeyLess(a, b)
  BY DEF Selects
<1> HIDE DEF a, b
<1>5. PICK i \in 1..6 : a[i] < b[i] /\ \A j \in 1..(i - 1) : a[j] = b[j]
  BY <1>4 DEF KeyLess
<1>6. i # 1 /\ a[1] = b[1]
  BY <1>2, <1>5
<1>7. Capped(e)
  BY <1>2, <1>6
<1>8. i # 2
  BY <1>2, <1>5, <1>7
<1>9. i > 3 => a[3] = b[3]
  BY <1>5
<1>10. i = 3
  BY <1>2, <1>3, <1>6, <1>7, <1>8, <1>9
<1>11. QED
  BY <1>2, <1>5, <1>7, <1>10

\* Where aging outgrows the priority classes, work at the cap is dispatched before
\* all other work and in its enqueue order, as SchedulingKey's comment says.
THEOREM CappedWorkIsFifoHolds ==
    ASSUME AgingClearsPriority
    PROVE  Spec => CappedWorkIsFifo
<1> DEFINE Step == DispatchNormal =>
          \A e, f \in Eligible :
              Selects(e) /\ Capped(f) /\ f # e => Capped(e) /\ e.order < f.order
<1>1. Inv => Step
  BY SelectionIsFifo
<1>2. Inv /\ [Next]_vars => [Step]_vars
  BY <1>1
<1>3. CappedWorkIsFifo <=> [][Step]_vars
  BY DEF CappedWorkIsFifo
<1>4. QED
  BY <1>2, <1>3, Invariance, PTL DEF Spec

-----------------------------------------------------------------------------
(* Ends.                                                                   *)

\* No step revives ended work or changes what was published for it.
LEMMA EndedStep ==
    ASSUME Inv, [Next]_vars, NEW w, Ended(w)
    PROVE  Ended(w)' /\ PublishedFor(w)' = PublishedFor(w)
<1>1. ASSUME normal' \subseteq normal, UNCHANGED <<inFlight, seenWorkIds, published>>
      PROVE  Ended(w)' /\ PublishedFor(w)' = PublishedFor(w)
  BY <1>1 DEF Ended, PublishedFor
<1>2. ASSUME NEW s \in SessionIds, NEW g \in Generations,
             RegisterSession(s, g) \/ AdvanceGeneration(s, g)
      PROVE  Ended(w)' /\ PublishedFor(w)' = PublishedFor(w)
  BY <1>1, <1>2 DEF RegisterSession, AdvanceGeneration, Without, resourceVars
<1>3. ASSUME NEW delta \in Deltas, AdvanceTick(delta)
      PROVE  Ended(w)' /\ PublishedFor(w)' = PublishedFor(w)
  BY <1>1, <1>3 DEF AdvanceTick, queueVars, resourceVars
<1>4. ASSUME NEW r \in Requests, SubmitCoalesced(r)
      PROVE  Ended(w)' /\ PublishedFor(w)' = PublishedFor(w)
  <2>1. PICK e \in Replaceable(r) :
           /\ CanCoalesce(r, e)
           /\ normal' = (normal \ {e}) \cup
                 {[request |-> r, order |-> e.order, tick |-> e.tick]}
    BY <1>4 DEF SubmitCoalesced
  <2>2. e \in normal
    BY DEF Replaceable, Kept, Without
  <2>3. r.work # w
    BY <2>1, <2>2 DEF CanCoalesce, CanReserve, Ended
  <2>4. \A f \in normal' : f \in normal \/ f.request = r
    BY <2>1
  <2>5. QED
    BY <1>4, <2>3, <2>4 DEF SubmitCoalesced, Ended, PublishedFor, resourceVars
<1>5. ASSUME NEW r \in Requests, SubmitEnqueued(r)
      PROVE  Ended(w)' /\ PublishedFor(w)' = PublishedFor(w)
  <2>1. r.work # w
    BY <1>5 DEF SubmitEnqueued, CanEnqueue, CanReserve, Ended
  <2>2. \A f \in normal' : f \in normal \/ f.request = r
    BY <1>5 DEF SubmitEnqueued, Kept, Without
  <2>3. QED
    BY <1>5, <2>1, <2>2 DEF SubmitEnqueued, Ended, PublishedFor, resourceVars
<1>6. ASSUME NEW r \in Requests, SubmitRejected(r)
      PROVE  Ended(w)' /\ PublishedFor(w)' = PublishedFor(w)
  BY <1>1, <1>6 DEF SubmitRejected, Kept, Without, resourceVars
<1>7. ASSUME NEW a \in Signals, EnqueueCancel(a) \/ EnqueueFailure(a)
      PROVE  Ended(w)' /\ PublishedFor(w)' = PublishedFor(w)
  BY <1>1, <1>7 DEF EnqueueCancel, EnqueueFailure, queueVars, resourceVars
<1>8. ASSUME NEW a \in Signals, NEW d \in Resources, EnqueueCompletion(a, d)
      PROVE  Ended(w)' /\ PublishedFor(w)' = PublishedFor(w)
  BY <1>1, <1>8 DEF EnqueueCompletion, queueVars
<1>9. ASSUME NEW p \in published, EnqueueRelease(p)
      PROVE  Ended(w)' /\ PublishedFor(w)' = PublishedFor(w)
  BY <1>1, <1>9 DEF EnqueueRelease, queueVars
<1>10. ASSUME NEW s \in SessionIds, CloseSession(s)
       PROVE  Ended(w)' /\ PublishedFor(w)' = PublishedFor(w)
  BY <1>1, <1>10 DEF CloseSession, Without, resourceVars
<1>11. CASE BeginShutdown
  BY <1>1, <1>11 DEF BeginShutdown, resourceVars
<1>12. CASE DispatchCritical
  <2>1. UNCHANGED <<normal, seenWorkIds>> /\ inFlight' \subseteq inFlight
    BY <1>12 DEF DispatchCritical, DispatchCompletion, DispatchTerminal,
                 DispatchRelease, DispatchMarker, queueVars
  <2>2. Ended(w)'
    BY <2>1 DEF Ended
  <2>3. \/ published' = published
        \/ \E d : /\ Head(critical).signal \in inFlight
                  /\ published' = published \cup
                        {[signal |-> Head(critical).signal, resource |-> d]}
    BY <1>12 DEF DispatchCritical, DispatchCompletion, DispatchTerminal,
                 DispatchRelease, DispatchMarker, Publishes, resourceVars
  <2>4. PublishedFor(w)' = PublishedFor(w)
    BY <2>3 DEF Ended, PublishedFor
  <2>5. QED
    BY <2>2, <2>4
<1>13. CASE DispatchNormal
  <2>1. PICK e \in normal : /\ inFlight' = inFlight \cup {SignalOf(e.request)}
                            /\ normal' = normal \ {e}
    BY <1>13 DEF DispatchNormal
  <2>2. SignalOf(e.request).work = e.request.work
    BY EntryType, RequestType DEF Inv, TypeOK
  <2>3. UNCHANGED <<seenWorkIds, published>>
    BY <1>13 DEF DispatchNormal, resourceVars
  <2>4. QED
    BY <2>1, <2>2, <2>3 DEF Ended, PublishedFor
<1>14. CASE TryFinishShutdown
  BY <1>1, <1>14 DEF TryFinishShutdown, queueVars, resourceVars
<1>15. CASE UNCHANGED vars
  BY <1>1, <1>15 DEF vars, queueVars, resourceVars
<1>16. QED
  BY <1>2, <1>3, <1>4, <1>5, <1>6, <1>7, <1>8, <1>9, <1>10, <1>11, <1>12,
     <1>13, <1>14, <1>15 DEF Next

\* Work that was cancelled, failed, discarded, superseded or published stays so
\* under every later event.
THEOREM EndedIsFinalHolds == Spec => EndedIsFinal
<1> DEFINE Step == \A w \in WorkIds : Ended(w) =>
                     Ended(w)' /\ PublishedFor(w)' = PublishedFor(w)
<1>1. Inv /\ [Next]_vars => [Step]_vars
  BY EndedStep
<1>2. EndedIsFinal <=> [][Step]_vars
  BY DEF EndedIsFinal
<1>3. QED
  BY <1>1, <1>2, Invariance, PTL DEF Spec

-----------------------------------------------------------------------------
(* Ownership of resources.                                                 *)

\* What an event added at the back of the critical queue changes.
LEMMA CriticalAppend ==
    ASSUME TypeOK, NEW event \in Events, EnqueueCritical(event)
    PROVE  /\ Len(critical) \in Nat
           /\ Len(critical') = Len(critical) + 1
           /\ \A i \in 1..Len(critical) : critical'[i] = critical[i]
           /\ critical'[Len(critical) + 1] = event
  BY DEF TypeOK, EnqueueCritical

\* What the dispatch of the front event leaves in the critical queue.
LEMMA CriticalTail ==
    ASSUME TypeOK, critical # <<>>, critical' = Tail(critical)
    PROVE  /\ Len(critical) \in Nat \ {0}
           /\ Len(critical') = Len(critical) - 1
           /\ \A i \in 1..Len(critical') : critical'[i] = critical[i + 1]
           /\ Head(critical) = critical[1]
           /\ Head(critical) \in Events
  BY DEF TypeOK

\* An event that carries no resource leaves the ownership alone.
LEMMA PlainEventKeeps ==
    ASSUME TypeOK, ResourceOwnership, NEW event \in Events, EnqueueCritical(event),
           event.kind \notin {"Completion", "Release"}, UNCHANGED resource
    PROVE  ResourceOwnership'
<1> DEFINE kinds == {"Completion", "Release"}
<1>1. PICK n : /\ n = Len(critical) /\ n \in Nat /\ Len(critical') = n + 1
               /\ \A i \in 1..n : critical'[i] = critical[i]
               /\ critical'[n + 1] = event
  BY CriticalAppend
<1>2. \A i \in 1..n, kind \in kinds, d \in Resources : Carries(i, kind, d)' <=> Carries(i, kind, d)
  BY <1>1 DEF Carries
<1>3. \A kind \in kinds, d \in Resources : ~ Carries(n + 1, kind, d)'
  BY <1>1 DEF Carries
<1>4. \A i : i \in 1..(n + 1) <=> i \in 1..n \/ i = n + 1
  BY <1>1
<1>5. /\ \A d \in Resources :
            /\ resource[d] = "Queued" <=> \E i \in 1..n : Carries(i, "Completion", d)
            /\ resource[d] = "Releasing" <=> \E i \in 1..n : Carries(i, "Release", d)
      /\ \A i, j \in 1..n, d \in Resources : \A kind \in kinds :
            Carries(i, kind, d) /\ Carries(j, kind, d) => i = j
  BY <1>1, Zenon DEF ResourceOwnership
<1>6. \A kind \in kinds, d \in Resources :
         (\E i \in 1..(n + 1) : Carries(i, kind, d)') <=> \E i \in 1..n : Carries(i, kind, d)
  BY <1>2, <1>3, <1>4, Zenon
<1>7. \A i, j \in 1..(n + 1), d \in Resources : \A kind \in kinds :
         Carries(i, kind, d)' /\ Carries(j, kind, d)' => i = j
  BY <1>2, <1>3, <1>4, <1>5
<1>8. \A d \in Resources :
         /\ resource'[d] = "Queued" <=> \E i \in 1..(n + 1) : Carries(i, "Completion", d)'
         /\ resource'[d] = "Releasing" <=> \E i \in 1..(n + 1) : Carries(i, "Release", d)'
  BY <1>5, <1>6
<1> QED
  BY <1>1, <1>7, <1>8, SMTT(20) DEF ResourceOwnership

\* An event that takes a resource no queued event carries becomes its carrier.
LEMMA CarrierEventKeeps ==
    ASSUME TypeOK, ResourceOwnership, NEW event \in Events, EnqueueCritical(event),
           NEW d \in Resources, event.resource = d,
           \/ /\ event.kind = "Completion"
              /\ resource[d] = "Worker" /\ resource' = [resource EXCEPT ![d] = "Queued"]
           \/ /\ event.kind = "Release"
              /\ resource[d] = "Published" /\ resource' = [resource EXCEPT ![d] = "Releasing"]
    PROVE  ResourceOwnership'
<1>0. PICK n : n = Len(critical) + 1
  OBVIOUS
<1>1. /\ Len(critical) \in Nat /\ Len(critical') = n /\ 1..n = (1..Len(critical)) \cup {n}
      /\ n \notin 1..Len(critical)
      /\ \A i \in 1..Len(critical) : critical'[i] = critical[i]
      /\ critical'[n] = event
  BY <1>0, CriticalAppend
<1>2. ASSUME NEW i \in 1..Len(critical), NEW kind, NEW c
      PROVE  Carries(i, kind, c)' <=> Carries(i, kind, c)
  BY <1>1 DEF Carries
<1>3. \A kind, c : Carries(n, kind, c)' <=> event.kind = kind /\ d = c
  BY <1>1 DEF Carries
<1>4. /\ \A i \in 1..Len(critical) : ~ Carries(i, "Completion", d)
      /\ \A i \in 1..Len(critical) : ~ Carries(i, "Release", d)
  BY DEF ResourceOwnership
<1>5. ASSUME NEW c \in Resources
      PROVE  /\ resource'[c] = "Queued" <=>
                  \E i \in 1..Len(critical') : Carries(i, "Completion", c)'
             /\ resource'[c] = "Releasing" <=>
                  \E i \in 1..Len(critical') : Carries(i, "Release", c)'
  <2>1. CASE c = d
    <3>1. resource'[d] = IF event.kind = "Completion" THEN "Queued" ELSE "Releasing"
      BY DEF TypeOK
    <3>2. QED
      BY <1>1, <1>2, <1>3, <1>4, <2>1, <3>1
  <2>2. CASE c # d
    <3>1. resource'[c] = resource[c]
      BY <2>2 DEF TypeOK
    <3>2. QED
      BY <1>1, <1>2, <1>3, <2>2, <3>1 DEF ResourceOwnership
  <2>3. QED
    BY <2>1, <2>2
<1>6. ASSUME NEW i \in 1..Len(critical'), NEW j \in 1..Len(critical'), NEW c \in Resources,
             NEW kind \in {"Completion", "Release"},
             Carries(i, kind, c)', Carries(j, kind, c)'
      PROVE  i = j
  <2>1. CASE i = n \/ j = n
    <3>1. c = d
      BY <1>3, <1>6, <2>1
    <3>2. QED
      BY <1>1, <1>2, <1>4, <1>6, <2>1, <3>1
  <2>2. CASE i # n /\ j # n
    BY <1>1, <1>2, <1>6, <2>2 DEF ResourceOwnership
  <2>3. QED
    BY <2>1, <2>2
<1>7. QED
  BY <1>5, <1>6 DEF ResourceOwnership

\* The dispatch of the front event ends what it carries and nothing else.
LEMMA DispatchKeepsOwnership ==
    ASSUME TypeOK, ResourceOwnership, DispatchCritical
    PROVE  ResourceOwnership'
<1> DEFINE event == Head(critical)
<1>1. critical # <<>> /\ critical' = Tail(critical)
  BY DEF DispatchCritical
<1>2. /\ Len(critical) \in Nat \ {0} /\ Len(critical') = Len(critical) - 1
      /\ \A i \in 1..Len(critical') : critical'[i] = critical[i + 1]
      /\ event = critical[1] /\ event \in Events
  BY <1>1, CriticalTail
<1>3. \/ /\ event.kind \notin {"Completion", "Release"} /\ resource' = resource
      \/ /\ event.kind = "Completion"
         /\ \E v \in {"Published", "Discarded"} :
               resource' = [resource EXCEPT ![event.resource] = v]
      \/ /\ event.kind = "Release"
         /\ resource' = [resource EXCEPT ![event.resource] = "Released"]
  BY DEF DispatchCritical, DispatchCompletion, DispatchTerminal, DispatchRelease,
         DispatchMarker, resourceVars
<1>4. event.kind \in {"Completion", "Release"} => event.resource \in Resources
  BY <1>2 DEF Events
<1> HIDE DEF event
<1>5. ASSUME NEW i \in 1..Len(critical'), NEW j \in 1..Len(critical'), NEW c \in Resources,
             NEW kind \in {"Completion", "Release"},
             Carries(i, kind, c)', Carries(j, kind, c)'
      PROVE  i = j
  <2>1. i + 1 \in 1..Len(critical) /\ j + 1 \in 1..Len(critical)
    BY <1>2
  <2>2. Carries(i + 1, kind, c) /\ Carries(j + 1, kind, c)
    BY <1>2, <1>5 DEF Carries
  <2>3. i + 1 = j + 1
    BY <2>1, <2>2 DEF ResourceOwnership
  <2>4. QED
    BY <2>3
<1>6. ASSUME NEW c \in Resources, NEW kind \in {"Completion", "Release"}
      PROVE  (\E i \in 1..Len(critical') : Carries(i, kind, c)') <=>
                /\ \E i \in 1..Len(critical) : Carries(i, kind, c)
                /\ ~ Carries(1, kind, c)
  <2>1. ASSUME NEW i \in 1..Len(critical'), Carries(i, kind, c)'
        PROVE  /\ \E k \in 1..Len(critical) : Carries(k, kind, c)
               /\ ~ Carries(1, kind, c)
    <3>1. i + 1 \in 1..Len(critical) /\ 1 \in 1..Len(critical) /\ i + 1 # 1
      BY <1>2
    <3>2. Carries(i + 1, kind, c)
      BY <1>2, <2>1 DEF Carries
    <3>3. QED
      BY <3>1, <3>2 DEF ResourceOwnership
  <2>2. ASSUME NEW i \in 1..Len(critical), Carries(i, kind, c), ~ Carries(1, kind, c)
        PROVE  \E k \in 1..Len(critical') : Carries(k, kind, c)'
    <3>1. i - 1 \in 1..Len(critical') /\ (i - 1) + 1 = i
      BY <1>2, <2>2
    <3>2. Carries(i - 1, kind, c)'
      BY <1>2, <2>2, <3>1 DEF Carries
    <3>3. QED
      BY <3>1, <3>2
  <2>3. QED
    BY <2>1, <2>2
<1>7. ASSUME NEW c \in Resources
      PROVE  /\ resource'[c] = "Queued" <=>
                  \E i \in 1..Len(critical') : Carries(i, "Completion", c)'
             /\ resource'[c] = "Releasing" <=>
                  \E i \in 1..Len(critical') : Carries(i, "Release", c)'
  <2>1. \A kind : Carries(1, kind, c) <=> event.kind = kind /\ event.resource = c
    BY <1>2 DEF Carries
  <2>2. /\ resource[c] = "Queued" <=>
             \E i \in 1..Len(critical) : Carries(i, "Completion", c)
        /\ resource[c] = "Releasing" <=>
             \E i \in 1..Len(critical) : Carries(i, "Release", c)
    BY DEF ResourceOwnership
  <2>3. 1 \in 1..Len(critical)
    BY <1>2
  <2>4. /\ resource'[c] = "Queued" <=> resource[c] = "Queued" /\ ~ Carries(1, "Completion", c)
        /\ resource'[c] = "Releasing" <=> resource[c] = "Releasing" /\ ~ Carries(1, "Release", c)
    <3>1. resource \in [Resources -> {"Worker", "Queued", "Published", "Releasing",
                                      "Released", "Discarded"}]
      BY DEF TypeOK
    <3>2. CASE event.kind \notin {"Completion", "Release"} /\ resource' = resource
      BY <2>1, <3>2
    <3>3. CASE event.kind \in {"Completion", "Release"} /\ event.resource # c
      BY <1>3, <1>4, <2>1, <3>1, <3>3
    <3>4. CASE event.kind = "Completion" /\ event.resource = c
      <4>1. resource[c] = "Queued"
        BY <2>1, <2>2, <2>3, <3>4
      <4>2. resource'[c] \in {"Published", "Discarded"}
        BY <1>3, <3>1, <3>4
      <4>3. QED
        BY <2>1, <3>4, <4>1, <4>2
    <3>5. CASE event.kind = "Release" /\ event.resource = c
      <4>1. resource[c] = "Releasing"
        BY <2>1, <2>2, <2>3, <3>5
      <4>2. resource'[c] = "Released"
        BY <1>3, <3>1, <3>5
      <4>3. QED
        BY <2>1, <3>5, <4>1, <4>2
    <3>6. QED
      BY <1>3, <3>2, <3>3, <3>4, <3>5
  <2>5. QED
    BY <1>6, <2>2, <2>4
<1>8. QED
  BY <1>5, <1>7 DEF ResourceOwnership

\* Every step keeps each resource with exactly one owner.
LEMMA OwnershipStep == TypeOK /\ ResourceOwnership /\ [Next]_vars => ResourceOwnership'
<1> SUFFICES ASSUME TypeOK, ResourceOwnership, [Next]_vars PROVE ResourceOwnership'
  OBVIOUS
<1>1. ASSUME UNCHANGED <<critical, resource>> PROVE ResourceOwnership'
  BY <1>1 DEF ResourceOwnership, Carries
<1>2. ASSUME NEW s \in SessionIds, NEW g \in Generations,
             RegisterSession(s, g) \/ AdvanceGeneration(s, g)
      PROVE  ResourceOwnership'
  BY <1>1, <1>2 DEF RegisterSession, AdvanceGeneration, resourceVars
<1>3. ASSUME NEW delta \in Deltas, AdvanceTick(delta)
      PROVE  ResourceOwnership'
  BY <1>1, <1>3 DEF AdvanceTick, resourceVars
<1>4. ASSUME NEW r \in Requests, SubmitCoalesced(r) \/ SubmitEnqueued(r) \/ SubmitRejected(r)
      PROVE  ResourceOwnership'
  BY <1>1, <1>4 DEF SubmitCoalesced, SubmitEnqueued, SubmitRejected, resourceVars
<1>5. ASSUME NEW a \in Signals, EnqueueCancel(a) \/ EnqueueFailure(a)
      PROVE  ResourceOwnership'
  <2>1. /\ [kind |-> "Cancel", signal |-> a] \in Events
        /\ [kind |-> "Failure", signal |-> a] \in Events
    BY DEF Events
  <2>2. QED
    BY <1>5, <2>1, PlainEventKeeps DEF EnqueueCancel, EnqueueFailure, resourceVars
<1>6. ASSUME NEW a \in Signals, NEW d \in Resources, EnqueueCompletion(a, d)
      PROVE  ResourceOwnership'
  <2>1. [kind |-> "Completion", signal |-> a, resource |-> d] \in Events
    BY DEF Events
  <2>2. QED
    BY <1>6, <2>1, CarrierEventKeeps DEF EnqueueCompletion
<1>7. ASSUME NEW p \in published, EnqueueRelease(p)
      PROVE  ResourceOwnership'
  <2>1. p.signal \in Signals /\ p.resource \in Resources
    BY DEF TypeOK
  <2>2. [kind |-> "Release", session |-> p.signal.session, resource |-> p.resource]
          \in Events
    BY <2>1, SignalType DEF Events
  <2>3. QED
    BY <1>7, <2>1, <2>2, CarrierEventKeeps DEF EnqueueRelease
<1>8. ASSUME NEW s \in SessionIds, CloseSession(s)
      PROVE  ResourceOwnership'
  <2>1. [kind |-> "Close", session |-> s] \in Events
    BY DEF Events
  <2>2. QED
    BY <1>8, <2>1, PlainEventKeeps DEF CloseSession, resourceVars
<1>9. CASE BeginShutdown
  <2>1. [kind |-> "Shutdown"] \in Events
    BY DEF Events
  <2>2. QED
    BY <1>9, <2>1, PlainEventKeeps DEF BeginShutdown, resourceVars
<1>10. CASE DispatchCritical
  BY <1>10, DispatchKeepsOwnership
<1>11. CASE DispatchNormal
  BY <1>1, <1>11 DEF DispatchNormal, resourceVars
<1>12. CASE TryFinishShutdown
  BY <1>1, <1>12 DEF TryFinishShutdown, resourceVars
<1>13. CASE UNCHANGED vars
  BY <1>1, <1>13 DEF vars, resourceVars
<1>14. QED
  BY <1>2, <1>3, <1>4, <1>5, <1>6, <1>7, <1>8, <1>9, <1>10, <1>11, <1>12, <1>13 DEF Next

\* However completions, releases, closes and dispatches interleave, a resource in
\* the critical queue is carried by exactly one event, of the kind its state names.
THEOREM ResourceOwnershipHolds == Spec => []ResourceOwnership
<1>1. Init => TypeOK /\ ResourceOwnership
  BY InitType DEF Init, ResourceOwnership
<1>2. TypeOK /\ ResourceOwnership /\ [Next]_vars => TypeOK' /\ ResourceOwnership'
  BY TypeStep, OwnershipStep
<1>3. QED
  BY <1>1, <1>2, PTL DEF Spec

-----------------------------------------------------------------------------
(* The fairness window.                                                    *)

\* The turns that count against a session's window: since it was served, or its
\* backlog began, and past the turns its burst allows the others.
WindowEnd(s) == Later(since[s], lastServiceTurn[s] + FairnessBurst)

\* Past the end of the window of a session with a backlog, every turn was the last
\* one of some other registered session: no other session is served there twice.
WindowIsSpent ==
    \A s \in SessionIds :
        queued[s] > 0 =>
            \A k \in WindowEnd(s)..(nextServiceTurn - 1) :
                \E t \in Registered \ {s} : lastServiceTurn[t] = k

TurnsOK ==
    /\ since \in [SessionIds -> Nat]
    /\ \A s \in SessionIds : lastServiceTurn[s] < nextServiceTurn
    /\ Cardinality(Registered) <= MaxSessions

FairInv == Inv /\ TurnsOK /\ WindowIsSpent

\* Sessions are registered up to the limit and never unregistered.
LEMMA RegisteredStep ==
    ASSUME TypeOK, Cardinality(Registered) <= MaxSessions, [Next]_vars
    PROVE  Registered \subseteq Registered' /\ Cardinality(Registered') <= MaxSessions
<1>1. ASSUME sessionPhase' = sessionPhase
      PROVE  Registered \subseteq Registered' /\ Cardinality(Registered') <= MaxSessions
  BY <1>1 DEF Registered
<1>2. ASSUME NEW s \in SessionIds, NEW g \in Generations, RegisterSession(s, g)
      PROVE  Registered \subseteq Registered' /\ Cardinality(Registered') <= MaxSessions
  <2>1. /\ Registered' = Registered \cup {s} /\ s \notin Registered
        /\ Cardinality(Registered) < MaxSessions
    BY <1>2 DEF Registered, RegisterSession, TypeOK
  <2>2. IsFiniteSet(Registered)
    BY InputType, FS_Subset DEF Registered
  <2>3. QED
    BY <2>1, <2>2, AddWithin, LimitsType
<1>3. ASSUME NEW s \in SessionIds, CloseSession(s)
      PROVE  Registered \subseteq Registered' /\ Cardinality(Registered') <= MaxSessions
  <2>1. Registered' = Registered
    BY <1>3 DEF Registered, CloseSession, TypeOK
  <2>2. QED
    BY <2>1
<1>4. ASSUME BeginShutdown
      PROVE  Registered \subseteq Registered' /\ Cardinality(Registered') <= MaxSessions
  <2>1. Registered' = Registered
    BY <1>4 DEF Registered, BeginShutdown, TypeOK
  <2>2. QED
    BY <2>1
<1>5. \/ sessionPhase' = sessionPhase
      \/ \E s \in SessionIds, g \in Generations : RegisterSession(s, g)
      \/ \E s \in SessionIds : CloseSession(s)
      \/ BeginShutdown
  BY DEF Next, vars, AdvanceTick, AdvanceGeneration, SubmitCoalesced, SubmitEnqueued,
         SubmitRejected, EnqueueCancel, EnqueueFailure, EnqueueCompletion,
         EnqueueRelease, DispatchCritical, DispatchNormal, TryFinishShutdown, queueVars
<1>6. QED
  BY <1>1, <1>2, <1>3, <1>4, <1>5

\* Only dispatch_next gives turns.
LEMMA TurnsStep ==
    ASSUME [Next]_vars
    PROVE  DispatchNormal \/ UNCHANGED <<nextServiceTurn, lastServiceTurn>>
  BY DEF Next, vars, RegisterSession, AdvanceTick, AdvanceGeneration, SubmitCoalesced,
         SubmitEnqueued, SubmitRejected, EnqueueCancel, EnqueueFailure,
         EnqueueCompletion, EnqueueRelease, CloseSession, BeginShutdown,
         DispatchCritical, TryFinishShutdown, queueVars

\* A session has a positive count exactly when the queue holds work of it.
LEMMA CountedIsBacklogged ==
    ASSUME Inv, NEW s \in SessionIds, queued[s] > 0
    PROVE  s \in Backlogged /\ s \in Registered
<1>1. queued[s] = Cardinality(OfSession(normal, s))
  BY DEF Inv, QueueAccounting
<1>2. OfSession(normal, s) # {}
  BY <1>1, FS_EmptySet
<1>3. PICK e \in normal : e.request.session = s
  BY <1>2 DEF OfSession
<1>4. QED
  BY <1>3 DEF Backlogged, Registered, Inv, QueueIsCurrent

\* The fairness window ends no later for any session with a backlog.
LEMMA WindowLimit ==
    ASSUME TypeOK, NEW s \in Backlogged
    PROVE  /\ ExclusiveTurnLimit \in Nat
           /\ ExclusiveTurnLimit <= FairnessBurst + lastServiceTurn[s]
<1> DEFINE turns == {lastServiceTurn[t] : t \in Backlogged}
           Least(t) == \A u \in Backlogged : lastServiceTurn[t] <= lastServiceTurn[u]
           c == CHOOSE t \in Backlogged : Least(t)
<1>1. \A t \in Backlogged : lastServiceTurn[t] \in Nat
  <2>1. \A e \in normal : e.request.session \in SessionIds
    BY EntryType DEF TypeOK
  <2>2. \A t \in SessionIds : lastServiceTurn[t] \in Nat
    BY InputType DEF TypeOK
  <2>3. QED
    BY <2>1, <2>2 DEF Backlogged
<1>2. PICK n \in turns : \A k \in turns : n <= k
  BY <1>1, LeastNatural
<1>3. \E t \in Backlogged : Least(t)
  BY <1>2
<1>4. c \in Backlogged /\ Least(c)
  BY <1>3
<1>5. ExclusiveTurnLimit = FairnessBurst + lastServiceTurn[c]
  BY DEF ExclusiveTurnLimit
<1> HIDE DEF c
<1>6. QED
  BY <1>1, <1>4, <1>5, LimitsType

\* A dispatch gives its turn to an open session inside the window.
LEMMA ServedInWindow ==
    ASSUME Inv, DispatchNormal
    PROVE  \E t \in Registered :
              /\ lastServiceTurn[t] < ExclusiveTurnLimit
              /\ lastServiceTurn' = [lastServiceTurn EXCEPT ![t] = nextServiceTurn]
              /\ nextServiceTurn' = nextServiceTurn + 1
              /\ \A s \in SessionIds : queued'[s] <= queued[s]
<1>1. PICK e \in normal :
         /\ Selects(e) /\ CanStart(e)
         /\ queued' = [queued EXCEPT ![e.request.session] = @ - 1]
         /\ lastServiceTurn' =
               [lastServiceTurn EXCEPT ![e.request.session] = nextServiceTurn]
  BY ZenonT(60) DEF DispatchNormal
<1>2. e.request.session \in SessionIds
  BY EntryType DEF Inv, TypeOK
<1>3. e.request.session \in Registered
  BY <1>2 DEF Registered, Inv, QueueIsCurrent
<1>4. lastServiceTurn[e.request.session] < ExclusiveTurnLimit
  BY <1>1 DEF Selects, Eligible
<1>5. \A s \in SessionIds : queued'[s] <= queued[s]
  BY <1>1, <1>2 DEF Inv, TypeOK
<1>6. nextServiceTurn' = nextServiceTurn + 1
  BY DEF DispatchNormal
<1>7. QED
  BY <1>1, <1>3, <1>4, <1>5, <1>6

\* A step that gives no turn keeps the windows.
LEMMA NoTurnKeepsWindows ==
    ASSUME FairInv, Inv', Registered \subseteq Registered', FNext \/ UNCHANGED fairnessVars,
           UNCHANGED <<nextServiceTurn, lastServiceTurn>>
    PROVE  WindowIsSpent'
<1> SUFFICES ASSUME NEW s \in SessionIds, queued'[s] > 0,
                    NEW k \in (WindowEnd(s)')..(nextServiceTurn - 1)
             PROVE  \E t \in Registered' \ {s} : lastServiceTurn[t] = k
  BY DEF WindowIsSpent
<1>1. /\ since \in [SessionIds -> Nat] /\ nextServiceTurn \in Nat
      /\ lastServiceTurn[s] \in Nat /\ FairnessBurst \in Nat
      /\ queued[s] \in Nat
  BY LimitsType, InputType DEF FairInv, TurnsOK, Inv, TypeOK
<1>2. CASE queued[s] > 0
  <2>1. since'[s] = since[s]
    BY <1>1, <1>2 DEF FNext, fairnessVars
  <2>2. WindowEnd(s)' = WindowEnd(s)
    BY <2>1 DEF WindowEnd, Later
  <2>3. QED
    BY <1>2, <2>2 DEF FairInv, WindowIsSpent
<1>3. CASE ~ (queued[s] > 0)
  <2>1. since'[s] = nextServiceTurn
    BY <1>1, <1>3 DEF FNext, fairnessVars, vars, queueVars
  <2>2. WindowEnd(s)' \in Nat /\ WindowEnd(s)' >= nextServiceTurn
    BY <1>1, <2>1 DEF WindowEnd, Later
  <2>3. QED
    BY <1>1, <2>2
<1>4. QED
  BY <1>2, <1>3

\* A turn given to one session keeps the windows of the others.
LEMMA TurnKeepsWindows ==
    ASSUME FairInv, Inv', Registered \subseteq Registered', FNext, DispatchNormal
    PROVE  WindowIsSpent' /\ \A s \in SessionIds : lastServiceTurn'[s] < nextServiceTurn'
<1>1. PICK t \in Registered :
         /\ lastServiceTurn[t] < ExclusiveTurnLimit
         /\ lastServiceTurn' = [lastServiceTurn EXCEPT ![t] = nextServiceTurn]
         /\ nextServiceTurn' = nextServiceTurn + 1
         /\ \A s \in SessionIds : queued'[s] <= queued[s]
  BY ServedInWindow DEF FairInv
<1>2. /\ since \in [SessionIds -> Nat] /\ nextServiceTurn \in Nat
      /\ lastServiceTurn \in [SessionIds -> Nat] /\ FairnessBurst \in Nat \ {0}
      /\ queued \in [SessionIds -> Nat] /\ queued' \in [SessionIds -> Nat]
      /\ \A s \in SessionIds : lastServiceTurn[s] < nextServiceTurn
      /\ t \in SessionIds
  BY LimitsType, InputType DEF FairInv, TurnsOK, Inv, TypeOK, Registered
<1>3. \A s \in SessionIds : lastServiceTurn'[s] < nextServiceTurn'
  BY <1>1, <1>2
<1>4. ASSUME NEW s \in SessionIds, queued'[s] > 0,
             NEW k \in (WindowEnd(s)')..(nextServiceTurn' - 1)
      PROVE  \E u \in Registered' \ {s} : lastServiceTurn'[u] = k
  <2>1. queued[s] > 0
    BY <1>1, <1>2, <1>4
  <2>2. since'[s] = since[s]
    BY <1>2, <2>1 DEF FNext
  <2>3. CASE t = s
    <3>1. lastServiceTurn'[s] = nextServiceTurn
      BY <1>1, <1>2, <2>3
    <3>2. WindowEnd(s)' \in Nat /\ WindowEnd(s)' > nextServiceTurn
      BY <1>2, <2>2, <3>1 DEF WindowEnd, Later
    <3>3. QED
      BY <1>1, <1>2, <3>2
  <2>4. CASE t # s
    <3>1. lastServiceTurn'[s] = lastServiceTurn[s]
      BY <1>1, <1>2, <2>4
    <3>2. WindowEnd(s)' = WindowEnd(s)
      BY <2>2, <3>1 DEF WindowEnd
    <3>3. WindowEnd(s) \in Nat /\ WindowEnd(s) >= lastServiceTurn[s] + FairnessBurst
      BY <1>2 DEF WindowEnd, Later
    <3>4. CASE k = nextServiceTurn
      BY <1>1, <1>2, <2>4, <3>4
    <3>5. CASE k # nextServiceTurn
      <4>1. k \in WindowEnd(s)..(nextServiceTurn - 1)
        BY <1>1, <1>2, <3>2, <3>3, <3>5
      <4>2. PICK u \in Registered \ {s} : lastServiceTurn[u] = k
        BY <2>1, <4>1 DEF FairInv, WindowIsSpent
      <4>3. ExclusiveTurnLimit \in Nat /\ ExclusiveTurnLimit <= FairnessBurst + lastServiceTurn[s]
        BY <2>1, CountedIsBacklogged, WindowLimit DEF FairInv, Inv
      <4>4. u # t
        BY <1>1, <1>2, <3>3, <4>1, <4>2, <4>3
      <4>5. lastServiceTurn'[u] = k
        BY <1>1, <1>2, <4>2, <4>4 DEF Registered
      <4>6. QED
        BY <4>2, <4>5
    <3>6. QED
      BY <3>4, <3>5
  <2>5. QED
    BY <2>3, <2>4
<1>5. QED
  BY <1>3, <1>4 DEF WindowIsSpent

\* Every step preserves the windows.
LEMMA FairStep == FairInv /\ [FNext]_fairnessVars => FairInv'
<1> SUFFICES ASSUME FairInv, [FNext]_fairnessVars PROVE FairInv'
  OBVIOUS
<1>1. [Next]_vars
  BY DEF FNext, fairnessVars
<1>2. Inv'
  BY <1>1, InvStep DEF FairInv
<1>3. Registered \subseteq Registered' /\ Cardinality(Registered') <= MaxSessions
  BY <1>1, RegisteredStep DEF FairInv, TurnsOK, Inv
<1>4. since' \in [SessionIds -> Nat]
  BY DEF FairInv, TurnsOK, Inv, TypeOK, FNext, fairnessVars
<1>5. CASE UNCHANGED <<nextServiceTurn, lastServiceTurn>>
  <2>1. WindowIsSpent'
    BY <1>2, <1>3, <1>5, NoTurnKeepsWindows
  <2>2. QED
    BY <1>2, <1>3, <1>4, <1>5, <2>1 DEF FairInv, TurnsOK
<1>6. CASE FNext /\ DispatchNormal
  <2>1. WindowIsSpent' /\ \A s \in SessionIds : lastServiceTurn'[s] < nextServiceTurn'
    BY <1>2, <1>3, <1>6, TurnKeepsWindows
  <2>2. QED
    BY <1>2, <1>3, <1>4, <2>1 DEF FairInv, TurnsOK
<1>7. QED
  BY <1>1, <1>5, <1>6, TurnsStep DEF fairnessVars, vars, queueVars

\* The windows hold in a new scheduler.
LEMMA FairInit == FInit => FairInv
<1> SUFFICES ASSUME FInit PROVE FairInv
  OBVIOUS
<1>1. Inv
  BY InvInit DEF FInit
<1>2. Registered = {}
  BY DEF FInit, Init, Registered
<1>3. Cardinality(Registered) <= MaxSessions
  BY <1>2, FS_EmptySet, LimitsType
<1>4. TurnsOK
  BY <1>3 DEF FInit, Init, TurnsOK
<1>5. WindowIsSpent
  BY DEF FInit, Init, WindowIsSpent
<1>6. QED
  BY <1>1, <1>4, <1>5 DEF FairInv

\* A spent window bounds the bypass: past its end there are no more turns than
\* other sessions.
LEMMA SpentWindowBounds == FairInv => BoundedBypass
<1> SUFFICES ASSUME FairInv, NEW s \in SessionIds, queued[s] > 0
             PROVE  Bypasses(s) <= FairnessBurst + MaxSessions - 2
  BY DEF BoundedBypass
<1> DEFINE I == WindowEnd(s)..(nextServiceTurn - 1)
           R == Registered \ {s}
           T == {lastServiceTurn[t] : t \in R}
<1>1. /\ since[s] \in Nat /\ nextServiceTurn \in Nat /\ lastServiceTurn[s] \in Nat
      /\ FairnessBurst \in Nat \ {0} /\ MaxSessions \in Nat
  BY LimitsType, InputType DEF FairInv, TurnsOK, Inv, TypeOK
<1>2. WindowEnd(s) \in Nat
  BY <1>1 DEF WindowEnd, Later
<1>3. s \in Registered /\ IsFiniteSet(Registered) /\ Cardinality(Registered) <= MaxSessions
  BY CountedIsBacklogged, InputType, FS_Subset DEF FairInv, TurnsOK, Registered
<1>4. IsFiniteSet(R) /\ Cardinality(R) = Cardinality(Registered) - 1
  BY <1>3, FS_RemoveElement
<1>5. Cardinality(Registered) \in Nat /\ Cardinality(R) \in Nat
  BY <1>3, <1>4, FS_CardinalityType
<1>6. I \subseteq T
  BY DEF FairInv, WindowIsSpent
<1> HIDE DEF R
<1>7. IsFiniteSet(T) /\ Cardinality(T) <= Cardinality(R) /\ Cardinality(T) \in Nat
  <2> DEFINE f == [t \in R |-> lastServiceTurn[t]]
  <2>1. f \in Surjection(R, T)
    BY DEF Surjection
  <2> HIDE DEF f, T
  <2>2. IsFiniteSet(T) /\ Cardinality(T) <= Cardinality(R)
    BY <1>4, <2>1, FS_Surjection
  <2>3. QED
    BY <2>2, FS_CardinalityType
<1> HIDE DEF T
<1>8. Cardinality(I) <= Cardinality(T) /\ Cardinality(I) \in Nat
  BY <1>6, <1>7, FS_Subset, FS_CardinalityType
<1>9. nextServiceTurn - WindowEnd(s) <= Cardinality(I)
  <2>1. Cardinality(I) = IF WindowEnd(s) > nextServiceTurn - 1 THEN 0
                         ELSE (nextServiceTurn - 1) - WindowEnd(s) + 1
    <3>1. WindowEnd(s) \in Int /\ nextServiceTurn - 1 \in Int
      BY <1>1, <1>2
    <3>2. QED
      BY <3>1, FS_Interval
  <2>2. QED
    BY <1>1, <1>2, <2>1
<1> HIDE DEF I
<1>10. nextServiceTurn - WindowEnd(s) <= MaxSessions - 1
  BY <1>1, <1>2, <1>3, <1>4, <1>5, <1>7, <1>8, <1>9
<1>11. WindowEnd(s) <= Later(since[s], lastServiceTurn[s] + 1) + FairnessBurst - 1
  BY <1>1 DEF WindowEnd, Later
<1>12. Later(since[s], lastServiceTurn[s] + 1) \in Nat
  BY <1>1 DEF Later
<1>13. QED
  BY <1>1, <1>2, <1>10, <1>11, <1>12 DEF Bypasses

\* No session with queued work is bypassed for longer than the burst and the number
\* of sessions allow, for any number of sessions and any configured burst.
THEOREM BoundedBypassHolds == FSpec => []BoundedBypass
  BY FairInit, FairStep, SpentWindowBounds, PTL DEF FSpec

=============================================================================
