-------------------------- MODULE SchedulerProofs --------------------------
(***************************************************************************)
(* Proofs about the scheduler, for every configuration SchedulerLimits      *)
(* accepts and every finite set of sessions: each kind of step keeps the    *)
(* invariant of SchedulerInvariant, and the theorems.                       *)
(***************************************************************************)
EXTENDS SchedulerInvariant

-----------------------------------------------------------------------------
(* One lemma per kind of step.                                             *)

\* Steps that leave the normal queue, the sessions and the arbiter alone.
LEMMA CriticalIngressKeeps ==
    ASSUME Inv, NEW event \in Events, EnqueueCritical(event),
           UNCHANGED <<phase, inFlight, queueVars, published>>
    PROVE  CountsOK' /\ BoundsOK' /\ QueueIsCurrent' /\ WorkIdsAreUnique'
<1>1. CountsOK'
  BY InvSplit DEF CountsOK, Accounted, Fits, SlotSet, Open, OfSession, queueVars
<1>2. Len(critical') <= CriticalCapacity
  BY LimitsType DEF Inv, TypeOK, EnqueueCritical
<1>3. BoundsOK'
  BY <1>2, InvSplit DEF BoundsOK, queueVars
<1>4. QueueIsCurrent' /\ WorkIdsAreUnique'
  BY DEF Inv, QueueIsCurrent, WorkIdsAreUnique, queueVars
<1>5. QED
  BY <1>1, <1>3, <1>4

\* register_session keeps the invariant: it only succeeds while the queue has room
\* for one more reservation.
LEMMA RegisterKeepsInv ==
    ASSUME Inv, NEW s \in SessionIds, NEW g \in Generations, RegisterSession(s, g)
    PROVE  CountsOK' /\ BoundsOK' /\ QueueIsCurrent' /\ WorkIdsAreUnique'
<1> USE DEF RegisterSession
<1>1. Open' = Open \cup {s} /\ s \notin Open /\ Open \in SUBSET SessionIds
  BY DEF Inv, TypeOK, Open
<1>2. queued[s] = 0
  <2>1. OfSession(normal, s) = {}
    BY DEF Inv, QueueIsCurrent, OfSession
  <2>2. QED
    BY <2>1, FS_EmptySet DEF Inv, QueueAccounting
<1>3. Cardinality(normal) \in Nat
  BY FS_CardinalityType DEF Inv, Finite
<1>4. Fits(normal, Open \cup {s}, queued)
  <2>1. Cardinality(normal) + Cardinality(SlotSet(Open, queued, {}))
          + PerSessionReservation <= NormalCapacity
    BY DEF UnusedOpenReservations, UnusedSlots, SlotSet
  <2>2. queued \in [SessionIds -> Nat]
    BY DEF Inv, TypeOK
  <2>3. QED
    BY <1>1, <1>2, <1>3, <2>1, <2>2, RegisterKeeps
<1>5. CountsOK'
  BY <1>1, <1>4, InvSplit DEF CountsOK, Accounted, Fits, SlotSet, OfSession
<1>6. BoundsOK'
  BY InvSplit DEF BoundsOK
<1>7. QueueIsCurrent'
  BY DEF Inv, TypeOK, QueueIsCurrent
<1>8. WorkIdsAreUnique'
  BY DEF Inv, WorkIdsAreUnique, resourceVars
<1>9. QED
  BY <1>5, <1>6, <1>7, <1>8

\* A session's queued work is dropped: by a generation advance, a rejected
\* submission that advanced the generation, or a close.
LEMMA ClearKeepsInv ==
    ASSUME Inv, NEW s \in SessionIds, s \in Open, Open' \in {Open, Open \ {s}},
           normal' = Without(normal, s), queued' = [queued EXCEPT ![s] = 0]
    PROVE  CountsOK'
<1>1. /\ queued \in [SessionIds -> Nat]
      /\ Open \in SUBSET SessionIds /\ Open' \in SUBSET SessionIds
  BY DEF Inv, TypeOK, Open
<1>2. /\ IsFiniteSet(normal)
      /\ Accounted(normal, queued)
      /\ Fits(normal, Open, queued)
  BY InvSplit DEF CountsOK
<1>3. /\ IsFiniteSet(Without(normal, s))
      /\ Accounted(Without(normal, s), queued')
      /\ Fits(Without(normal, s), Open', queued')
  BY <1>1, <1>2, ClearKeeps
<1>4. \A t \in SessionIds : queued'[t] <= PerSessionCapacity
  BY <1>1, InvSplit, LimitsType DEF CountsOK
<1>5. QED
  BY <1>3, <1>4 DEF CountsOK

\* advance_generation keeps the invariant: what it removes from the queue it also
\* takes off the session's count.
LEMMA AdvanceKeepsInv ==
    ASSUME Inv, NEW s \in SessionIds, NEW g \in Nat,
           sessionPhase[s] = "Open",
           generation' = [generation EXCEPT ![s] = g],
           normal' = Without(normal, s), queued' = [queued EXCEPT ![s] = 0],
           UNCHANGED <<phase, critical, inFlight, sessionPhase, seenWorkIds,
                       nextEnqueueOrder, published>>
    PROVE  CountsOK' /\ BoundsOK' /\ QueueIsCurrent' /\ WorkIdsAreUnique'
<1>1. s \in Open /\ Open' = Open
  BY DEF Open
<1>2. CountsOK'
  BY <1>1, ClearKeepsInv, ZenonT(60)
<1>3. BoundsOK'
  BY InvSplit DEF BoundsOK
<1>4. normal' \subseteq normal /\ \A e \in normal' : e.request.session # s
  BY DEF Without
<1>5. QueueIsCurrent'
  <2>1. \A e \in normal : e.request.session \in SessionIds
    BY EntryType DEF Inv, TypeOK
  <2>2. \A t \in SessionIds : t # s => generation'[t] = generation[t]
    BY DEF Inv, TypeOK
  <2>3. QED
    BY <1>4, <2>1, <2>2 DEF Inv, QueueIsCurrent
<1>6. WorkIdsAreUnique'
  BY <1>4 DEF Inv, WorkIdsAreUnique
<1>7. QED
  BY <1>2, <1>3, <1>5, <1>6

\* close_session keeps the invariant: the session's work and its reservation go
\* together.
LEMMA CloseKeepsInv ==
    ASSUME Inv, NEW s \in SessionIds, CloseSession(s)
    PROVE  CountsOK' /\ BoundsOK' /\ QueueIsCurrent' /\ WorkIdsAreUnique'
<1> USE DEF CloseSession
<1>1. s \in Open /\ Open' = Open \ {s}
  BY DEF Inv, TypeOK, Open
<1>2. CountsOK'
  BY <1>1, ClearKeepsInv, ZenonT(60)
<1>3. Len(critical') <= CriticalCapacity
  BY LimitsType DEF Inv, TypeOK, EnqueueCritical
<1>4. BoundsOK'
  BY <1>3, InvSplit DEF BoundsOK
<1>5. normal' \subseteq normal /\ \A e \in normal' : e.request.session # s
  BY DEF Without
<1>6. QueueIsCurrent'
  <2>1. \A e \in normal : e.request.session \in SessionIds
    BY EntryType DEF Inv, TypeOK
  <2>2. \A t \in SessionIds : t # s => sessionPhase'[t] = sessionPhase[t]
    BY DEF Inv, TypeOK
  <2>3. QED
    BY <1>5, <2>1, <2>2 DEF Inv, QueueIsCurrent
<1>7. WorkIdsAreUnique'
  BY <1>5 DEF Inv, WorkIdsAreUnique, resourceVars
<1>8. QED
  BY <1>2, <1>4, <1>6, <1>7

\* begin_shutdown keeps the invariant: nothing is queued and nothing open afterwards.
LEMMA ShutdownKeepsInv ==
    ASSUME Inv, BeginShutdown
    PROVE  CountsOK' /\ BoundsOK' /\ QueueIsCurrent' /\ WorkIdsAreUnique'
<1> USE DEF BeginShutdown
<1>1. CountsOK'
  <2>1. Open' = {}
    BY DEF Open
  <2>2. SlotSet(Open', queued', {}) = {}
    BY <2>1 DEF SlotSet
  <2>3. \A s \in SessionIds : OfSession(normal', s) = {}
    BY DEF OfSession
  <2>4. QED
    BY <2>2, <2>3, FS_EmptySet, LimitsType DEF CountsOK, Accounted, Fits
<1>2. Len(critical') <= CriticalCapacity
  BY LimitsType DEF Inv, TypeOK, EnqueueCritical
<1>3. BoundsOK'
  BY <1>2, InvSplit DEF BoundsOK
<1>4. QueueIsCurrent' /\ WorkIdsAreUnique'
  BY DEF Inv, QueueIsCurrent, WorkIdsAreUnique, resourceVars
<1>5. QED
  BY <1>1, <1>3, <1>4

\* One more element fits where there is room.
LEMMA AddWithin ==
    ASSUME NEW S, IsFiniteSet(S), NEW x, x \notin S, NEW n \in Nat, Cardinality(S) < n
    PROVE  IsFiniteSet(S \cup {x}) /\ Cardinality(S \cup {x}) <= n
<1>1. IsFiniteSet(S \cup {x}) /\ Cardinality(S \cup {x}) = Cardinality(S) + 1
  BY FS_AddElement
<1>2. Cardinality(S) \in Nat
  BY FS_CardinalityType
<1>3. QED
  BY <1>1, <1>2

\* submit replaces queued work of the same key.
LEMMA CoalesceKeepsInv ==
    ASSUME Inv, NEW r \in Requests, SubmitCoalesced(r)
    PROVE  CountsOK' /\ BoundsOK' /\ QueueIsCurrent' /\ WorkIdsAreUnique'
<1>1. PICK e \in Replaceable(r) :
         /\ CanCoalesce(r, e)
         /\ normal' = (normal \ {e}) \cup
               {[request |-> r, order |-> e.order, tick |-> e.tick]}
  BY DEF SubmitCoalesced
<1> DEFINE f == [request |-> r, order |-> e.order, tick |-> e.tick]
<1>2. /\ seenWorkIds' = seenWorkIds \cup {r.work}
      /\ UNCHANGED <<phase, critical, inFlight, sessionPhase, generation, queued,
                     nextEnqueueOrder, published>>
  BY DEF SubmitCoalesced, resourceVars
<1>3. /\ e \in normal
      /\ e.request.session = r.session
      /\ e.request.gen = r.gen
  BY DEF Replaceable, Kept, Without
<1>4. f.request = r /\ f.order = e.order
  OBVIOUS
<1>5. f \notin normal \ {e}
  BY <1>3, <1>4 DEF Inv, QueueIsCurrent
<1> HIDE DEF f
<1>6. normal' = (normal \ {e}) \cup {f}
  BY <1>1 DEF f
<1>7. CountsOK'
  <2>1. /\ IsFiniteSet(normal)
        /\ Accounted(normal, queued)
        /\ Fits(normal, Open, queued)
    BY InvSplit DEF CountsOK
  <2>2. /\ IsFiniteSet((normal \ {e}) \cup {f})
        /\ Accounted((normal \ {e}) \cup {f}, queued)
        /\ Fits((normal \ {e}) \cup {f}, Open, queued)
    BY <1>3, <1>4, <1>5, <2>1, ReplaceKeeps, ZenonT(60)
  <2>3. Open' = Open
    BY <1>2 DEF Open
  <2>4. QED
    BY <1>2, <1>6, <2>2, <2>3, InvSplit DEF CountsOK
<1>8. r.work = e.request.work \/ (r.work \notin seenWorkIds
                                 /\ Cardinality(seenWorkIds) < MaxWorkIds)
  BY <1>1 DEF CanCoalesce, CanReserve
<1>9. e.request.work \in seenWorkIds
  BY <1>3 DEF Inv, WorkIdsAreUnique
<1>10. IsFiniteSet(seenWorkIds') /\ Cardinality(seenWorkIds') <= MaxWorkIds
  <2>1. IsFiniteSet(seenWorkIds) /\ Cardinality(seenWorkIds) <= MaxWorkIds
    BY DEF Inv, Finite, WithinCapacity
  <2>2. CASE r.work \in seenWorkIds
    <3>1. seenWorkIds' = seenWorkIds
      BY <1>2, <2>2
    <3>2. QED
      BY <2>1, <3>1
  <2>3. CASE r.work \notin seenWorkIds
    BY <1>2, <1>8, <1>9, <2>1, <2>3, AddWithin, LimitsType, ZenonT(60)
  <2>4. QED
    BY <2>2, <2>3
<1>11. BoundsOK'
  BY <1>2, <1>10, InvSplit DEF BoundsOK
<1>12. QueueIsCurrent'
  BY <1>2, <1>3, <1>4, <1>6 DEF Inv, QueueIsCurrent
<1>13. WorkIdsAreUnique'
  <2>1. WorkIdsAreUnique
    BY DEF Inv
  <2>2. /\ \A g \in normal \ {e} : g.request.work # r.work
        /\ \A a \in inFlight : a.work # r.work
        /\ \A p \in published : p.signal.work # r.work
    BY <1>3, <1>8, <2>1 DEF WorkIdsAreUnique
  <2>3. \A g \in normal' : g \in normal \ {e} \/ g = f
    BY <1>6
  <2>4. \A g, h \in normal' : g.request.work = h.request.work => g = h
    BY <1>4, <2>1, <2>2, <2>3 DEF WorkIdsAreUnique
  <2>5. \A g \in normal' : g.request.work \in seenWorkIds'
    BY <1>2, <1>4, <2>1, <2>3 DEF WorkIdsAreUnique
  <2>6. /\ \A g \in normal', a \in inFlight : g.request.work # a.work
        /\ \A g \in normal', p \in published : g.request.work # p.signal.work
    BY <1>4, <2>1, <2>2, <2>3 DEF WorkIdsAreUnique
  <2>7. QED
    BY <1>2, <2>1, <2>4, <2>5, <2>6 DEF WorkIdsAreUnique
<1>14. QED
  BY <1>7, <1>11, <1>12, <1>13

\* submit enqueues fresh work, possibly after advancing the generation.
LEMMA EnqueueKeepsInv ==
    ASSUME Inv, NEW r \in Requests, SubmitEnqueued(r)
    PROVE  CountsOK' /\ BoundsOK' /\ QueueIsCurrent' /\ WorkIdsAreUnique'
<1> DEFINE f == [request |-> r, order |-> nextEnqueueOrder, tick |-> tick]
           s == r.session
           held == [queued EXCEPT ![s] = Held(r)]
<1>1. /\ f.request = r
      /\ f.order = nextEnqueueOrder
      /\ s \in SessionIds
      /\ r.gen \in Nat
  BY RequestType
<1>2. normal' = Kept(r) \cup {f}
  BY DEF SubmitEnqueued
<1> HIDE DEF f
<1>3. /\ sessionPhase[s] = "Open" /\ s \in Open /\ Open' = Open
      /\ phase = "Running"
      /\ r.gen >= generation[s]
      /\ generation' = [generation EXCEPT ![s] = r.gen]
      /\ queued' = [queued EXCEPT ![s] = Held(r) + 1]
      /\ seenWorkIds' = seenWorkIds \cup {r.work}
      /\ nextEnqueueOrder' = nextEnqueueOrder + 1
      /\ UNCHANGED <<phase, critical, inFlight, sessionPhase, published>>
  BY <1>1 DEF SubmitEnqueued, Submittable, Open, resourceVars
<1>4. /\ Held(r) < PerSessionCapacity
      /\ Cardinality(Kept(r)) + 1 + Cardinality(SlotSet(Open, queued, {s}))
            <= NormalCapacity
      /\ r.work \notin seenWorkIds
      /\ Cardinality(seenWorkIds) < MaxWorkIds
  BY DEF SubmitEnqueued, CanEnqueue, CanReserve, UnusedOpenReservations,
         UnusedSlots, SlotSet
<1>5. /\ Open \in SUBSET SessionIds
      /\ queued \in [SessionIds -> Nat]
      /\ nextEnqueueOrder \in Nat
      /\ generation \in [SessionIds -> Nat]
  BY DEF Inv, TypeOK, Open
<1>6. \A e \in normal : e.request.session \in SessionIds
  BY EntryType DEF Inv, TypeOK
<1>7. /\ Kept(r) \subseteq normal
      /\ \A e \in Kept(r) : e.request.gen = generation'[e.request.session]
  <2>1. CASE Advances(r)
    BY <1>1, <1>3, <1>5, <1>6, <2>1 DEF Kept, Without, Inv, QueueIsCurrent
  <2>2. CASE ~ Advances(r)
    <3>1. generation[s] = r.gen
      BY <1>1, <1>3, <1>5, <2>2 DEF Advances
    <3>2. generation' = generation
      BY <1>3, <1>5, <3>1
    <3>3. QED
      BY <2>2, <3>2 DEF Kept, Inv, QueueIsCurrent
  <2>3. QED
    BY <2>1, <2>2
<1>8. f \notin normal
  BY <1>1, <1>5 DEF Inv, QueueIsCurrent
<1>9. CountsOK'
  <2>1. /\ IsFiniteSet(normal)
        /\ Accounted(normal, queued)
        /\ Fits(normal, Open, queued)
    BY InvSplit DEF CountsOK
  <2>2. Held(r) \in Nat /\ held \in [SessionIds -> Nat] /\ held[s] = Held(r)
    BY <1>1, <1>5 DEF Held
  <2>3. /\ IsFiniteSet(Kept(r))
        /\ Accounted(Kept(r), held)
        /\ Fits(Kept(r), Open, held)
    <3>1. CASE Advances(r)
      <4>1. held = [queued EXCEPT ![s] = 0] /\ Kept(r) = Without(normal, s)
        BY <3>1 DEF Held, Kept
      <4>2. s \in SessionIds /\ s \in Open /\ Open \in {Open, Open \ {s}}
        BY <1>1, <1>3
      <4> HIDE DEF held, s
      <4>3. /\ IsFiniteSet(Without(normal, s))
            /\ Accounted(Without(normal, s), held)
            /\ Fits(Without(normal, s), Open, held)
        BY <1>5, <2>1, <4>1, <4>2, ClearKeeps, ZenonT(60)
      <4>4. QED
        BY <4>1, <4>3
    <3>2. CASE ~ Advances(r)
      <4>1. held = queued /\ Kept(r) = normal
        BY <1>5, <3>2 DEF Held, Kept
      <4>2. QED
        BY <2>1, <4>1
    <3>3. QED
      BY <3>1, <3>2
  <2>4. SlotSet(Open, held, {s}) = SlotSet(Open, queued, {s})
    BY <1>5 DEF SlotSet
  <2>5. queued' = [held EXCEPT ![s] = held[s] + 1]
    BY <1>3, <1>5, <2>2
  <2> HIDE DEF held
  <2>6. f \notin Kept(r) /\ f.request.session = s
    BY <1>1, <1>7, <1>8
  <2>7. /\ IsFiniteSet(Kept(r) \cup {f})
        /\ Accounted(Kept(r) \cup {f}, queued')
        /\ Fits(Kept(r) \cup {f}, Open, queued')
    BY <1>1, <1>3, <1>4, <1>5, <2>2, <2>3, <2>4, <2>5, <2>6, AddKeeps
  <2>8. \A t \in SessionIds : queued'[t] <= PerSessionCapacity
    <3>1. \A t \in SessionIds : queued[t] <= PerSessionCapacity
      BY DEF Inv, WithinCapacity
    <3>2. Held(r) + 1 <= PerSessionCapacity
      BY <1>4, <2>2, LimitsType
    <3>3. QED
      BY <1>3, <1>5, <2>2, <3>1, <3>2
  <2>9. QED
    BY <1>2, <1>3, <2>7, <2>8 DEF CountsOK
<1>10. BoundsOK'
  <2>1. IsFiniteSet(seenWorkIds') /\ Cardinality(seenWorkIds') <= MaxWorkIds
    BY <1>3, <1>4, AddWithin, LimitsType, ZenonT(60) DEF Inv, Finite
  <2>2. QED
    BY <1>3, <2>1, InvSplit DEF BoundsOK
<1>11. QueueIsCurrent'
  <2>1. generation'[s] = r.gen
    BY <1>1, <1>3, <1>5
  <2>2. \A e \in normal' : /\ sessionPhase'[e.request.session] = "Open"
                           /\ e.request.gen = generation'[e.request.session]
    <3>1. \A g \in normal : sessionPhase[g.request.session] = "Open"
      BY DEF Inv, QueueIsCurrent
    <3>2. f.request.session = s /\ f.request.gen = r.gen
      BY <1>1
    <3>3. QED
      BY <1>2, <1>3, <1>7, <2>1, <3>1, <3>2
  <2>3. \A e \in normal' : e.order < nextEnqueueOrder'
    <3>1. \A e \in normal : e.order \in Nat /\ e.order < nextEnqueueOrder
      BY EntryType DEF Inv, TypeOK, QueueIsCurrent
    <3>2. QED
      BY <1>1, <1>2, <1>3, <1>5, <1>7, <3>1
  <2>4. \A e, g \in normal' : e.order = g.order => e = g
    <3>1. \A e \in normal : e.order # nextEnqueueOrder
      <4>1. \A e \in normal : e.order \in Nat /\ e.order < nextEnqueueOrder
        BY EntryType DEF Inv, TypeOK, QueueIsCurrent
      <4>2. QED
        BY <1>5, <4>1
    <3>2. \A g \in normal' : g \in normal \/ g = f
      BY <1>2, <1>7
    <3>3. \A e, g \in normal : e.order = g.order => e = g
      BY DEF Inv, QueueIsCurrent
    <3>4. f.order = nextEnqueueOrder
      BY <1>1
    <3>5. QED
      BY <3>1, <3>2, <3>3, <3>4
  <2>5. QED
    BY <1>3, <2>2, <2>3, <2>4 DEF QueueIsCurrent
<1>12. WorkIdsAreUnique'
  <2>1. WorkIdsAreUnique
    BY DEF Inv
  <2>2. /\ \A g \in normal : g.request.work # r.work
        /\ \A a \in inFlight : a.work # r.work
        /\ \A p \in published : p.signal.work # r.work
    BY <1>4, <2>1 DEF WorkIdsAreUnique
  <2>3. \A g \in normal' : g \in normal \/ g = f
    BY <1>2, <1>7
  <2>4. \A g, h \in normal' : g.request.work = h.request.work => g = h
    BY <1>1, <2>1, <2>2, <2>3 DEF WorkIdsAreUnique
  <2>5. \A g \in normal' : g.request.work \in seenWorkIds'
    BY <1>1, <1>3, <2>1, <2>3 DEF WorkIdsAreUnique
  <2>6. /\ \A g \in normal', a \in inFlight : g.request.work # a.work
        /\ \A g \in normal', p \in published : g.request.work # p.signal.work
    BY <1>1, <2>1, <2>2, <2>3 DEF WorkIdsAreUnique
  <2>7. QED
    BY <1>3, <2>1, <2>4, <2>5, <2>6 DEF WorkIdsAreUnique
<1>13. QED
  BY <1>9, <1>10, <1>11, <1>12

\* dispatch_next takes one critical event.
LEMMA CriticalDispatchKeepsInv ==
    ASSUME Inv, DispatchCritical
    PROVE  CountsOK' /\ BoundsOK' /\ QueueIsCurrent' /\ WorkIdsAreUnique'
<1>1. UNCHANGED <<phase, sessionPhase, generation, queued, normal, seenWorkIds,
                  nextEnqueueOrder>>
  BY DEF DispatchCritical, queueVars
<1>2. CountsOK'
  BY <1>1, InvSplit DEF CountsOK, Accounted, Fits, SlotSet, Open, OfSession
<1>3. Len(critical') <= CriticalCapacity
  <2>1. critical # <<>> /\ critical \in Seq(Events) /\ Len(critical) <= CriticalCapacity
    BY DEF DispatchCritical, Inv, TypeOK, WithinCapacity
  <2>2. Len(Tail(critical)) = Len(critical) - 1
    BY <2>1
  <2>3. Len(critical) \in Nat
    BY <2>1
  <2>4. QED
    BY <2>1, <2>2, <2>3, LimitsType DEF DispatchCritical
<1> DEFINE h == Head(critical)
<1>4. inFlight' \subseteq inFlight
  BY DEF DispatchCritical, DispatchCompletion, DispatchTerminal, DispatchRelease,
         DispatchMarker
<1>5. BoundsOK'
  <2>1. /\ IsFiniteSet(inFlight')
        /\ Cardinality(inFlight') <= Cardinality(inFlight)
        /\ Cardinality(inFlight') \in Nat /\ Cardinality(inFlight) \in Nat
    BY <1>4, FS_Subset, FS_CardinalityType DEF Inv, Finite
  <2>2. QED
    BY <1>1, <1>3, <2>1, InvSplit, LimitsType DEF BoundsOK
<1>6. QueueIsCurrent'
  BY <1>1 DEF Inv, QueueIsCurrent
<1>7. \/ published' = published
      \/ /\ h.signal \in inFlight
         /\ inFlight' = inFlight \ {h.signal}
         /\ \E d : published' = published \cup {[signal |-> h.signal, resource |-> d]}
  BY DEF DispatchCritical, DispatchCompletion, DispatchTerminal, DispatchRelease,
         DispatchMarker, Publishes, resourceVars
<1>8. WorkIdsAreUnique'
  <2>1. CASE published' = published
    BY <1>1, <1>4, <2>1 DEF Inv, WorkIdsAreUnique
  <2>2. CASE /\ h.signal \in inFlight
             /\ inFlight' = inFlight \ {h.signal}
             /\ \E d : published' = published \cup {[signal |-> h.signal, resource |-> d]}
    <3>1. PICK d : published' = published \cup {[signal |-> h.signal, resource |-> d]}
      BY <2>2, ZenonT(60)
    <3> DEFINE p == [signal |-> h.signal, resource |-> d]
    <3>2. p.signal = h.signal
      OBVIOUS
    <3>3. published' = published \cup {p} /\ h.signal \in inFlight
          /\ inFlight' = inFlight \ {h.signal}
      BY <2>2, <3>1
    <3> HIDE DEF p, h
    <3>4. QED
      BY <1>1, <3>2, <3>3 DEF Inv, WorkIdsAreUnique
  <2>3. QED
    BY <1>7, <2>1, <2>2, ZenonT(60)
<1>9. QED
  BY <1>2, <1>5, <1>6, <1>8

\* dispatch_next starts the selected entry.
LEMMA NormalDispatchKeepsInv ==
    ASSUME Inv, DispatchNormal
    PROVE  CountsOK' /\ BoundsOK' /\ QueueIsCurrent' /\ WorkIdsAreUnique'
<1>1. PICK e \in normal :
         /\ CanStart(e)
         /\ inFlight' = inFlight \cup {SignalOf(e.request)}
         /\ normal' = normal \ {e}
         /\ queued' = [queued EXCEPT ![e.request.session] = @ - 1]
  BY ZenonT(60) DEF DispatchNormal
<1> DEFINE s == e.request.session
           a == SignalOf(e.request)
<1>2. UNCHANGED <<phase, critical, sessionPhase, generation, seenWorkIds,
                  nextEnqueueOrder, published>>
  BY DEF DispatchNormal, resourceVars
<1>3. s \in SessionIds /\ e.request \in Requests
  BY EntryType DEF Inv, TypeOK
<1>4. a.work = e.request.work
  BY <1>3, RequestType
<1>5. s \in Open /\ queued[s] > 0 /\ \A b \in inFlight : b.work # e.request.work
  BY <1>1, <1>3 DEF CanStart, Open
<1> HIDE DEF a
<1>6. CountsOK'
  <2>1. /\ IsFiniteSet(normal)
        /\ Accounted(normal, queued)
        /\ Fits(normal, Open, queued)
        /\ queued \in [SessionIds -> Nat]
        /\ Open \in SUBSET SessionIds
    BY InvSplit DEF CountsOK, TypeOK, Open
  <2>2. queued' = [queued EXCEPT ![s] = queued[s] - 1]
    BY <1>1
  <2>3. /\ IsFiniteSet(normal \ {e})
        /\ Accounted(normal \ {e}, queued')
        /\ Fits(normal \ {e}, Open, queued')
    BY <1>3, <1>5, <2>1, <2>2, RemoveKeeps
  <2>4. Open' = Open
    BY <1>2 DEF Open
  <2>5. \A t \in SessionIds : queued'[t] <= PerSessionCapacity
    BY <1>3, <1>5, <2>1, <2>2, InvSplit, LimitsType DEF CountsOK
  <2>6. QED
    BY <1>1, <2>3, <2>4, <2>5 DEF CountsOK
<1>7. BoundsOK'
  <2>1. a \notin inFlight
    BY <1>4, <1>5
  <2>2. Cardinality(inFlight) < InFlightCapacity /\ IsFiniteSet(inFlight)
    BY DEF DispatchNormal, NormalReady, Inv, Finite
  <2>3. inFlight' = inFlight \cup {a}
    BY <1>1 DEF a
  <2>4. IsFiniteSet(inFlight') /\ Cardinality(inFlight') <= InFlightCapacity
    BY <2>1, <2>2, <2>3, AddWithin, LimitsType
  <2>5. QED
    BY <1>2, <2>4, InvSplit DEF BoundsOK
<1>8. QueueIsCurrent'
  BY <1>1, <1>2 DEF Inv, QueueIsCurrent
<1>9. WorkIdsAreUnique'
  <2>1. inFlight' = inFlight \cup {a}
    BY <1>1 DEF a
  <2>2. QED
    BY <1>1, <1>2, <1>4, <1>5, <2>1 DEF Inv, WorkIdsAreUnique
<1>10. QED
  BY <1>6, <1>7, <1>8, <1>9

-----------------------------------------------------------------------------
(* The invariant holds.                                                    *)

\* Every step preserves the invariant.
LEMMA InvStep == Inv /\ [Next]_vars => Inv'
<1> SUFFICES ASSUME Inv, [Next]_vars PROVE Inv'
  OBVIOUS
<1> DEFINE Rest == CountsOK /\ BoundsOK /\ QueueIsCurrent /\ WorkIdsAreUnique
<1>1. TypeOK'
  BY TypeStep DEF Inv
<1>2. ASSUME NEW s \in SessionIds, NEW g \in Generations, RegisterSession(s, g)
      PROVE  Rest'
  BY <1>2, RegisterKeepsInv
<1>3. ASSUME UNCHANGED <<phase, critical, inFlight, queueVars, published>>
      PROVE  Rest'
  <2>1. CountsOK'
    BY <1>3, InvSplit DEF CountsOK, Accounted, Fits, SlotSet, Open, OfSession, queueVars
  <2>2. BoundsOK'
    BY <1>3, InvSplit DEF BoundsOK, queueVars
  <2>3. QueueIsCurrent' /\ WorkIdsAreUnique'
    BY <1>3 DEF Inv, QueueIsCurrent, WorkIdsAreUnique, queueVars
  <2>4. QED
    BY <2>1, <2>2, <2>3
<1>4. ASSUME NEW delta \in Deltas, AdvanceTick(delta)
      PROVE  Rest'
  BY <1>3, <1>4 DEF AdvanceTick, resourceVars
<1>5. ASSUME NEW s \in SessionIds, NEW g \in Generations, AdvanceGeneration(s, g)
      PROVE  Rest'
  BY <1>5, InputType, AdvanceKeepsInv DEF AdvanceGeneration, resourceVars
<1>6. ASSUME NEW r \in Requests, SubmitCoalesced(r)
      PROVE  Rest'
  BY <1>6, CoalesceKeepsInv
<1>7. ASSUME NEW r \in Requests, SubmitEnqueued(r)
      PROVE  Rest'
  BY <1>7, EnqueueKeepsInv
<1>8. ASSUME NEW r \in Requests, SubmitRejected(r)
      PROVE  Rest'
  <2>1. r.session \in SessionIds /\ r.gen \in Nat
    BY RequestType
  <2>2. /\ sessionPhase[r.session] = "Open"
        /\ generation' = [generation EXCEPT ![r.session] = r.gen]
        /\ normal' = Without(normal, r.session)
        /\ queued' = [queued EXCEPT ![r.session] = 0]
        /\ UNCHANGED <<phase, critical, inFlight, sessionPhase, seenWorkIds,
                       nextEnqueueOrder, published>>
    BY <1>8 DEF SubmitRejected, Submittable, Kept, resourceVars
  <2>3. QED
    BY <2>1, <2>2, AdvanceKeepsInv, ZenonT(60)
<1>9. ASSUME NEW a \in Signals, EnqueueCancel(a) \/ EnqueueFailure(a)
      PROVE  Rest'
  <2>1. /\ [kind |-> "Cancel", signal |-> a] \in Events
        /\ [kind |-> "Failure", signal |-> a] \in Events
    BY DEF Events
  <2>2. QED
    BY <1>9, <2>1, CriticalIngressKeeps
       DEF EnqueueCancel, EnqueueFailure, queueVars, resourceVars
<1>10. ASSUME NEW a \in Signals, NEW d \in Resources, EnqueueCompletion(a, d)
       PROVE  Rest'
  <2>1. [kind |-> "Completion", signal |-> a, resource |-> d] \in Events
    BY DEF Events
  <2>2. QED
    BY <1>10, <2>1, CriticalIngressKeeps DEF EnqueueCompletion, queueVars
<1>11. ASSUME NEW p \in published, EnqueueRelease(p)
       PROVE  Rest'
  <2>1. p.signal \in Signals /\ p.resource \in Resources
    BY DEF Inv, TypeOK
  <2>2. [kind |-> "Release", session |-> p.signal.session, resource |-> p.resource]
          \in Events
    BY <2>1, SignalType DEF Events
  <2>3. QED
    BY <1>11, <2>2, CriticalIngressKeeps DEF EnqueueRelease, queueVars
<1>12. ASSUME NEW s \in SessionIds, CloseSession(s)
       PROVE  Rest'
  BY <1>12, CloseKeepsInv
<1>13. ASSUME BeginShutdown
       PROVE  Rest'
  BY <1>13, ShutdownKeepsInv
<1>14. ASSUME DispatchCritical
       PROVE  Rest'
  BY <1>14, CriticalDispatchKeepsInv
<1>15. ASSUME DispatchNormal
       PROVE  Rest'
  BY <1>15, NormalDispatchKeepsInv
<1>16. ASSUME TryFinishShutdown
       PROVE  Rest'
  <2>1. CountsOK'
    BY <1>16, InvSplit DEF TryFinishShutdown, CountsOK, Accounted, Fits, SlotSet,
                           Open, OfSession, queueVars
  <2>2. BoundsOK'
    BY <1>16, InvSplit DEF TryFinishShutdown, BoundsOK, queueVars
  <2>3. QueueIsCurrent' /\ WorkIdsAreUnique'
    BY <1>16 DEF TryFinishShutdown, Inv, QueueIsCurrent, WorkIdsAreUnique,
                 queueVars, resourceVars
  <2>4. QED
    BY <2>1, <2>2, <2>3
<1>17. ASSUME UNCHANGED vars
       PROVE  Rest'
  BY <1>3, <1>17 DEF vars, resourceVars
<1> HIDE DEF Rest
<1>18. Rest'
  BY <1>2, <1>4, <1>5, <1>6, <1>7, <1>8, <1>9, <1>10, <1>11, <1>12, <1>13,
     <1>14, <1>15, <1>16, <1>17 DEF Next
<1>19. QED
  BY <1>1, <1>18, InvSplit, PTL DEF Rest

\* The scheduler always satisfies its inductive invariant.
THEOREM Invariance == Spec => []Inv
  BY InvInit, InvStep, PTL DEF Spec

\* The per-session counters equal the queue's contents and, with the unused
\* reservations, never exceed the configured capacities; queued work is always
\* current, and a work identity is never in two places.
THEOREM QueueCorrect == Spec => []QueueIsSound
<1>1. Inv => QueueIsSound
  BY DEF Inv, QueueIsSound
<1>2. QED
  BY <1>1, Invariance, PTL

=============================================================================
