-------------------- MODULE SchedulerRefinementProofs ----------------------
(***************************************************************************)
(* The scheduler implements the work lifecycle, for every configuration    *)
(* and every set of requests.  Under the invariant each identity is in one *)
(* place, its place decides its life, and each action is one step of the   *)
(* lifecycle or none.                                                      *)
(***************************************************************************)
EXTENDS SchedulerProofs, SchedulerRefinement

\* Where an identity is decides its life.
PlacesDecide ==
    /\ \A w \in WorkIds : w \notin seenWorkIds => Lives[w] = Life!New
    /\ \A e \in normal :
          Lives[e.request.work] = Life!Waiting(e.request.session, e.request.gen)
    /\ \A a \in inFlight : Lives[a.work] = Life!Running(a.session, a.gen)
    /\ \A p \in published : Lives[p.signal.work] = Life!Published
    /\ \A w \in seenWorkIds :
          \/ \E e \in normal : e.request.work = w
          \/ \E a \in inFlight : a.work = w
          \/ \E p \in published : p.signal.work = w
          \/ Lives[w] = Life!Over

\* The parts of a life, which tell the lives apart.
LEMMA LifeParts ==
    /\ Life!New.state = "New"
    /\ Life!Over.state = "Over"
    /\ Life!Published.state = "Published"
    /\ \A s, g : /\ Life!Waiting(s, g).state = "Waiting"
                 /\ Life!Waiting(s, g).session = s
                 /\ Life!Waiting(s, g).gen = g
    /\ \A s, g : /\ Life!Running(s, g).state = "Running"
                 /\ Life!Running(s, g).session = s
                 /\ Life!Running(s, g).gen = g
  BY DEF Life!New, Life!Over, Life!Published, Life!Waiting, Life!Running

\* The invariant places each identity once, so its life is what its place says.
LEMMA PlacesHere == Inv => PlacesDecide
<1> SUFFICES ASSUME TypeOK, WorkIdsAreUnique PROVE PlacesDecide
  BY DEF Inv
<1>1. ASSUME NEW e \in normal
      PROVE  LifeOf(e.request.work) = Life!Waiting(e.request.session, e.request.gen)
  <2>1. WaitingEntry(e.request.work) = e
    BY DEF WaitingEntry, WorkIdsAreUnique
  <2>2. QED
    BY <2>1 DEF LifeOf, Life!Waiting, WorkIdsAreUnique
<1>2. ASSUME NEW a \in inFlight
      PROVE  LifeOf(a.work) = Life!Running(a.session, a.gen)
  <2>1. RunningSignal(a.work) = a
    BY DEF RunningSignal, WorkIdsAreUnique
  <2>2. a.work \in seenWorkIds /\ ~ \E e \in normal : e.request.work = a.work
    BY DEF WorkIdsAreUnique
  <2>3. QED
    BY <2>1, <2>2 DEF LifeOf, Life!Running
<1>3. ASSUME NEW p \in published
      PROVE  LifeOf(p.signal.work) = Life!Published
  BY DEF LifeOf, Life!Published, WorkIdsAreUnique
<1>4. ASSUME NEW w, w \notin seenWorkIds
      PROVE  LifeOf(w) = Life!New
  BY <1>4 DEF LifeOf, Life!New
<1>5. ASSUME NEW w \in seenWorkIds,
             ~ \E e \in normal : e.request.work = w,
             ~ \E a \in inFlight : a.work = w,
             ~ \E p \in published : p.signal.work = w
      PROVE  LifeOf(w) = Life!Over
  BY <1>5 DEF LifeOf, Life!Over
<1>6. \A w \in WorkIds : Lives[w] = LifeOf(w)
  BY DEF Lives
<1>7. /\ \A e \in normal : e.request.work \in WorkIds
      /\ \A a \in inFlight : a.work \in WorkIds
      /\ \A p \in published : p.signal.work \in WorkIds
      /\ seenWorkIds \subseteq WorkIds
  BY EntryType, SignalType DEF TypeOK
<1>8. QED
  BY <1>1, <1>2, <1>3, <1>4, <1>5, <1>6, <1>7 DEF PlacesDecide

\* The same of the next state.
LEMMA PlacesNext == Inv' => PlacesDecide'
  BY PlacesHere, PTL

\* The generation of an open session is a positive number.
OpenGenerations == \A s \in Open : generation[s] \in Nat \ {0}

\* It is given at registration and only ever raised.
LEMMA GenerationStep == TypeOK /\ OpenGenerations /\ [Next]_vars => OpenGenerations'
<1> SUFFICES ASSUME TypeOK, OpenGenerations, [Next]_vars PROVE OpenGenerations'
  OBVIOUS
<1>1. ASSUME UNCHANGED generation, Open' \subseteq Open PROVE OpenGenerations'
  BY <1>1 DEF OpenGenerations
<1>2. ASSUME UNCHANGED <<sessionPhase, generation>> PROVE OpenGenerations'
  BY <1>1, <1>2 DEF Open
<1>3. ASSUME NEW s \in SessionIds, NEW g \in Nat \ {0}, Open' \subseteq Open \cup {s},
             generation' = [generation EXCEPT ![s] = g]
      PROVE  OpenGenerations'
  BY <1>3 DEF OpenGenerations, TypeOK, Open
<1>4. ASSUME NEW s \in SessionIds, NEW g \in Generations,
             RegisterSession(s, g) \/ AdvanceGeneration(s, g)
      PROVE  OpenGenerations'
  <2>1. g \in Nat \ {0} /\ Open' \subseteq Open \cup {s}
    BY <1>4, InputType DEF RegisterSession, AdvanceGeneration, Open, TypeOK
  <2>2. QED
    BY <1>3, <1>4, <2>1 DEF RegisterSession, AdvanceGeneration
<1>5. ASSUME NEW r \in Requests, SubmitEnqueued(r) \/ SubmitRejected(r)
      PROVE  OpenGenerations'
  <2>1. r.session \in SessionIds /\ r.gen \in Nat \ {0}
    BY RequestType
  <2>2. Open' = Open /\ generation' = [generation EXCEPT ![r.session] = r.gen]
    BY <1>5 DEF SubmitEnqueued, SubmitRejected, Open
  <2>3. QED
    BY <1>3, <2>1, <2>2
<1>6. ASSUME NEW s \in SessionIds, CloseSession(s)
      PROVE  OpenGenerations'
  <2>1. UNCHANGED generation /\ Open' \subseteq Open
    BY <1>6 DEF CloseSession, Open, TypeOK
  <2>2. QED
    BY <1>1, <2>1
<1>7. CASE BeginShutdown
  <2>1. UNCHANGED generation /\ Open' \subseteq Open
    BY <1>7 DEF BeginShutdown, Open
  <2>2. QED
    BY <1>1, <2>1
<1>8. \/ UNCHANGED <<sessionPhase, generation>>
      \/ \E s \in SessionIds, g \in Generations :
            RegisterSession(s, g) \/ AdvanceGeneration(s, g)
      \/ \E r \in Requests : SubmitEnqueued(r) \/ SubmitRejected(r)
      \/ \E s \in SessionIds : CloseSession(s)
      \/ BeginShutdown
  BY DEF Next, vars, AdvanceTick, SubmitCoalesced, EnqueueCancel, EnqueueFailure,
         EnqueueCompletion, EnqueueRelease, DispatchCritical, DispatchNormal,
         TryFinishShutdown, queueVars
<1>9. QED
  BY <1>2, <1>4, <1>5, <1>6, <1>7, <1>8

-----------------------------------------------------------------------------
\* The waiting work of a session is what the queue holds of it.
LEMMA WaitingIsQueued ==
    ASSUME Inv, NEW s, NEW w
    PROVE  w \in Life!WaitingFor(s) <=>
             \E e \in normal : e.request.work = w /\ e.request.session = s
<1>1. PlacesDecide /\ TypeOK
  BY PlacesHere DEF Inv
<1>2. ASSUME NEW e \in normal, e.request.work = w, e.request.session = s
      PROVE  w \in Life!WaitingFor(s)
  <2>1. w \in WorkIds
    BY <1>1, <1>2, EntryType DEF TypeOK
  <2>2. Lives[w] = Life!Waiting(s, e.request.gen)
    BY <1>1, <1>2 DEF PlacesDecide
  <2>3. QED
    BY <2>1, <2>2, LifeParts DEF Life!WaitingFor
<1>3. ASSUME w \in Life!WaitingFor(s)
      PROVE  \E e \in normal : e.request.work = w /\ e.request.session = s
  <2>1. w \in WorkIds /\ Lives[w].state = "Waiting" /\ Lives[w].session = s
    BY <1>3 DEF Life!WaitingFor
  <2>2. w \in seenWorkIds
    BY <1>1, <2>1, LifeParts DEF PlacesDecide
  <2>3. ~ (\E a \in inFlight : a.work = w) /\ ~ (\E p \in published : p.signal.work = w)
    BY <1>1, <2>1, LifeParts DEF PlacesDecide
  <2>4. PICK e \in normal : e.request.work = w
    BY <1>1, <2>1, <2>2, <2>3, LifeParts DEF PlacesDecide
  <2>5. QED
    BY <1>1, <2>1, <2>4, LifeParts DEF PlacesDecide
<1>4. QED
  BY <1>2, <1>3

\* A step keeps an identity in its place, except that it may take the queued work
\* of the sessions in S away.
KeepsPlace(v, S) ==
    /\ v \in seenWorkIds' <=> v \in seenWorkIds
    /\ \A e \in normal' : e.request.work = v =>
          \E f \in normal : /\ f.request.work = v
                            /\ f.request.session = e.request.session
                            /\ f.request.gen = e.request.gen
                            /\ f.request.session \notin S
    /\ \A f \in normal : f.request.work = v /\ f.request.session \notin S =>
          \E e \in normal' : /\ e.request.work = v
                             /\ f.request.session = e.request.session
                             /\ f.request.gen = e.request.gen
    /\ \A a \in inFlight : a.work = v => a \in inFlight'
    /\ \A a \in inFlight' : a.work = v => a \in inFlight
    /\ (\E p \in published' : p.signal.work = v) <=> (\E p \in published : p.signal.work = v)

\* An identity that keeps its place keeps its life, unless its session lost its queue.
LEMMA KeptLife ==
    ASSUME Inv, Inv', NEW S, NEW v \in WorkIds, KeepsPlace(v, S)
    PROVE  Lives'[v] = IF \E s \in S : v \in Life!WaitingFor(s)
                       THEN Life!Over ELSE Lives[v]
<1> USE DEF KeepsPlace
<1>1. PlacesDecide /\ PlacesDecide'
  BY PlacesHere, PlacesNext
<1>2. \A s : v \in Life!WaitingFor(s) <=>
             \E e \in normal : e.request.work = v /\ e.request.session = s
  BY WaitingIsQueued
<1>3. WorkIdsAreUnique
  BY DEF Inv
<1>4. CASE \E s \in S : v \in Life!WaitingFor(s)
  <2>1. PICK e \in normal : e.request.work = v /\ e.request.session \in S
    BY <1>2, <1>4
  <2>2. /\ v \in seenWorkIds'
        /\ \A f \in normal' : f.request.work # v
        /\ \A a \in inFlight' : a.work # v
        /\ \A p \in published' : p.signal.work # v
    BY <1>3, <2>1 DEF WorkIdsAreUnique
  <2>3. Lives'[v] = Life!Over
    BY <1>1, <2>2 DEF PlacesDecide
  <2>4. QED
    BY <1>4, <2>3
<1>5. CASE ~ \E s \in S : v \in Life!WaitingFor(s)
  <2>1. CASE v \notin seenWorkIds
    BY <1>1, <1>5, <2>1 DEF PlacesDecide
  <2>2. ASSUME NEW f \in normal, f.request.work = v
        PROVE  Lives'[v] = Lives[v]
    <3>1. PICK e \in normal' : /\ e.request.work = v
                               /\ f.request.session = e.request.session
                               /\ f.request.gen = e.request.gen
      BY <1>2, <1>5, <2>2
    <3>2. QED
      BY <1>1, <2>2, <3>1 DEF PlacesDecide
  <2>3. ASSUME NEW a \in inFlight, a.work = v
        PROVE  Lives'[v] = Lives[v]
    BY <1>1, <2>3 DEF PlacesDecide
  <2>4. ASSUME NEW p \in published, p.signal.work = v
        PROVE  Lives'[v] = Lives[v]
    BY <1>1, <2>4 DEF PlacesDecide
  <2>5. CASE /\ v \in seenWorkIds
             /\ ~ \E e \in normal : e.request.work = v
             /\ ~ \E a \in inFlight : a.work = v
             /\ ~ \E p \in published : p.signal.work = v
    <3>1. /\ v \in seenWorkIds'
          /\ ~ \E e \in normal' : e.request.work = v
          /\ ~ \E a \in inFlight' : a.work = v
          /\ ~ \E p \in published' : p.signal.work = v
      BY <2>5
    <3>2. Lives[v] = Life!Over /\ Lives'[v] = Life!Over
      BY <1>1, <2>5, <3>1 DEF PlacesDecide
    <3>3. QED
      BY <1>5, <3>2
  <2>6. QED
    BY <1>5, <2>1, <2>2, <2>3, <2>4, <2>5
<1>6. QED
  BY <1>4, <1>5

\* Lives are functions on the identities.
LEMMA LivesDomain ==
    /\ Lives = [w \in WorkIds |-> Lives[w]]
    /\ Lives' = [w \in WorkIds |-> Lives'[w]]
  BY DEF Lives

\* Removing the queued work of some sessions supersedes it.
LEMMA ClearedLives ==
    ASSUME Inv, Inv', NEW S, normal' = {e \in normal : e.request.session \notin S},
           UNCHANGED <<seenWorkIds, inFlight, published>>
    PROVE  Lives' = Life!Superseded(S)
<1>1. ASSUME NEW w \in WorkIds
      PROVE  Lives'[w] = IF \E s \in S : w \in Life!WaitingFor(s)
                         THEN Life!Over ELSE Lives[w]
  <2>1. KeepsPlace(w, S)
    BY DEF KeepsPlace
  <2>2. QED
    BY <2>1, KeptLife
<1>2. QED
  BY <1>1, LivesDomain DEF Life!Superseded

-----------------------------------------------------------------------------
(* One step of the lifecycle for each action.                              *)

\* A step that leaves queue, arbiter and sessions alone leaves every life alone.
LEMMA LifeStutters ==
    ASSUME UNCHANGED <<normal, inFlight, seenWorkIds, published, sessionPhase, generation>>
    PROVE  UNCHANGED Life!lifeVars
<1>1. Lives' = Lives
  BY DEF Lives, LifeOf, WaitingEntry, RunningSignal
<1>2. Current' = Current /\ Closed' = Closed
  BY DEF Current, Closed, Open
<1>3. QED
  BY <1>1, <1>2 DEF Life!lifeVars

\* Without changes of the sessions, only lives change.
LEMMA SessionsStutter ==
    ASSUME UNCHANGED <<sessionPhase, generation>>
    PROVE  UNCHANGED <<Current, Closed>>
  BY DEF Current, Closed, Open

\* register_session opens a session.
LEMMA RegisterOpens ==
    ASSUME TypeOK, NEW s \in SessionIds, NEW g \in Generations, RegisterSession(s, g)
    PROVE  Life!LifeNext
<1>1. Lives' = Lives
  BY DEF RegisterSession, resourceVars, Lives, LifeOf, WaitingEntry, RunningSignal
<1>2. Current[s] = 0 /\ s \notin Closed
  BY DEF RegisterSession, Current, Closed, Open
<1>3. Current' = [Current EXCEPT ![s] = g]
  BY DEF RegisterSession, Current, Open, TypeOK
<1>4. Closed' = Closed
  BY DEF RegisterSession, Closed, TypeOK
<1>5. Life!OpenSession(s, g)
  BY <1>1, <1>2, <1>3, <1>4 DEF Life!OpenSession
<1>6. QED
  BY <1>5 DEF Life!LifeNext

\* What a generation advance of an open session does to the lifecycle's sessions.
LEMMA AdvancedCurrent ==
    ASSUME TypeOK, OpenGenerations, NEW s \in SessionIds, NEW g \in Nat,
           sessionPhase[s] = "Open", g > generation[s],
           UNCHANGED sessionPhase, generation' = [generation EXCEPT ![s] = g]
    PROVE  /\ Current[s] # 0 /\ g > Current[s]
           /\ Current' = [Current EXCEPT ![s] = g]
           /\ Closed' = Closed
<1>1. s \in Open /\ Open' = Open /\ Closed' = Closed
  BY DEF Open, Closed
<1>2. Current[s] = generation[s]
  BY <1>1 DEF Current
<1>3. Current' = [Current EXCEPT ![s] = g]
  BY <1>1 DEF Current, TypeOK
<1>4. QED
  BY <1>1, <1>2, <1>3 DEF OpenGenerations

\* advance_generation, and a submit that advances and then fails, supersede what waits.
LEMMA AdvanceSupersedes ==
    ASSUME Inv, Inv', OpenGenerations, NEW s \in SessionIds, NEW g \in Generations,
           sessionPhase[s] = "Open", g > generation[s],
           generation' = [generation EXCEPT ![s] = g],
           normal' = Without(normal, s),
           UNCHANGED <<sessionPhase, inFlight, seenWorkIds, published>>
    PROVE  Life!LifeNext
<1>1. Lives' = Life!Superseded({s})
  <2>1. normal' = {e \in normal : e.request.session \notin {s}}
    BY DEF Without
  <2>2. QED
    BY <2>1, ClearedLives
<1>2. /\ Current[s] # 0 /\ g > Current[s]
      /\ Current' = [Current EXCEPT ![s] = g]
      /\ Closed' = Closed
  BY AdvancedCurrent, InputType DEF Inv
<1>3. Life!NewGeneration(s, g)
  BY <1>1, <1>2 DEF Life!NewGeneration
<1>4. QED
  BY <1>3 DEF Life!LifeNext

\* close_session and begin_shutdown close sessions and supersede what waits in them.
LEMMA CloseSupersedes ==
    ASSUME Inv, Inv', NEW S \in SUBSET SessionIds, Open' = Open \ S, S \subseteq Open,
           Closed' = Closed \cup S,
           normal' = {e \in normal : e.request.session \notin S},
           UNCHANGED <<generation, inFlight, seenWorkIds, published>>
    PROVE  Life!LifeNext
<1>1. Lives' = Life!Superseded(S)
  BY ClearedLives
<1>2. Current' = [s \in SessionIds |-> IF s \in S THEN 0 ELSE Current[s]]
  BY DEF Current
<1>3. Life!CloseSessions(S)
  BY <1>1, <1>2 DEF Life!CloseSessions
<1>4. QED
  BY <1>3 DEF Life!LifeNext

\* An identity new to the scheduler that enters the queue waits.
LEMMA AdmittedLife ==
    ASSUME Inv, Inv', NEW f \in normal', f.request.work \notin seenWorkIds
    PROVE  /\ f.request.work \in WorkIds
           /\ Lives[f.request.work] = Life!New
           /\ Lives'[f.request.work] = Life!Waiting(f.request.session, f.request.gen)
<1>1. PlacesDecide /\ PlacesDecide' /\ TypeOK'
  BY PlacesHere, PlacesNext DEF Inv
<1>2. f.request.work \in WorkIds
  BY <1>1, EntryType DEF TypeOK
<1>3. QED
  BY <1>1, <1>2 DEF PlacesDecide

\* Coalescing admits new work in the place of waiting work, or changes no life.
LEMMA CoalesceAdmits ==
    ASSUME Inv, Inv', OpenGenerations, NEW r \in Requests, SubmitCoalesced(r)
    PROVE  Life!LifeNext \/ UNCHANGED Life!lifeVars
<1>1. PICK e \in Replaceable(r) :
         /\ CanCoalesce(r, e)
         /\ normal' = (normal \ {e}) \cup
               {[request |-> r, order |-> e.order, tick |-> e.tick]}
  BY DEF SubmitCoalesced
<1> DEFINE s == r.session
           w == r.work
           v == e.request.work
           f == [request |-> r, order |-> e.order, tick |-> e.tick]
<1>2. /\ e \in normal /\ e.request.session = s /\ e.request.gen = r.gen
      /\ sessionPhase[s] = "Open"
      /\ seenWorkIds' = seenWorkIds \cup {w}
      /\ UNCHANGED <<inFlight, published, sessionPhase, generation>>
  BY DEF SubmitCoalesced, Replaceable, Kept, Without, Submittable, resourceVars
<1>3. /\ s \in SessionIds /\ w \in WorkIds /\ v \in WorkIds /\ v \in seenWorkIds
      /\ f.request = r /\ f \in normal'
      /\ generation[s] = r.gen /\ r.gen # 0
  <2>1. s \in SessionIds /\ w \in WorkIds /\ r.gen # 0
    BY RequestType
  <2>2. v \in WorkIds
    BY <1>2, EntryType DEF Inv, TypeOK
  <2>3. v \in seenWorkIds /\ generation[s] = r.gen
    BY <1>2 DEF Inv, QueueIsCurrent, WorkIdsAreUnique
  <2>4. f.request = r /\ f \in normal'
    BY <1>1
  <2>5. QED
    BY <2>1, <2>2, <2>3, <2>4
<1>4. UNCHANGED <<Current, Closed>>
  BY <1>2, SessionsStutter
<1>5. Current[s] = r.gen
  BY <1>2, <1>3 DEF Current, Open
<1>6. ASSUME NEW u \in WorkIds, u # v, u # w
      PROVE  Lives'[u] = Lives[u]
  <2>1. KeepsPlace(u, {})
    BY <1>1, <1>2, <1>3, <1>6 DEF KeepsPlace
  <2>2. QED
    BY <2>1, KeptLife
<1>7. CASE w = v
  <2>1. KeepsPlace(v, {})
    <3>1. \A g \in normal : g.request.work = v => g = e
      BY <1>2 DEF Inv, WorkIdsAreUnique
    <3>2. \A g \in normal' : g.request.work = v => g = f
      BY <1>1, <3>1
    <3>3. v \in seenWorkIds' <=> v \in seenWorkIds
      BY <1>2, <1>3
    <3>4. f.request.session = e.request.session /\ f.request.gen = e.request.gen
          /\ f.request.work = v
      BY <1>2, <1>3, <1>7
    <3>5. QED
      BY <1>2, <1>3, <3>1, <3>2, <3>3, <3>4 DEF KeepsPlace
  <2>2. Lives'[v] = Lives[v]
    BY <1>3, <2>1, KeptLife
  <2>3. Lives' = Lives
    BY <1>6, <1>7, <2>2, LivesDomain
  <2>4. QED
    BY <1>4, <2>3 DEF Life!lifeVars
<1>8. CASE w # v
  <2>1. w \notin seenWorkIds
    BY <1>1, <1>8 DEF CanCoalesce, CanReserve
  <2>2. Lives[w] = Life!New /\ Lives'[w] = Life!Waiting(s, r.gen)
    BY <1>3, <2>1, AdmittedLife
  <2>3. v \in Life!WaitingFor(s)
    BY <1>2, WaitingIsQueued
  <2>4. Lives'[v] = Life!Over
    <3>1. /\ v \in seenWorkIds'
          /\ \A g \in normal' : g.request.work # v
          /\ \A a \in inFlight' : a.work # v
          /\ \A p \in published' : p.signal.work # v
      BY <1>1, <1>2, <1>3, <1>8 DEF Inv, WorkIdsAreUnique
    <3>2. QED
      BY <3>1, PlacesNext DEF PlacesDecide
  <2>5. Lives' = [Lives EXCEPT ![v] = Life!Over, ![w] = Life!Waiting(s, Current[s])]
    BY <1>3, <1>5, <1>6, <1>8, <2>2, <2>4, LivesDomain
  <2>6. Life!Admit(s, w)
    BY <1>3, <1>4, <1>5, <2>2, <2>3, <2>5 DEF Life!Admit
  <2>7. QED
    BY <1>3, <2>6 DEF Life!LifeNext
<1>9. QED
  BY <1>7, <1>8

\* A fresh submission admits new work, with a new generation when it brings one.
LEMMA EnqueueAdmits ==
    ASSUME Inv, Inv', OpenGenerations, NEW r \in Requests, SubmitEnqueued(r)
    PROVE  Life!LifeNext
<1> DEFINE s == r.session
           w == r.work
           f == [request |-> r, order |-> nextEnqueueOrder, tick |-> tick]
<1>1. /\ sessionPhase[s] = "Open" /\ w \notin seenWorkIds
      /\ normal' = Kept(r) \cup {f} /\ f.request = r
      /\ generation' = [generation EXCEPT ![s] = r.gen]
      /\ r.gen >= generation[s]
      /\ seenWorkIds' = seenWorkIds \cup {w}
      /\ UNCHANGED <<inFlight, published, sessionPhase>>
  BY DEF SubmitEnqueued, Submittable, CanEnqueue, CanReserve, resourceVars
<1>2. s \in SessionIds /\ w \in WorkIds /\ r.gen \in Generations /\ r.gen \in Nat
  BY RequestType
<1>3. f \in normal'
  BY <1>1
<1> HIDE DEF f
<1>4. Lives[w] = Life!New /\ Lives'[w] = Life!Waiting(s, r.gen)
  BY <1>1, <1>3, AdmittedLife
<1>5. CASE Advances(r)
  <2>1. normal' = Without(normal, s) \cup {f}
    BY <1>1, <1>5 DEF Kept
  <2>2. ASSUME NEW u \in WorkIds, u # w
        PROVE  Lives'[u] = Life!Superseded({s})[u]
    <3>1. KeepsPlace(u, {s})
      BY <1>1, <2>1, <2>2 DEF KeepsPlace, Without
    <3>2. QED
      BY <3>1, KeptLife DEF Life!Superseded
  <2>3. Lives' = [Life!Superseded({s}) EXCEPT ![w] = Life!Waiting(s, r.gen)]
    BY <1>4, <2>2, LivesDomain DEF Life!Superseded
  <2>4. /\ Current[s] # 0 /\ r.gen > Current[s]
        /\ Current' = [Current EXCEPT ![s] = r.gen]
        /\ Closed' = Closed
    BY <1>1, <1>2, <1>5, AdvancedCurrent DEF Inv, Advances
  <2>5. Life!NewGeneration(s, r.gen)
    BY <1>2, <1>4, <2>3, <2>4 DEF Life!NewGeneration
  <2>6. QED
    BY <1>2, <2>5 DEF Life!LifeNext
<1>6. CASE ~ Advances(r)
  <2>1. normal' = normal \cup {f}
    BY <1>1, <1>6 DEF Kept
  <2>2. ASSUME NEW u \in WorkIds, u # w
        PROVE  Lives'[u] = Lives[u]
    <3>1. KeepsPlace(u, {})
      BY <1>1, <2>1, <2>2 DEF KeepsPlace
    <3>2. QED
      BY <3>1, KeptLife
  <2>3. r.gen = generation[s] /\ generation[s] \in Nat \ {0}
    BY <1>1, <1>2, <1>6 DEF Advances, OpenGenerations, Open
  <2>4. generation' = generation
    BY <1>1, <1>2, <2>3 DEF Inv, TypeOK
  <2>5. UNCHANGED <<Current, Closed>>
    BY <1>1, <2>4, SessionsStutter
  <2>6. Current[s] = r.gen /\ Current[s] # 0
    BY <1>1, <1>2, <2>3 DEF Current, Open
  <2>7. Lives' = [Lives EXCEPT ![w] = Life!Waiting(s, Current[s])]
    BY <1>2, <1>4, <2>2, <2>6, LivesDomain
  <2>8. Life!Admit(s, w)
    BY <1>4, <2>5, <2>6, <2>7 DEF Life!Admit
  <2>9. QED
    BY <1>2, <2>8 DEF Life!LifeNext
<1>7. QED
  BY <1>5, <1>6

\* A normal dispatch starts waiting work of the current generation.
LEMMA DispatchStarts ==
    ASSUME Inv, Inv', OpenGenerations, DispatchNormal
    PROVE  Life!LifeNext
<1>1. PICK e \in normal :
         /\ CanStart(e)
         /\ inFlight' = inFlight \cup {SignalOf(e.request)}
         /\ normal' = normal \ {e}
  BY ZenonT(60) DEF DispatchNormal
<1> DEFINE s == e.request.session
           w == e.request.work
           a == SignalOf(e.request)
<1>2. UNCHANGED <<seenWorkIds, published, sessionPhase, generation>>
  BY DEF DispatchNormal, resourceVars
<1>3. /\ s \in SessionIds /\ w \in WorkIds /\ s \in Open
      /\ e.request.gen = generation[s] /\ generation[s] # 0
      /\ a.work = w /\ a.session = s /\ a.gen = e.request.gen
      /\ a \in inFlight'
  BY <1>1, EntryType, RequestType DEF CanStart, Open, Inv, TypeOK, OpenGenerations
<1> HIDE DEF a
<1>4. UNCHANGED <<Current, Closed>>
  BY <1>2, SessionsStutter
<1>5. Current[s] = e.request.gen /\ Current[s] # 0
  BY <1>3 DEF Current
<1>6. Lives[w] = Life!Waiting(s, Current[s]) /\ Lives'[w] = Life!Running(s, Current[s])
  BY <1>3, <1>5, PlacesHere, PlacesNext DEF PlacesDecide
<1>7. ASSUME NEW u \in WorkIds, u # w
      PROVE  Lives'[u] = Lives[u]
  <2>1. inFlight' = inFlight \cup {a}
    BY <1>1 DEF a
  <2>2. KeepsPlace(u, {})
    BY <1>1, <1>2, <1>3, <1>7, <2>1 DEF KeepsPlace
  <2>3. QED
    BY <2>2, KeptLife
<1>8. Lives' = [Lives EXCEPT ![w] = Life!Running(s, Current[s])]
  BY <1>3, <1>6, <1>7, LivesDomain
<1>9. Life!Start(s, w)
  BY <1>4, <1>5, <1>6, <1>8 DEF Life!Start
<1>10. QED
  BY <1>3, <1>9 DEF Life!LifeNext

\* Finishing work without a publication ends its run, if the signal is exact.
LEMMA FinishEnds ==
    ASSUME Inv, Inv', NEW a, inFlight' = inFlight \ {a},
           UNCHANGED <<normal, seenWorkIds, published, sessionPhase, generation>>
    PROVE  Life!LifeNext \/ UNCHANGED Life!lifeVars
<1>1. CASE a \notin inFlight
  <2>1. inFlight' = inFlight
    BY <1>1
  <2>2. QED
    BY <2>1, LifeStutters
<1>2. CASE a \in inFlight
  <2> DEFINE w == a.work
  <2>1. w \in WorkIds
    BY <1>2, SignalType DEF Inv, TypeOK
  <2>2. Lives[w].state = "Running"
    BY <1>2, PlacesHere, LifeParts DEF PlacesDecide
  <2>3. Lives'[w] = Life!Over
    <3>1. /\ w \in seenWorkIds'
          /\ \A e \in normal' : e.request.work # w
          /\ \A b \in inFlight' : b.work # w
          /\ \A p \in published' : p.signal.work # w
      BY <1>2 DEF Inv, WorkIdsAreUnique
    <3>2. QED
      BY <3>1, PlacesNext DEF PlacesDecide
  <2>4. ASSUME NEW u \in WorkIds, u # w
        PROVE  Lives'[u] = Lives[u]
    <3>1. KeepsPlace(u, {})
      BY <2>4 DEF KeepsPlace
    <3>2. QED
      BY <3>1, KeptLife
  <2>5. Lives' = [Lives EXCEPT ![w] = Life!Over]
    BY <2>1, <2>3, <2>4, LivesDomain
  <2>6. Life!End(w)
    BY <2>2, <2>5, SessionsStutter DEF Life!End
  <2>7. QED
    BY <2>1, <2>6 DEF Life!LifeNext
<1>3. QED
  BY <1>1, <1>2

\* A publication ends the run of work of the current generation of an open session.
LEMMA PublishEnds ==
    ASSUME Inv, Inv', OpenGenerations, NEW a, NEW d, Publishes(a),
           inFlight' = inFlight \ {a},
           published' = published \cup {[signal |-> a, resource |-> d]},
           UNCHANGED <<normal, seenWorkIds, sessionPhase, generation>>
    PROVE  Life!LifeNext
<1> DEFINE s == a.session
           w == a.work
           p == [signal |-> a, resource |-> d]
<1>1. /\ a \in inFlight /\ w \in WorkIds /\ s \in SessionIds
      /\ s \in Open /\ generation[s] = a.gen /\ generation[s] # 0
  BY SignalType DEF Publishes, Inv, TypeOK, Open, OpenGenerations
<1>2. p.signal = a /\ p \in published'
  OBVIOUS
<1> HIDE DEF p
<1>3. Current[s] = a.gen /\ Current[s] # 0
  BY <1>1 DEF Current
<1>4. Lives[w] = Life!Running(s, Current[s])
  BY <1>1, <1>3, PlacesHere DEF PlacesDecide
<1>5. Lives'[w] = Life!Published
  BY <1>2, PlacesNext DEF PlacesDecide
<1>6. ASSUME NEW u \in WorkIds, u # w
      PROVE  Lives'[u] = Lives[u]
  <2>1. KeepsPlace(u, {})
    BY <1>2, <1>6 DEF KeepsPlace, p
  <2>2. QED
    BY <2>1, KeptLife
<1>7. Lives' = [Lives EXCEPT ![w] = Life!Published]
  BY <1>1, <1>5, <1>6, LivesDomain
<1>8. Life!Publish(s, w)
  BY <1>3, <1>4, <1>7, SessionsStutter DEF Life!Publish
<1>9. QED
  BY <1>1, <1>8 DEF Life!LifeNext

\* The dispatch of a critical event publishes, ends, or changes no life.
LEMMA CriticalEnds ==
    ASSUME Inv, Inv', OpenGenerations, DispatchCritical
    PROVE  Life!LifeNext \/ UNCHANGED Life!lifeVars
<1> DEFINE event == Head(critical)
<1>1. UNCHANGED <<normal, seenWorkIds, sessionPhase, generation>>
  BY DEF DispatchCritical, queueVars
<1>2. CASE DispatchCompletion(event)
  <2>1. CASE Publishes(event.signal)
    BY <1>1, <1>2, <2>1, PublishEnds DEF DispatchCompletion
  <2>2. CASE ~ Publishes(event.signal)
    BY <1>1, <1>2, <2>2, FinishEnds DEF DispatchCompletion
  <2>3. QED
    BY <2>1, <2>2
<1>3. CASE DispatchTerminal(event)
  BY <1>1, <1>3, FinishEnds DEF DispatchTerminal, resourceVars
<1>4. CASE DispatchRelease(event) \/ DispatchMarker(event)
  BY <1>1, <1>4, LifeStutters DEF DispatchRelease, DispatchMarker, resourceVars
<1>5. QED
  BY <1>2, <1>3, <1>4 DEF DispatchCritical

\* Every step of the scheduler is a step of the lifecycle or changes nothing in it.
LEMMA LifeStep ==
    ASSUME Inv, Inv', OpenGenerations, [Next]_vars
    PROVE  [Life!LifeNext]_Life!lifeVars
<1> DEFINE Step == Life!LifeNext \/ UNCHANGED Life!lifeVars
<1> SUFFICES Step
  OBVIOUS
<1>1. ASSUME NEW s \in SessionIds, NEW g \in Generations, RegisterSession(s, g)
      PROVE  Step
  BY <1>1, RegisterOpens DEF Inv
<1>2. ASSUME NEW s \in SessionIds, NEW g \in Generations, AdvanceGeneration(s, g)
      PROVE  Step
  BY <1>2, AdvanceSupersedes DEF AdvanceGeneration, resourceVars
<1>3. ASSUME NEW r \in Requests, SubmitCoalesced(r)
      PROVE  Step
  BY <1>3, CoalesceAdmits
<1>4. ASSUME NEW r \in Requests, SubmitEnqueued(r)
      PROVE  Step
  BY <1>4, EnqueueAdmits
<1>5. ASSUME NEW r \in Requests, SubmitRejected(r)
      PROVE  Step
  <2>1. /\ sessionPhase[r.session] = "Open" /\ r.gen > generation[r.session]
        /\ generation' = [generation EXCEPT ![r.session] = r.gen]
        /\ normal' = Without(normal, r.session)
        /\ UNCHANGED <<sessionPhase, inFlight, seenWorkIds, published>>
    BY <1>5 DEF SubmitRejected, Submittable, Advances, Kept, resourceVars
  <2>2. r.session \in SessionIds /\ r.gen \in Generations
    BY RequestType
  <2>3. QED
    BY <2>1, <2>2, AdvanceSupersedes
<1>6. ASSUME NEW s \in SessionIds, CloseSession(s)
      PROVE  Step
  <2>1. /\ Open' = Open \ {s} /\ {s} \subseteq Open /\ Closed' = Closed \cup {s}
        /\ {s} \in SUBSET SessionIds
    BY <1>6 DEF CloseSession, Open, Closed, Inv, TypeOK
  <2>2. /\ normal' = {e \in normal : e.request.session \notin {s}}
        /\ UNCHANGED <<generation, inFlight, seenWorkIds, published>>
    BY <1>6 DEF CloseSession, Without, resourceVars
  <2>3. QED
    BY <2>1, <2>2, CloseSupersedes
<1>7. CASE BeginShutdown
  <2>1. /\ Open' = Open \ Open /\ Closed' = Closed \cup Open
        /\ Open \in SUBSET SessionIds
    BY <1>7 DEF BeginShutdown, Open, Closed, Registered, Inv, TypeOK
  <2>2. normal' = {e \in normal : e.request.session \notin Open}
    <3>1. \A e \in normal : e.request.session \in Open
      BY EntryType DEF Inv, TypeOK, QueueIsCurrent, Open
    <3>2. normal' = {}
      BY <1>7 DEF BeginShutdown
    <3>3. QED
      BY <3>1, <3>2
  <2>3. UNCHANGED <<generation, inFlight, seenWorkIds, published>>
    BY <1>7 DEF BeginShutdown, resourceVars
  <2>4. QED
    BY <2>1, <2>2, <2>3, CloseSupersedes
<1>8. CASE DispatchCritical
  BY <1>8, CriticalEnds
<1>9. CASE DispatchNormal
  BY <1>9, DispatchStarts
<1>10. ASSUME UNCHANGED <<normal, inFlight, seenWorkIds, published, sessionPhase, generation>>
       PROVE  Step
  BY <1>10, LifeStutters
<1>11. ASSUME NEW delta \in Deltas, AdvanceTick(delta)
       PROVE  Step
  BY <1>10, <1>11 DEF AdvanceTick, queueVars, resourceVars
<1>12. ASSUME NEW a \in Signals, EnqueueCancel(a) \/ EnqueueFailure(a)
       PROVE  Step
  BY <1>10, <1>12 DEF EnqueueCancel, EnqueueFailure, queueVars, resourceVars
<1>13. ASSUME NEW a \in Signals, NEW d \in Resources, EnqueueCompletion(a, d)
       PROVE  Step
  BY <1>10, <1>13 DEF EnqueueCompletion, queueVars
<1>14. ASSUME NEW p \in published, EnqueueRelease(p)
       PROVE  Step
  BY <1>10, <1>14 DEF EnqueueRelease, queueVars
<1>15. CASE TryFinishShutdown
  BY <1>10, <1>15 DEF TryFinishShutdown, queueVars, resourceVars
<1>16. CASE UNCHANGED vars
  BY <1>10, <1>16 DEF vars, queueVars, resourceVars
<1> HIDE DEF Step
<1>17. QED
  BY <1>1, <1>2, <1>3, <1>4, <1>5, <1>6, <1>7, <1>8, <1>9, <1>11, <1>12, <1>13,
     <1>14, <1>15, <1>16 DEF Next

\* The initial states correspond.
LEMMA LifeInitially == Init => Life!LifeInit
<1> SUFFICES ASSUME Init PROVE Life!LifeInit
  OBVIOUS
<1>1. \A w \in WorkIds : LifeOf(w) = Life!New
  BY DEF Init, LifeOf, Life!New
<1>2. Lives = [w \in WorkIds |-> Life!New]
  BY <1>1 DEF Lives
<1>3. Current = [s \in SessionIds |-> 0] /\ Closed = {}
  BY DEF Init, Current, Closed, Open
<1>4. QED
  BY <1>2, <1>3 DEF Life!LifeInit

\* The scheduler, whatever its sizes and requests, implements the work lifecycle:
\* every life runs its course once, and only current work of an open session is
\* published.
THEOREM WorkLifecycleRefinement == Spec => ImplementsWorkLifecycle
<1>1. Init => OpenGenerations
  BY DEF Init, OpenGenerations, Open
<1>2. Inv /\ OpenGenerations /\ [Next]_vars => OpenGenerations'
  BY GenerationStep DEF Inv
<1>3. Inv /\ Inv' /\ OpenGenerations /\ [Next]_vars => [Life!LifeNext]_Life!lifeVars
  BY LifeStep
<1>4. QED
  BY <1>1, <1>2, <1>3, LifeInitially, Invariance, PTL
     DEF Spec, ImplementsWorkLifecycle, Life!LifeSpec

=============================================================================
