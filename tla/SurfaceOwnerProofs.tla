------------------------- MODULE SurfaceOwnerProofs -------------------------
(***************************************************************************)
(* Proofs about the surface owner, for every set of sessions, plans,        *)
(* layouts and limits: the steps that create and retire surfaces keep the   *)
(* invariant, then the theorems.  The last part is about the histories of   *)
(* what an epoch has handed out.                                            *)
(***************************************************************************)
EXTENDS SurfaceOwnerInvariant

\* allocate keeps the invariant: surface, handle and lease are all fresh.
LEMMA AllocateKeepsInv ==
    ASSUME Inv, NEW session \in Sessions, NEW plan \in PlanIdentities,
           NEW layout \in Layouts, Allocate(session, plan, layout)
    PROVE  Inv'
<1> DEFINE a == [worker |-> worker, epoch |-> epoch, session |-> session,
                 surface |-> nextSurface, lease |-> nextSecret]
           e == Entry(a, plan, layout.length, nextHandle, "Empty", Blank, 0, 0)
           k == Handle(nextHandle, nextSurface, "ReadWrite", 0, FALSE)
<1>0. /\ TypeOK /\ nextSurface \in Nat /\ nextHandle \in Nat /\ nextSecret \in Nat
      /\ nextSecret > 0 /\ epoch \in Nat /\ layout.length \in Nat
  BY ConstantType DEF Inv, TypeOK
<1>1. /\ PlanIsCurrent(session, plan)
      /\ nextSurface < CounterMax /\ nextHandle < CounterMax /\ nextSecret < CounterMax
      /\ surfaces' = surfaces \cup {e}
      /\ issued' = issued \cup {a}
      /\ handles' = handles \cup {k}
      /\ nextSurface' = nextSurface + 1
      /\ nextHandle' = nextHandle + 1
      /\ nextSecret' = nextSecret + 1
      /\ worker' = worker /\ epoch' = epoch /\ renderer' = renderer /\ now' = now
      /\ sessionState' = sessionState /\ sessionGen' = sessionGen
      /\ retired' = retired /\ transfers' = transfers /\ imports' = imports
  BY DEF Allocate, identityVars, sessionVars
<1>2. /\ a \in Accesses /\ a.worker = worker /\ a.epoch = epoch /\ a.session = session
      /\ a.surface = nextSurface /\ a.lease = nextSecret
  BY <1>0 DEF Accesses, TypeOK
<1> HIDE DEF a
<1>3. /\ e \in SurfaceEntries /\ e.access = a /\ e.plan = plan /\ e.handle = nextHandle
      /\ e.state = "Empty" /\ e.token = 0
  BY <1>0, <1>2 DEF Entry, SurfaceEntries, States
<1>4. /\ k \in HandleRecords /\ k.id = nextHandle /\ k.surface = nextSurface
      /\ k.mode = "ReadWrite" /\ k.token = 0 /\ k.imported = FALSE
  BY <1>0 DEF Handle, HandleRecords
<1> HIDE DEF e, k
<1>5. \A s \in surfaces :
         /\ s.handle # nextHandle /\ s.handle < nextHandle + 1
         /\ s.access.surface # nextSurface /\ s.access.surface < nextSurface + 1
         /\ s.access.lease # nextSecret /\ s.access.lease < nextSecret + 1
         /\ s.access.lease # 0 /\ s.access.lease > 0
         /\ s.token # nextSecret /\ s.token < nextSecret + 1
  <2>1. \A s \in surfaces :
           /\ s.handle \in Nat /\ s.access.surface \in Nat /\ s.access.lease \in Nat
           /\ s.token \in Nat
    BY <1>0, FieldTypes
  <2>2. \A s \in surfaces :
           /\ s.handle < nextHandle /\ s.access.surface < nextSurface
           /\ s.access.lease < nextSecret /\ s.access.lease > 0 /\ s.token < nextSecret
    BY DEF Inv, Bookkeeping, LiveIdentities
  <2>3. nextHandle \in Nat /\ nextSurface \in Nat /\ nextSecret \in Nat
    BY <1>0
  <2>4. \A x, y \in Nat : x < y => x # y /\ x < y + 1
    OBVIOUS
  <2>5. \A x \in Nat : x > 0 => x # 0
    OBVIOUS
  <2> QED
    BY <2>1, <2>2, <2>3, <2>4, <2>5, ZenonT(60)
<1>6. \A h \in handles : h.id # nextHandle
  BY <1>5 DEF Inv, HandlesAgree
<1>7. /\ \A r \in retired : /\ r.access.surface # nextSurface
                            /\ r.access.surface < nextSurface + 1
      /\ \A i \in imports : /\ i.access # a
                            /\ i.access.epoch <= epoch
                            /\ i.access.epoch = epoch
                                  => i.access.surface < nextSurface + 1
      /\ \A x \in issued : /\ x.epoch <= epoch
                           /\ x.epoch = epoch => x.surface < nextSurface + 1
  <2>1. /\ \A r \in retired : r.access.surface \in Nat
        /\ \A i \in imports : i.access.surface \in Nat
        /\ \A x \in issued : x.surface \in Nat
    BY <1>0, FieldTypes
  <2>2. \A r \in retired : r.access.surface < nextSurface
    BY DEF Inv, Bookkeeping
  <2>3. \A i \in imports : /\ i.access.epoch <= epoch
                           /\ i.access.epoch = epoch => i.access.surface < nextSurface
    BY DEF Inv, Provenance
  <2>4. \A x \in issued : /\ x.epoch <= epoch
                          /\ x.epoch = epoch => x.surface < nextSurface
    BY DEF Inv, AccessBounds
  <2>5. \A r \in retired : /\ r.access.surface # nextSurface
                           /\ r.access.surface < nextSurface + 1
    BY <1>0, <2>1, <2>2
  <2>6. \A i \in imports : /\ i.access # a
                           /\ i.access.epoch <= epoch
                           /\ i.access.epoch = epoch
                                 => i.access.surface < nextSurface + 1
    BY <1>0, <1>2, <2>1, <2>3
  <2>7. \A x \in issued : /\ x.epoch <= epoch
                          /\ x.epoch = epoch => x.surface < nextSurface + 1
    BY <1>0, <2>1, <2>4
  <2> QED
    BY <2>5, <2>6, <2>7
<1>8. TypeOK'
  <2>1. /\ nextSurface' \in 1..CounterMax /\ nextHandle' \in 1..CounterMax
        /\ nextSecret' \in 1..CounterMax
    BY <1>0, <1>1, ConstantType
  <2>2. /\ surfaces' \subseteq SurfaceEntries /\ handles' \subseteq HandleRecords
        /\ issued' \subseteq Accesses
    BY <1>0, <1>1, <1>2, <1>3, <1>4 DEF TypeOK
  <2> QED
    BY <1>0, <1>1, <2>1, <2>2 DEF TypeOK
<1>9. HandlesAgree'
  <2>1. \A s \in surfaces' : \E h \in handles' :
           /\ h.id = s.handle
           /\ h.surface = s.access.surface
           /\ h.mode = "ReadWrite" <=> s.state \in Private
           /\ h.token = s.token
           /\ h.imported <=> s.state = "Imported"
    <3>1. /\ k.id = e.handle /\ k.surface = e.access.surface
          /\ k.mode = "ReadWrite" <=> e.state \in Private
          /\ k.token = e.token
          /\ k.imported <=> e.state = "Imported"
      BY <1>2, <1>3, <1>4 DEF Private
    <3> SUFFICES ASSUME NEW s \in surfaces'
                 PROVE  \E h \in handles' :
                           /\ h.id = s.handle
                           /\ h.surface = s.access.surface
                           /\ h.mode = "ReadWrite" <=> s.state \in Private
                           /\ h.token = s.token
                           /\ h.imported <=> s.state = "Imported"
      OBVIOUS
    <3>2. CASE s = e
      BY <1>1, <3>1, <3>2
    <3>3. CASE s \in surfaces
      BY <1>1, <3>3 DEF Inv, HandlesAgree
    <3> QED
      BY <1>1, <3>2, <3>3
  <2>2. \A s, t \in surfaces' : s.handle = t.handle => s = t
    <3>1. \A s, t \in surfaces : s.handle = t.handle => s = t
      BY DEF Inv, HandlesAgree
    <3> QED
      BY <1>1, <1>3, <1>5, <3>1
  <2>3. \A h \in handles' : \E s \in surfaces' : s.handle = h.id
    <3>1. \A h \in handles : \E s \in surfaces : s.handle = h.id
      BY DEF Inv, HandlesAgree
    <3> QED
      BY <1>1, <1>3, <1>4, <3>1
  <2>4. \A h, j \in handles' : h.id = j.id => h = j
    <3>1. \A h, j \in handles : h.id = j.id => h = j
      BY DEF Inv, HandlesAgree
    <3> QED
      BY <1>1, <1>4, <1>6, <3>1
  <2> QED
    BY <2>1, <2>2, <2>3, <2>4 DEF HandlesAgree
<1>10. LiveIsCurrent'
  BY <1>1, <1>2, <1>3 DEF Inv, LiveIsCurrent, PlanIsCurrent, Private
<1>11. LiveIdentities'
  <2>1. /\ \A s \in surfaces, r \in retired : s.access.surface # r.access.surface
        /\ \A s, t \in surfaces : s.access.surface = t.access.surface => s = t
        /\ \A s, t \in surfaces : s.access.lease # t.token
        /\ \A s, t \in surfaces : s.token = t.token /\ s.token # 0 => s = t
    BY DEF Inv, LiveIdentities
  <2>2. \A s \in surfaces', r \in retired' : s.access.surface # r.access.surface
    BY <1>1, <1>2, <1>3, <1>7, <2>1
  <2>3. \A s, t \in surfaces' : s.access.surface = t.access.surface => s = t
    BY <1>1, <1>2, <1>3, <1>5, <2>1
  <2>4. \A s, t \in surfaces' : s.access.lease # t.token
    <3>1. e.access.lease = nextSecret /\ e.token = 0 /\ nextSecret # 0
      BY <1>0, <1>2, <1>3
    <3> QED
      BY <1>1, <1>5, <2>1, <3>1
  <2>5. \A s, t \in surfaces' : s.token = t.token /\ s.token # 0 => s = t
    BY <1>1, <1>3, <2>1
  <2>6. \A s \in surfaces' : /\ s.access.surface < nextSurface'
                             /\ s.access.lease < nextSecret'
                             /\ s.token < nextSecret'
    <3>1. /\ e.access.surface < nextSurface + 1 /\ e.access.lease < nextSecret + 1
          /\ e.token < nextSecret + 1
      BY <1>0, <1>2, <1>3
    <3> QED
      BY <1>1, <1>5, <3>1
  <2> QED
    BY <2>2, <2>3, <2>4, <2>5, <2>6 DEF LiveIdentities
<1>12. EveryReleaseIsAnswered'
  BY <1>1, <1>3 DEF Inv, EveryReleaseIsAnswered
<1>13. Bookkeeping'
  <2>1. /\ e.handle < nextHandle + 1
        /\ e.access.lease > 0
        /\ e.state = "Empty"
        /\ e.state \notin {"Transferred", "Imported"}
        /\ e.token = 0
    BY <1>0, <1>2, <1>3
  <2>2. \A s \in surfaces :
           /\ s.state # "Empty" => s.pixels # Blank
           /\ s.state \in {"Transferred", "Imported"} <=> s.token # 0
    BY DEF Inv, Bookkeeping
  <2>3. \A s \in surfaces' :
           /\ s.handle < nextHandle'
           /\ s.access.lease > 0
           /\ s.state # "Empty" => s.pixels # Blank
           /\ s.state \in {"Transferred", "Imported"} <=> s.token # 0
    BY <1>1, <1>5, <2>1, <2>2
  <2>4. \A r, q \in retired : r.access.surface = q.access.surface => r = q
    BY DEF Inv, Bookkeeping
  <2> QED
    BY <1>1, <1>7, <2>3, <2>4 DEF Bookkeeping
<1>14. Provenance'
  <2>1. \A i \in imports, s \in surfaces :
           i.access = s.access => s.state = "Imported" /\ s.pixels = i.pixels
    BY DEF Inv, Provenance
  <2> QED
    BY <1>1, <1>3, <1>7, <2>1 DEF Provenance
<1>15. AccessBounds'
  <2>1. a.epoch <= epoch /\ a.surface < nextSurface + 1
    BY <1>0, <1>2
  <2> QED
    BY <1>1, <1>7, <2>1 DEF AccessBounds
<1>16. ImportedOnce' /\ IsFiniteSet(imports')
  BY <1>1 DEF Inv, ImportedOnce
<1> QED
  BY <1>8, <1>9, <1>10, <1>11, <1>12, <1>13, <1>14, <1>15, <1>16 DEF Inv

\* discard_private and release keep the invariant.
LEMMA RetireOneKeepsInv ==
    ASSUME Inv, NEW s \in surfaces, NEW reason \in Reasons,
           Retire({s}, [x \in surfaces |-> reason]),
           UNCHANGED <<identityVars, now, counterVars, sessionVars, clientVars>>
    PROVE  Inv'
<1>1. [x \in surfaces |-> reason] \in [surfaces -> Reasons] /\ {s} \in SUBSET surfaces
  OBVIOUS
<1>2. LiveIsCurrent'
  BY DEF Inv, Retire, LiveIsCurrent, PlanIsCurrent, identityVars, sessionVars
<1>3. TypeOK'
  <2>1. /\ surfaces' \subseteq SurfaceEntries
        /\ handles' \subseteq HandleRecords
        /\ retired' \subseteq [access : Accesses, reason : Reasons]
    BY <1>1, RetireKeeps
  <2> QED
    BY <2>1 DEF Inv, TypeOK, identityVars, counterVars, sessionVars, clientVars
<1> QED
  BY <1>1, <1>2, <1>3, RetireKeeps DEF Inv

\* advance_clock keeps the invariant: what it leaves has a later deadline.
LEMMA ClockKeepsInv ==
    ASSUME Inv, NEW ticks \in Ticks, AdvanceClock(ticks)
    PROVE  Inv'
<1> DEFINE S == {s \in surfaces : s.state \notin Private /\ s.deadline <= now + ticks}
           R == [s \in surfaces |-> "LeaseExpired"]
<1>1. /\ now + ticks <= CounterMax /\ now' = now + ticks
      /\ Retire(S, R)
      /\ UNCHANGED <<identityVars, counterVars, sessionVars, clientVars>>
  BY DEF AdvanceClock
<1>2. R \in [surfaces -> Reasons] /\ S \in SUBSET surfaces
  BY DEF Reasons
<1>3. TypeOK /\ now \in Nat /\ ticks \in Nat
  BY ConstantType DEF Inv, TypeOK
<1>4. LiveIsCurrent'
  <2>1. surfaces' = surfaces \ S
    BY <1>1 DEF Retire
  <2>2. \A s \in surfaces' : s.state \notin Private => s.deadline > now'
    BY <1>1, <1>3, <2>1, FieldTypes
  <2> QED
    BY <1>1, <2>1, <2>2
       DEF Inv, LiveIsCurrent, PlanIsCurrent, identityVars, sessionVars
<1> HIDE DEF S, R
<1>5. TypeOK'
  <2>1. /\ surfaces' \subseteq SurfaceEntries
        /\ handles' \subseteq HandleRecords
        /\ retired' \subseteq [access : Accesses, reason : Reasons]
    BY <1>1, <1>2, RetireKeeps
  <2>2. now' \in 0..CounterMax
    BY <1>1, <1>3, ConstantType
  <2> QED
    BY <1>1, <1>3, <2>1, <2>2
       DEF TypeOK, identityVars, counterVars, sessionVars, clientVars
<1> QED
  BY <1>1, <1>2, <1>4, <1>5, RetireKeeps DEF Inv

\* replace_generation keeps the invariant: a live surface of the session was of
\* the current generation, hence older than the new one, and is gone.
LEMMA ReplaceKeepsInv ==
    ASSUME Inv, NEW session \in Sessions, NEW gen \in Generations,
           ReplaceGeneration(session, gen)
    PROVE  Inv'
<1> DEFINE S == {s \in surfaces : s.access.session = session /\ s.plan.gen < gen}
           R == [s \in surfaces |-> IF s.state \in Private
                                    THEN "StaleGeneration" ELSE "GenerationReplaced"]
<1>1. /\ gen > sessionGen[session]
      /\ sessionGen' = [sessionGen EXCEPT ![session] = gen]
      /\ sessionState' = sessionState
      /\ Retire(S, R)
      /\ UNCHANGED <<identityVars, now, counterVars, clientVars>>
  BY DEF ReplaceGeneration
<1>2. R \in [surfaces -> Reasons] /\ S \in SUBSET surfaces
  BY DEF Reasons
<1>3. TypeOK
  BY DEF Inv
<1>4. LiveIsCurrent'
  <2>1. surfaces' = surfaces \ S
    BY <1>1 DEF Retire
  <2>2. \A s \in surfaces' : s.access.session # session
    BY <1>1, <2>1 DEF Inv, LiveIsCurrent, PlanIsCurrent
  <2>3. \A x \in Sessions : x # session => sessionGen'[x] = sessionGen[x]
    BY <1>1, <1>3 DEF TypeOK
  <2> QED
    BY <1>1, <1>3, <2>1, <2>2, <2>3, FieldTypes
       DEF Inv, LiveIsCurrent, PlanIsCurrent, identityVars
<1> HIDE DEF S, R
<1>5. TypeOK'
  <2>1. /\ surfaces' \subseteq SurfaceEntries
        /\ handles' \subseteq HandleRecords
        /\ retired' \subseteq [access : Accesses, reason : Reasons]
    BY <1>1, <1>2, RetireKeeps
  <2>2. sessionGen' \in [Sessions -> Generations \cup {0}]
    BY <1>1, <1>3 DEF TypeOK
  <2> QED
    BY <1>1, <1>3, <2>1, <2>2 DEF TypeOK, identityVars, counterVars, clientVars
<1> QED
  BY <1>1, <1>2, <1>4, <1>5, RetireKeeps DEF Inv

\* close_session keeps the invariant: all of the session's surfaces are gone.
LEMMA CloseKeepsInv ==
    ASSUME Inv, NEW session \in Sessions, CloseSession(session)
    PROVE  Inv'
<1> DEFINE S == {s \in surfaces : s.access.session = session}
           R == [s \in surfaces |-> "SessionClosed"]
<1>1. /\ sessionState' = [sessionState EXCEPT ![session] = "Closed"]
      /\ sessionGen' = sessionGen
      /\ Retire(S, R)
      /\ UNCHANGED <<identityVars, now, counterVars, clientVars>>
  BY DEF CloseSession
<1>2. R \in [surfaces -> Reasons] /\ S \in SUBSET surfaces
  BY DEF Reasons
<1>3. TypeOK
  BY DEF Inv
<1>4. LiveIsCurrent'
  <2>1. surfaces' = surfaces \ S
    BY <1>1 DEF Retire
  <2>2. \A x \in Sessions : x # session => sessionState'[x] = sessionState[x]
    BY <1>1, <1>3 DEF TypeOK
  <2> QED
    BY <1>1, <1>3, <2>1, <2>2, FieldTypes
       DEF Inv, LiveIsCurrent, PlanIsCurrent, identityVars
<1> HIDE DEF S, R
<1>5. TypeOK'
  <2>1. /\ surfaces' \subseteq SurfaceEntries
        /\ handles' \subseteq HandleRecords
        /\ retired' \subseteq [access : Accesses, reason : Reasons]
    BY <1>1, <1>2, RetireKeeps
  <2>2. sessionState' \in [Sessions -> {"Unknown", "Active", "Closed"}]
    BY <1>1, <1>3 DEF TypeOK
  <2> QED
    BY <1>1, <1>3, <2>1, <2>2 DEF TypeOK, identityVars, counterVars, clientVars
<1> QED
  BY <1>1, <1>2, <1>4, <1>5, RetireKeeps DEF Inv

\* restart keeps the invariant: everything a client still holds is of an epoch
\* before the new one.
LEMMA RestartKeepsInv ==
    ASSUME Inv, NEW w \in Workers, NEW e \in Epochs, NEW r \in Renderers,
           Restart(w, e, r)
    PROVE  Inv'
<1>1. /\ e > epoch /\ worker' = w /\ epoch' = e /\ renderer' = r /\ now' = 0
      /\ nextSurface' = 1 /\ nextHandle' = 1 /\ nextSecret' = 1
      /\ sessionState' = [s \in Sessions |-> "Unknown"]
      /\ sessionGen' = [s \in Sessions |-> 0]
      /\ surfaces' = {} /\ handles' = {} /\ retired' = {}
      /\ issued' = issued /\ transfers' = transfers /\ imports' = imports
  BY DEF Restart, clientVars
<1>2. TypeOK /\ epoch \in Nat /\ e \in Nat
  BY ConstantType DEF Inv, TypeOK
<1>3. TypeOK'
  BY <1>1, <1>2, ConstantType DEF TypeOK
<1>4. HandlesAgree' /\ LiveIsCurrent' /\ LiveIdentities' /\ Bookkeeping'
  BY <1>1 DEF HandlesAgree, LiveIsCurrent, LiveIdentities, Bookkeeping
<1>5. \A a \in issued : a.epoch \in Nat /\ a.epoch < e
  <2>1. \A a \in issued : a.epoch \in Nat /\ a.epoch <= epoch
    BY <1>2, FieldTypes, ConstantType, ZenonT(60) DEF Inv, AccessBounds
  <2> QED
    BY <1>1, <1>2, <2>1
<1>6. \A i \in imports : i.access.epoch \in Nat /\ i.access.epoch < e
  <2>1. \A i \in imports : i.access.epoch \in Nat /\ i.access.epoch <= epoch
    BY <1>2, FieldTypes, ConstantType, ZenonT(60) DEF Inv, Provenance
  <2> QED
    BY <1>1, <1>2, <2>1
<1>7. \A a \in issued : a.epoch <= e /\ a.epoch # e
  BY <1>2, <1>5
<1>8. \A i \in imports : i.access.epoch <= e /\ i.access.epoch # e
  BY <1>2, <1>6
<1>9. EveryReleaseIsAnswered' /\ AccessBounds'
  BY <1>1, <1>7 DEF EveryReleaseIsAnswered, AccessBounds
<1>10. Provenance'
  BY <1>1, <1>8 DEF Provenance
<1>11. ImportedOnce' /\ IsFiniteSet(imports')
  BY <1>1 DEF Inv, ImportedOnce
<1> QED
  BY <1>3, <1>4, <1>9, <1>10, <1>11 DEF Inv

-----------------------------------------------------------------------------
(* The theorems.                                                           *)

\* A new owner satisfies the invariant.
LEMMA InvInit == Init => Inv
<1> SUFFICES ASSUME Init PROVE Inv
  OBVIOUS
<1>1. TypeOK
  BY ConstantType DEF Init, TypeOK
<1>2. HandlesAgree /\ LiveIsCurrent /\ LiveIdentities /\ EveryReleaseIsAnswered
  BY DEF Init, HandlesAgree, LiveIsCurrent, LiveIdentities,
         EveryReleaseIsAnswered
<1>3. Bookkeeping /\ Provenance /\ AccessBounds /\ ImportedOnce
  BY DEF Init, Bookkeeping, Provenance, AccessBounds, ImportedOnce
<1>4. IsFiniteSet(imports)
  BY FS_EmptySet DEF Init
<1> QED
  BY <1>1, <1>2, <1>3, <1>4 DEF Inv

\* Every call of the surface owner, and every rejected one, keeps the invariant.
LEMMA InvStep == Inv /\ [Next]_vars => Inv'
<1> SUFFICES ASSUME Inv, [Next]_vars PROVE Inv'
  OBVIOUS
<1>1. ASSUME NEW session \in Sessions, NEW gen \in Generations, OpenSession(session, gen)
      PROVE  Inv'
  BY <1>1, OpenKeepsInv
<1>2. ASSUME NEW session \in Sessions, NEW plan \in PlanIdentities,
             NEW layout \in Layouts, Allocate(session, plan, layout)
      PROVE  Inv'
  BY <1>2, AllocateKeepsInv
<1>3. ASSUME NEW access \in issued, NEW s \in surfaces, NEW pixels \in Pixels,
             WritePrivatePixels(access, s, pixels)
      PROVE  Inv'
  BY <1>3, WriteKeepsInv
<1>4. ASSUME NEW access \in issued, NEW s \in surfaces, Publish(access, s)
      PROVE  Inv'
  BY <1>4, PublishKeepsInv
<1>5. ASSUME NEW access \in issued, NEW s \in surfaces, Transfer(access, s)
      PROVE  Inv'
  BY <1>5, TransferKeepsInv
<1>6. ASSUME NEW t \in transfers, NEW s \in surfaces, Import(t, s)
      PROVE  Inv'
  BY <1>6, ImportKeepsInv
<1>7. ASSUME NEW access \in issued, NEW s \in surfaces,
             NEW reason \in {"Cancelled", "Failed", "StaleGeneration"},
             DiscardPrivate(access, s, reason)
      PROVE  Inv'
  <2>1. reason \in Reasons
    BY DEF Reasons
  <2> QED
    BY <1>7, <2>1, RetireOneKeepsInv DEF DiscardPrivate
<1>8. ASSUME NEW access \in issued, NEW s \in surfaces, Release(access, s)
      PROVE  Inv'
  <2>1. "ReleasedByHost" \in Reasons
    BY DEF Reasons
  <2> QED
    BY <1>8, <2>1, RetireOneKeepsInv DEF Release
<1>9. ASSUME NEW ticks \in Ticks, AdvanceClock(ticks)
      PROVE  Inv'
  BY <1>9, ClockKeepsInv
<1>10. ASSUME NEW session \in Sessions, NEW gen \in Generations,
              ReplaceGeneration(session, gen)
       PROVE  Inv'
  BY <1>10, ReplaceKeepsInv
<1>11. ASSUME NEW session \in Sessions, CloseSession(session)
       PROVE  Inv'
  BY <1>11, CloseKeepsInv
<1>12. ASSUME NEW w \in Workers, NEW e \in Epochs, NEW r \in Renderers, Restart(w, e, r)
       PROVE  Inv'
  BY <1>12, RestartKeepsInv
<1>13. CASE UNCHANGED vars
  <2> USE <1>13 DEF vars, identityVars, counterVars, sessionVars, clientVars
  <2>1. TypeOK' /\ IsFiniteSet(imports')
    BY ZenonT(60) DEF Inv, TypeOK
  <2>2. HandlesAgree' /\ LiveIsCurrent'
    BY DEF Inv, HandlesAgree, LiveIsCurrent, PlanIsCurrent
  <2>3. LiveIdentities' /\ EveryReleaseIsAnswered'
    BY DEF Inv, LiveIdentities, EveryReleaseIsAnswered
  <2>4. Bookkeeping' /\ Provenance' /\ AccessBounds' /\ ImportedOnce'
    BY DEF Inv, Bookkeeping, Provenance, AccessBounds, ImportedOnce
  <2> QED
    BY <2>1, <2>2, <2>3, <2>4 DEF Inv
<1> QED
  BY <1>1, <1>2, <1>3, <1>4, <1>5, <1>6, <1>7, <1>8, <1>9, <1>10, <1>11, <1>12, <1>13
     DEF Next

\* The inductive invariant holds in every reachable state of the surface owner.
THEOREM Invariance == Spec => []Inv
  BY InvInit, InvStep, PTL DEF Spec

\* Every variable of the surface owner keeps its type.
THEOREM TypeCorrect == Spec => []TypeOK
<1>1. Inv => TypeOK
  BY DEF Inv
<1> QED
  BY <1>1, Invariance, PTL

\* The expect calls of owner.rs never fail: in every reachable state each live
\* surface owns exactly one handle, in the state that belongs to it.  And import
\* is one-shot: no surface is in the history of the imports twice.
THEOREM HandlesCorrect == Spec => []HandleOwnership
<1>1. Inv => HandleOwnership
  BY DEF Inv, HandleOwnership
<1> QED
  BY <1>1, Invariance, PTL

\* Nothing expired, superseded, closed or restarted away is ever live.
THEOREM LiveCorrect == Spec => []LiveIsCurrent
<1>1. Inv => LiveIsCurrent
  BY DEF Inv
<1> QED
  BY <1>1, Invariance, PTL

\* Every access handed out in this epoch can be released, any number of times.
THEOREM ReleasesCorrect == Spec => []EveryReleaseIsAnswered
<1>1. Inv => EveryReleaseIsAnswered
  BY DEF Inv
<1> QED
  BY <1>1, Invariance, PTL

\* acquire shows a consumer the pixels it imported and no others, also when a later
\* worker epoch reuses the identity, the lease and the token.
THEOREM AcquireCorrect == Spec => []AcquireIsFaithful
<1>1. Inv => AcquireIsFaithful
  BY DEF Inv, Provenance, Bookkeeping, AcquireIsFaithful, CanAcquire, Opens
<1> QED
  BY <1>1, Invariance, PTL

\* Within a worker epoch a retirement is never undone and never given a second
\* reason, which is what makes release idempotent.
THEOREM RetirementCorrect == Spec => RetiredIsFinal
<1>1. ASSUME Inv, Inv', [Next]_vars
      PROVE  epoch' = epoch =>
                /\ retired \subseteq retired'
                /\ \A r, q \in retired' : r.access.surface = q.access.surface => r = q
  <2>1. \A r, q \in retired' : r.access.surface = q.access.surface => r = q
    BY <1>1 DEF Inv, Bookkeeping
  <2>2. epoch \in Nat
    BY <1>1, ConstantType DEF Inv, TypeOK
  <2>3. (\E w \in Workers, e \in Epochs, r \in Renderers : Restart(w, e, r))
           => epoch' # epoch
    BY <2>2, ConstantType DEF Restart
  <2>4. ASSUME NEW S, NEW reason, Retire(S, reason)
        PROVE  retired \subseteq retired'
    BY <2>4 DEF Retire
  <2>5. UNCHANGED retired => retired \subseteq retired'
    OBVIOUS
  <2>6. retired \subseteq retired'
           \/ \E w \in Workers, e \in Epochs, r \in Renderers : Restart(w, e, r)
    BY <1>1, <2>4, <2>5, ZenonT(60)
       DEF Next, OpenSession, Allocate, WritePrivatePixels, Publish, Transfer, Import,
           DiscardPrivate, Release, AdvanceClock, ReplaceGeneration, CloseSession, vars
  <2> QED
    BY <2>1, <2>3, <2>6, ZenonT(60)
<1> QED
  BY <1>1, InvStep, Invariance, PTL DEF Spec, RetiredIsFinal

-----------------------------------------------------------------------------
(* Identities, over everything an epoch has handed out.                    *)

\* Everything handed out in this epoch lies below its counter, every transfer is of
\* an access that was handed out, and the token of a surface is that of its transfer.
Drawn ==
    /\ \A a \in Granted : a.lease < nextSecret
    /\ \A t \in transfers : t.access \in issued
    /\ \A t \in Sent : t.token > 0 /\ t.token < nextSecret /\ t.handle < nextHandle
    /\ \A s \in surfaces, t \in Sent : s.access = t.access => s.token = t.token

HistoryInv == IdentitiesNeverReused /\ Drawn

\* The fields of what clients were handed in this epoch.
LEMMA HistoryTypes ==
    ASSUME TypeOK
    PROVE  /\ \A a \in issued : a.surface \in Nat /\ a.lease \in Nat /\ a.epoch \in Nat
           /\ \A a \in Granted : a.surface \in Nat /\ a.lease \in Nat
           /\ \A t \in Sent : t.handle \in Nat /\ t.token \in Nat
           /\ epoch \in Nat /\ nextSurface \in Nat /\ nextHandle \in Nat
           /\ nextSecret \in Nat /\ nextSecret > 0
<1>1. \A a \in issued : a.surface \in Nat /\ a.lease \in Nat /\ a.epoch \in Epochs
  BY DEF TypeOK, Accesses
<1>2. \A t \in transfers : t.handle \in Nat /\ t.token \in Nat
  BY DEF TypeOK, Transfers
<1>3. /\ epoch \in Epochs /\ nextSurface \in 1..CounterMax
      /\ nextHandle \in 1..CounterMax /\ nextSecret \in 1..CounterMax
  BY DEF TypeOK
<1>4. /\ nextSurface \in Nat /\ nextHandle \in Nat
      /\ nextSecret \in Nat /\ nextSecret > 0
  BY <1>3, ConstantType
<1>5. Epochs \subseteq Nat
  BY ConstantType
<1>6. Granted \subseteq issued /\ Sent \subseteq transfers
  BY Zenon DEF Granted, Sent
<1> QED
  BY <1>1, <1>2, <1>3, <1>4, <1>5, <1>6

\* A step that hands nothing out keeps the history sound, if each of its surfaces
\* was there before with the same access, handle and token, and each retirement is
\* an old one or that of a surface.
LEMMA QuietKeepsHistory ==
    ASSUME HistoryInv, LiveIdentities',
           UNCHANGED <<issued, transfers, epoch, nextHandle, nextSecret>>,
           \A s \in surfaces' : \E p \in surfaces :
              s.access = p.access /\ s.handle = p.handle /\ s.token = p.token,
           \A r \in retired' :
              \/ \E q \in retired : r.access = q.access
              \/ \E p \in surfaces : r.access = p.access
    PROVE  HistoryInv'
<1>1. Granted' = Granted /\ Sent' = Sent
  BY Zenon DEF Granted, Sent
<1>2. Drawn'
  <2>1. \A s \in surfaces', t \in Sent : s.access = t.access => s.token = t.token
    BY DEF HistoryInv, Drawn
  <2> QED
    BY <1>1, <2>1, Zenon DEF HistoryInv, Drawn
<1>3. /\ \A s \in surfaces' : s.access \in Granted
      /\ \A r \in retired' : r.access \in Granted
      /\ \A s \in surfaces', t \in Sent : s.handle = t.handle => s.access = t.access
  <2>1. /\ \A p \in surfaces : p.access \in Granted
        /\ \A r \in retired : r.access \in Granted
        /\ \A p \in surfaces, t \in Sent : p.handle = t.handle => p.access = t.access
    BY Zenon DEF HistoryInv, IdentitiesNeverReused
  <2> QED
    BY <2>1
<1>4. /\ \A s \in surfaces', r \in retired' : s.access # r.access
      /\ \A s, t \in surfaces' : s.access = t.access => s = t
  BY DEF LiveIdentities
<1>5. IdentitiesNeverReused'
  BY <1>1, <1>3, <1>4, Zenon DEF HistoryInv, IdentitiesNeverReused
<1> QED
  BY <1>2, <1>5 DEF HistoryInv

\* Allocate draws a surface, a handle and a lease that nothing has had in this epoch.
LEMMA AllocateKeepsHistory ==
    ASSUME Inv, Inv', HistoryInv, NEW session \in Sessions, NEW plan \in PlanIdentities,
           NEW layout \in Layouts, Allocate(session, plan, layout)
    PROVE  HistoryInv'
<1> DEFINE new == [worker |-> worker, epoch |-> epoch, session |-> session,
                   surface |-> nextSurface, lease |-> nextSecret]
           entry == Entry(new, plan, layout.length, nextHandle, "Empty", Blank, 0, 0)
<1>1. /\ issued' = issued \cup {new} /\ surfaces' = surfaces \cup {entry}
      /\ transfers' = transfers /\ retired' = retired /\ epoch' = epoch
      /\ nextHandle' = nextHandle + 1 /\ nextSecret' = nextSecret + 1
  BY DEF Allocate, identityVars
<1>2. /\ new.epoch = epoch /\ new.surface = nextSurface /\ new.lease = nextSecret
      /\ entry.access = new /\ entry.handle = nextHandle /\ entry.token = 0
  BY DEF Entry
<1> HIDE DEF new, entry
<1>3. TypeOK /\ AccessBounds /\ LiveIdentities'
  BY DEF Inv
<1>4. Granted' = Granted \cup {new} /\ Sent' = Sent
  BY <1>1, <1>2, Zenon DEF Granted, Sent
<1>5. \A a \in Granted : a.surface # new.surface /\ a.lease # new.lease
  <2>1. \A a \in Granted : a.surface < nextSurface /\ a.lease < nextSecret
    BY <1>3, Zenon DEF AccessBounds, Granted, HistoryInv, Drawn
  <2> QED
    BY <1>2, <1>3, <2>1, HistoryTypes
<1>6. \A t \in Sent : t.handle # entry.handle /\ t.token # new.lease
  <2>1. \A t \in Sent : t.token < nextSecret /\ t.handle < nextHandle
    BY Zenon DEF HistoryInv, Drawn
  <2> QED
    BY <1>2, <1>3, <2>1, HistoryTypes
<1>7. \A t \in Sent : t.access \in Granted /\ t.access # new
  <2>1. \A t \in Sent : t.access \in Granted
    BY Zenon DEF HistoryInv, Drawn, Sent, Granted
  <2> QED
    BY <1>5, <2>1, Zenon
<1>8. Drawn'
  <2>1. \A a \in Granted' : a.lease < nextSecret'
    <3>1. \A a \in Granted : a.lease < nextSecret
      BY Zenon DEF HistoryInv, Drawn
    <3> QED
      BY <1>1, <1>2, <1>3, <1>4, <3>1, HistoryTypes
  <2>2. \A t \in Sent : t.token > 0 /\ t.token < nextSecret' /\ t.handle < nextHandle'
    <3>1. \A t \in Sent : t.token > 0 /\ t.token < nextSecret /\ t.handle < nextHandle
      BY Zenon DEF HistoryInv, Drawn
    <3> QED
      BY <1>1, <1>3, <3>1, HistoryTypes
  <2>3. \A s \in surfaces', t \in Sent : s.access = t.access => s.token = t.token
    BY <1>1, <1>2, <1>7, Zenon DEF HistoryInv, Drawn
  <2>4. \A t \in transfers' : t.access \in issued'
    BY <1>1, Zenon DEF HistoryInv, Drawn
  <2> QED
    BY <1>4, <2>1, <2>2, <2>3, <2>4, Zenon DEF Drawn
<1>9. IdentitiesNeverReused'
  <2>1. \A a, b \in Granted' : a.surface = b.surface \/ a.lease = b.lease => a = b
    BY <1>4, <1>5, Zenon DEF HistoryInv, IdentitiesNeverReused
  <2>2. \A a \in Granted', t \in Sent' : a.lease # t.token
    BY <1>4, <1>6, Zenon DEF HistoryInv, IdentitiesNeverReused
  <2>3. /\ \A s \in surfaces' : s.access \in Granted'
        /\ \A r \in retired' : r.access \in Granted'
    BY <1>1, <1>2, <1>4, Zenon DEF HistoryInv, IdentitiesNeverReused
  <2>4. /\ \A s \in surfaces', r \in retired' : s.access # r.access
        /\ \A s, t \in surfaces' : s.access = t.access => s = t
    BY <1>3, Zenon DEF LiveIdentities
  <2>5. \A s \in surfaces', t \in Sent' : s.handle = t.handle => s.access = t.access
    BY <1>1, <1>4, <1>6, Zenon DEF HistoryInv, IdentitiesNeverReused
  <2> QED
    BY <1>4, <2>1, <2>2, <2>3, <2>4, <2>5, Zenon DEF HistoryInv, IdentitiesNeverReused
<1> QED
  BY <1>8, <1>9 DEF HistoryInv

\* Transfer draws a token that nothing has had in this epoch, for a surface that was
\* in no transfer.
LEMMA TransferKeepsHistory ==
    ASSUME Inv, Inv', HistoryInv, NEW access \in issued, NEW s \in surfaces,
           Transfer(access, s)
    PROVE  HistoryInv'
<1> DEFINE new == [access |-> s.access, plan |-> s.plan, handle |-> s.handle,
                   token |-> nextSecret]
           entry == Entry(s.access, s.plan, s.length, s.handle, "Transferred", s.pixels,
                          s.deadline, nextSecret)
<1>1. /\ issued' = issued /\ surfaces' = (surfaces \ {s}) \cup {entry}
      /\ transfers' = transfers \cup {new} /\ retired' = retired /\ epoch' = epoch
      /\ nextHandle' = nextHandle /\ nextSecret' = nextSecret + 1
      /\ s.state = "Available"
  BY DEF Transfer, identityVars
<1>2. /\ new.access = s.access /\ new.handle = s.handle /\ new.token = nextSecret
      /\ entry.access = s.access /\ entry.handle = s.handle /\ entry.token = nextSecret
  BY DEF Entry
<1> HIDE DEF new, entry
<1>3. TypeOK /\ LiveIdentities /\ LiveIdentities'
  BY DEF Inv
<1>4. s.token = 0 /\ s.handle < nextHandle
  BY <1>1 DEF Inv, Bookkeeping
<1>5. s.access \in Granted /\ s.access \in issued /\ s.access.epoch = epoch
  BY Zenon DEF HistoryInv, IdentitiesNeverReused, Granted
<1>6. Granted' = Granted /\ Sent' = Sent \cup {new}
  BY <1>1, <1>2, <1>5, Zenon DEF Granted, Sent
<1>7. \A t \in Sent : t.token # nextSecret
  <2>1. \A t \in Sent : t.token < nextSecret
    BY Zenon DEF HistoryInv, Drawn
  <2> QED
    BY <1>3, <2>1, HistoryTypes
<1>8. \A t \in Sent : t.access # s.access
  <2>1. \A t \in Sent : t.token # 0
    <3>1. \A t \in Sent : t.token > 0
      BY Zenon DEF HistoryInv, Drawn
    <3> QED
      BY <1>3, <3>1, HistoryTypes
  <2> QED
    BY <1>4, <2>1, Zenon DEF HistoryInv, Drawn
<1>9. \A t \in Sent : t.handle # s.handle /\ t.access.surface # s.access.surface
  <2>1. \A t \in Sent : t.access \in Granted
    BY Zenon DEF HistoryInv, Drawn, Sent, Granted
  <2> QED
    BY <1>5, <1>8, <2>1, Zenon DEF HistoryInv, IdentitiesNeverReused
<1>10. \A a \in Granted : a.lease < nextSecret /\ a.lease # nextSecret
  <2>1. \A a \in Granted : a.lease < nextSecret
    BY Zenon DEF HistoryInv, Drawn
  <2> QED
    BY <1>3, <2>1, HistoryTypes
<1>11. \A p \in surfaces' :
          p # entry => p \in surfaces /\ p.access # s.access /\ p.handle # s.handle
  <2>1. \A p \in surfaces : p.access = s.access \/ p.handle = s.handle => p = s
    BY DEF Inv, HandlesAgree, LiveIdentities
  <2> QED
    BY <1>1, <2>1
<1>12. Drawn'
  <2>1. \A a \in Granted : a.lease < nextSecret'
    BY <1>1, <1>3, <1>10, HistoryTypes
  <2>2. \A t \in Sent : t.token > 0 /\ t.token < nextSecret' /\ t.handle < nextHandle'
    <3>1. \A t \in Sent : t.token > 0 /\ t.token < nextSecret /\ t.handle < nextHandle
      BY Zenon DEF HistoryInv, Drawn
    <3> QED
      BY <1>1, <1>3, <3>1, HistoryTypes
  <2>3. new.token > 0 /\ new.token < nextSecret' /\ new.handle < nextHandle'
    BY <1>1, <1>2, <1>3, <1>4, HistoryTypes
  <2>4. \A p \in surfaces', t \in Sent' : p.access = t.access => p.token = t.token
    <3>1. \A p \in surfaces, t \in Sent : p.access = t.access => p.token = t.token
      BY Zenon DEF HistoryInv, Drawn
    <3> QED
      BY <1>2, <1>6, <1>8, <1>11, <3>1
  <2>5. \A t \in transfers' : t.access \in issued'
    BY <1>1, <1>2, <1>5, Zenon DEF HistoryInv, Drawn
  <2> QED
    BY <1>6, <2>1, <2>2, <2>3, <2>4, <2>5, Zenon DEF Drawn
<1>13. IdentitiesNeverReused'
  <2>1. \A t, u \in Sent' :
           t.access.surface = u.access.surface \/ t.handle = u.handle \/ t.token = u.token
               => t = u
    <3>1. \A t, u \in Sent :
             t.access.surface = u.access.surface \/ t.handle = u.handle \/ t.token = u.token
                 => t = u
      BY Zenon DEF HistoryInv, IdentitiesNeverReused
    <3>2. \A t \in Sent : /\ t.access.surface # new.access.surface
                          /\ t.handle # new.handle /\ t.token # new.token
      BY <1>2, <1>7, <1>9
    <3> QED
      BY <1>6, <3>1, <3>2
  <2>2. \A a \in Granted, t \in Sent' : a.lease # t.token
    BY <1>2, <1>6, <1>10, Zenon DEF HistoryInv, IdentitiesNeverReused
  <2>3. /\ \A p \in surfaces' : p.access \in Granted
        /\ \A r \in retired' : r.access \in Granted
    BY <1>1, <1>2, <1>5, <1>11, Zenon DEF HistoryInv, IdentitiesNeverReused
  <2>4. /\ \A p \in surfaces', r \in retired' : p.access # r.access
        /\ \A p, q \in surfaces' : p.access = q.access => p = q
    BY <1>3, Zenon DEF LiveIdentities
  <2>5. \A p \in surfaces', t \in Sent' : p.handle = t.handle => p.access = t.access
    <3>1. \A p \in surfaces, t \in Sent : p.handle = t.handle => p.access = t.access
      BY Zenon DEF HistoryInv, IdentitiesNeverReused
    <3> QED
      BY <1>2, <1>6, <1>9, <1>11, <3>1
  <2> QED
    BY <1>6, <2>1, <2>2, <2>3, <2>4, <2>5, Zenon DEF HistoryInv, IdentitiesNeverReused
<1> QED
  BY <1>12, <1>13 DEF HistoryInv

\* After a restart nothing has been handed out yet: all that was is of older epochs.
LEMMA RestartKeepsHistory ==
    ASSUME Inv, HistoryInv, NEW w \in Workers, NEW e \in Epochs, NEW r \in Renderers,
           Restart(w, e, r)
    PROVE  HistoryInv'
<1>1. /\ issued' = issued /\ transfers' = transfers /\ surfaces' = {} /\ retired' = {}
      /\ epoch' = e /\ e > epoch
  BY DEF Restart, clientVars
<1>2. \A a \in issued : a.epoch # e
  BY <1>1, HistoryTypes, ConstantType DEF Inv, AccessBounds
<1>3. \A t \in transfers : t.access \in issued
  BY DEF HistoryInv, Drawn
<1>4. Granted' = {} /\ Sent' = {}
  BY <1>1, <1>2, <1>3, Zenon DEF Granted, Sent
<1> QED
  BY <1>1, <1>3, <1>4, Zenon DEF HistoryInv, IdentitiesNeverReused, Drawn

\* Every call keeps the history sound.
LEMMA HistoryStep == Inv /\ Inv' /\ HistoryInv /\ [Next]_vars => HistoryInv'
<1> SUFFICES ASSUME Inv, Inv', HistoryInv, [Next]_vars PROVE HistoryInv'
  OBVIOUS
<1>1. LiveIdentities'
  BY DEF Inv
<1>2. ASSUME NEW S, NEW reason, Retire(S, reason), S \subseteq surfaces,
             UNCHANGED <<issued, transfers, epoch, nextHandle, nextSecret>>
      PROVE  HistoryInv'
  BY <1>1, <1>2, QuietKeepsHistory DEF Retire
<1>3. ASSUME NEW s \in surfaces, NEW p, surfaces' = (surfaces \ {s}) \cup {p},
             p.access = s.access, p.handle = s.handle, p.token = s.token,
             UNCHANGED <<issued, transfers, epoch, nextHandle, nextSecret, retired>>
      PROVE  HistoryInv'
  BY <1>1, <1>3, QuietKeepsHistory
<1>4. ASSUME UNCHANGED <<issued, transfers, epoch, nextHandle, nextSecret, retired, surfaces>>
      PROVE  HistoryInv'
  BY <1>1, <1>4, QuietKeepsHistory
<1> USE DEF identityVars, counterVars, clientVars
<1>5. ASSUME NEW session \in Sessions, NEW gen \in Generations, OpenSession(session, gen)
      PROVE  HistoryInv'
  BY <1>4, <1>5 DEF OpenSession
<1>6. ASSUME NEW access \in issued, NEW s \in surfaces, NEW pixels \in Pixels,
             WritePrivatePixels(access, s, pixels)
      PROVE  HistoryInv'
  <2> DEFINE p == Entry(s.access, s.plan, s.length, s.handle, "Complete", pixels, 0, 0)
  <2>1. s.token = 0
    BY <1>6 DEF WritePrivatePixels, Private, Inv, Bookkeeping
  <2>2. p.access = s.access /\ p.handle = s.handle /\ p.token = s.token
    BY <2>1 DEF Entry
  <2>3. /\ surfaces' = (surfaces \ {s}) \cup {p}
        /\ UNCHANGED <<issued, transfers, epoch, nextHandle, nextSecret, retired>>
    BY <1>6 DEF WritePrivatePixels
  <2> HIDE DEF p
  <2> QED
    BY <1>3, <2>2, <2>3
<1>7. ASSUME NEW access \in issued, NEW s \in surfaces, Publish(access, s)
      PROVE  HistoryInv'
  <2> DEFINE p == Entry(s.access, s.plan, s.length, s.handle, "Available", s.pixels,
                        now + LeaseTicks, 0)
  <2>1. s.token = 0
    BY <1>7 DEF Publish, Inv, Bookkeeping
  <2>2. p.access = s.access /\ p.handle = s.handle /\ p.token = s.token
    BY <2>1 DEF Entry
  <2>3. /\ surfaces' = (surfaces \ {s}) \cup {p}
        /\ UNCHANGED <<issued, transfers, epoch, nextHandle, nextSecret, retired>>
    BY <1>7 DEF Publish
  <2> HIDE DEF p
  <2> QED
    BY <1>3, <2>2, <2>3
<1>8. ASSUME NEW t \in transfers, NEW s \in surfaces, Import(t, s)
      PROVE  HistoryInv'
  <2> DEFINE p == Entry(s.access, s.plan, s.length, s.handle, "Imported", s.pixels,
                        s.deadline, s.token)
  <2>1. p.access = s.access /\ p.handle = s.handle /\ p.token = s.token
    BY DEF Entry
  <2>2. /\ surfaces' = (surfaces \ {s}) \cup {p}
        /\ UNCHANGED <<issued, transfers, epoch, nextHandle, nextSecret, retired>>
    BY <1>8 DEF Import
  <2> HIDE DEF p
  <2> QED
    BY <1>3, <2>1, <2>2
<1>9. ASSUME NEW access \in issued, NEW s \in surfaces, NEW reason,
             DiscardPrivate(access, s, reason) \/ Release(access, s)
      PROVE  HistoryInv'
  BY <1>2, <1>9 DEF DiscardPrivate, Release
<1>10. ASSUME NEW ticks \in Ticks, AdvanceClock(ticks)
       PROVE  HistoryInv'
  BY <1>2, <1>10 DEF AdvanceClock
<1>11. ASSUME NEW session \in Sessions, NEW gen \in Generations,
              ReplaceGeneration(session, gen)
       PROVE  HistoryInv'
  BY <1>2, <1>11 DEF ReplaceGeneration
<1>12. ASSUME NEW session \in Sessions, CloseSession(session)
       PROVE  HistoryInv'
  BY <1>2, <1>12 DEF CloseSession
<1>13. CASE UNCHANGED vars
  BY <1>4, <1>13 DEF vars
<1> QED
  BY <1>5, <1>6, <1>7, <1>8, <1>9, <1>10, <1>11, <1>12, <1>13,
     AllocateKeepsHistory, TransferKeepsHistory, RestartKeepsHistory DEF Next

\* In one worker epoch no surface identity, handle, lease or transfer token that a
\* client was handed is handed out again, for whatever a client did in between, and
\* no live surface is reached through the handle of another one's transfer.
THEOREM IdentitiesCorrect == Spec => []IdentitiesNeverReused
<1>1. Init => HistoryInv
  BY DEF Init, HistoryInv, IdentitiesNeverReused, Drawn, Granted, Sent
<1>2. HistoryInv => IdentitiesNeverReused
  BY DEF HistoryInv
<1> QED
  BY <1>1, <1>2, HistoryStep, Invariance, PTL DEF Spec
=============================================================================
