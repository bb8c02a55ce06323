----------------------- MODULE SurfaceOwnerInvariant ------------------------
(***************************************************************************)
(* The inductive invariant of the surface owner, and the lemmas that the    *)
(* proofs of its steps share.  The properties of SurfaceOwner need, besides *)
(* each other, that identities and tokens lie below their counters, and     *)
(* where the pixels of a surface came from.  Then one lemma for each step   *)
(* that fills, publishes, transfers or imports a surface.                   *)
(***************************************************************************)
EXTENDS SurfaceOwner, FiniteSetTheorems, TLAPS

\* Identities below their counters, and what the life of an entry implies for
\* its fields.
Bookkeeping ==
    /\ \A s \in surfaces :
          /\ s.handle < nextHandle
          /\ s.access.lease > 0
          /\ s.state # "Empty" => s.pixels # Blank
          /\ s.state \in {"Transferred", "Imported"} <=> s.token # 0
    /\ \A r \in retired : r.access.surface < nextSurface
    /\ \A r, q \in retired : r.access.surface = q.access.surface => r = q

\* A live surface has an identity of its own, which is not retired, and its lease and
\* token lie below the counter both are drawn from.
LiveIdentities ==
    /\ \A s \in surfaces, r \in retired : s.access.surface # r.access.surface
    /\ \A s, t \in surfaces :
          /\ s.access.surface = t.access.surface => s = t
          /\ s.access.lease # t.token
          /\ s.token = t.token /\ s.token # 0 => s = t
    /\ \A s \in surfaces :
          /\ s.access.surface < nextSurface
          /\ s.access.lease < nextSecret
          /\ s.token < nextSecret

\* What the consumers imported: nothing from a future epoch, and from a live
\* surface exactly its pixels.
Provenance ==
    /\ \A i \in imports :
          /\ i.access.epoch <= epoch
          /\ i.access.epoch = epoch => i.access.surface < nextSurface
    /\ \A i \in imports, s \in surfaces :
          i.access = s.access => s.state = "Imported" /\ s.pixels = i.pixels

\* The same for the accesses the producers were handed.
AccessBounds ==
    \A a \in issued :
        /\ a.epoch <= epoch
        /\ a.epoch = epoch => a.surface < nextSurface

Inv ==
    /\ TypeOK
    /\ IsFiniteSet(imports)
    /\ HandlesAgree
    /\ LiveIsCurrent
    /\ LiveIdentities
    /\ EveryReleaseIsAnswered
    /\ Bookkeeping
    /\ Provenance
    /\ AccessBounds
    /\ ImportedOnce

\* The assumptions as far as arithmetic needs them.
LEMMA ConstantType ==
    /\ CounterMax \in Nat /\ CounterMax >= 1
    /\ LeaseTicks \in Nat /\ LeaseTicks >= 1
    /\ Generations \subseteq Nat /\ 0 \notin Generations
    /\ Epochs \subseteq Nat
    /\ Ticks \subseteq Nat
    /\ Blank \notin Pixels
    /\ \A l \in Layouts : l.length \in Nat
<1>1. \A l \in Layouts : l.length \in Nat
  BY SurfaceAssumption
<1> QED
  BY <1>1, SurfaceAssumption

\* The fields of the entries and handles in the tables.
LEMMA FieldTypes ==
    ASSUME TypeOK
    PROVE  /\ \A s \in surfaces :
                 /\ s.access \in Accesses /\ s.plan \in PlanIdentities
                 /\ s.length \in Nat /\ s.handle \in Nat /\ s.state \in States
                 /\ s.pixels \in Pixels \cup {Blank} /\ s.deadline \in Nat
                 /\ s.token \in Nat
                 /\ s.access.surface \in Nat /\ s.access.lease \in Nat
                 /\ s.access.epoch \in Epochs /\ s.access.session \in Sessions
                 /\ s.plan.gen \in Generations
           /\ \A h \in handles :
                 /\ h.id \in Nat /\ h.surface \in Nat
                 /\ h.mode \in {"ReadWrite", "ReadOnly"}
                 /\ h.token \in Nat /\ h.imported \in BOOLEAN
           /\ \A r \in retired : r.access \in Accesses /\ r.access.surface \in Nat
           /\ \A i \in imports :
                 /\ i.access \in Accesses /\ i.access.surface \in Nat
                 /\ i.access.epoch \in Epochs
           /\ \A a \in issued : a.surface \in Nat /\ a.epoch \in Epochs
<1>1. \A a \in Accesses : /\ a.surface \in Nat /\ a.lease \in Nat /\ a.epoch \in Epochs
                          /\ a.session \in Sessions
  BY DEF Accesses
<1>2. \A p \in PlanIdentities : p.gen \in Generations
  BY DEF PlanIdentities
<1>3. \A s \in surfaces :
         /\ s.access \in Accesses /\ s.plan \in PlanIdentities
         /\ s.length \in Nat /\ s.handle \in Nat /\ s.state \in States
         /\ s.pixels \in Pixels \cup {Blank} /\ s.deadline \in Nat
         /\ s.token \in Nat
  BY DEF TypeOK, SurfaceEntries
<1>4. \A h \in handles :
         /\ h.id \in Nat /\ h.surface \in Nat
         /\ h.mode \in {"ReadWrite", "ReadOnly"}
         /\ h.token \in Nat /\ h.imported \in BOOLEAN
  BY DEF TypeOK, HandleRecords
<1>5. \A r \in retired : r.access \in Accesses
  BY DEF TypeOK
<1>6. \A i \in imports : i.access \in Accesses
  BY DEF TypeOK, Imports
<1>7. \A a \in issued : a \in Accesses
  BY DEF TypeOK
<1> QED
  BY <1>1, <1>2, <1>3, <1>4, <1>5, <1>6, <1>7

-----------------------------------------------------------------------------
(* Retirement: what discard_private, release, advance_clock,               *)
(* replace_generation and close_session have in common.                    *)

\* Removing surfaces together with their handles and recording each keeps every
\* part of the invariant that does not mention the clock or the sessions.
LEMMA RetireKeeps ==
    ASSUME Inv, NEW S \in SUBSET surfaces, NEW reason \in [surfaces -> Reasons],
           Retire(S, reason),
           UNCHANGED <<identityVars, counterVars, clientVars>>
    PROVE  /\ surfaces' \subseteq SurfaceEntries
           /\ handles' \subseteq HandleRecords
           /\ retired' \subseteq [access : Accesses, reason : Reasons]
           /\ IsFiniteSet(imports')
           /\ HandlesAgree'
           /\ LiveIdentities'
           /\ EveryReleaseIsAnswered'
           /\ Bookkeeping'
           /\ Provenance'
           /\ AccessBounds'
           /\ ImportedOnce'
<1> USE FieldTypes DEF Inv
<1>1. /\ surfaces' = surfaces \ S
      /\ handles' = {h \in handles : \A s \in S : h.id # s.handle}
      /\ retired' = retired \cup {[access |-> s.access, reason |-> reason[s]] : s \in S}
  BY DEF Retire
<1>2. /\ worker' = worker /\ epoch' = epoch /\ nextSurface' = nextSurface
      /\ nextHandle' = nextHandle /\ nextSecret' = nextSecret
      /\ issued' = issued /\ imports' = imports
  BY DEF identityVars, counterVars, clientVars
<1>3. \A r \in retired' :
         \/ r \in retired
         \/ \E s \in S : r = [access |-> s.access, reason |-> reason[s]]
  BY <1>1
<1>4. /\ surfaces' \subseteq SurfaceEntries /\ handles' \subseteq HandleRecords
  BY <1>1 DEF TypeOK
<1>5. retired' \subseteq [access : Accesses, reason : Reasons]
  <2>1. \A s \in S : [access |-> s.access, reason |-> reason[s]]
                          \in [access : Accesses, reason : Reasons]
    OBVIOUS
  <2> QED
    BY <1>1, <2>1 DEF TypeOK
<1>6. HandlesAgree'
  <2>1. \A s \in surfaces' : \E h \in handles' :
           /\ h.id = s.handle
           /\ h.surface = s.access.surface
           /\ h.mode = "ReadWrite" <=> s.state \in Private
           /\ h.token = s.token
           /\ h.imported <=> s.state = "Imported"
    BY <1>1 DEF HandlesAgree
  <2>2. \A h \in handles' : \E s \in surfaces' : s.handle = h.id
    BY <1>1 DEF HandlesAgree
  <2> QED
    BY <1>1, <2>1, <2>2 DEF HandlesAgree
<1>7. LiveIdentities'
  BY <1>1, <1>2, <1>3 DEF LiveIdentities
<1>8. EveryReleaseIsAnswered'
  <2> SUFFICES ASSUME NEW a \in issued, a.worker = worker, a.epoch = epoch
               PROVE  \/ \E s \in surfaces' : s.access = a
                      \/ \E r \in retired' : r.access = a
    BY <1>2 DEF EveryReleaseIsAnswered
  <2>1. CASE \E s \in surfaces : s.access = a
    <3>1. PICK s \in surfaces : s.access = a
      BY <2>1
    <3>2. CASE s \in S
      <4>1. [access |-> s.access, reason |-> reason[s]] \in retired'
        BY <1>1, <3>2
      <4> QED
        BY <3>1, <4>1
    <3> QED
      BY <1>1, <3>1, <3>2
  <2>2. CASE \E r \in retired : r.access = a
    BY <1>1, <2>2
  <2> QED
    BY <2>1, <2>2 DEF EveryReleaseIsAnswered
<1>9. Bookkeeping'
  <2>1. \A s \in surfaces' :
           /\ s.handle < nextHandle
           /\ s.access.lease > 0
           /\ s.state # "Empty" => s.pixels # Blank
           /\ s.state \in {"Transferred", "Imported"} <=> s.token # 0
    BY <1>1 DEF Bookkeeping
  <2>2. \A r \in retired' : r.access.surface < nextSurface
    BY <1>3 DEF Bookkeeping, LiveIdentities
  <2>3. \A r, q \in retired' : r.access.surface = q.access.surface => r = q
    BY <1>3 DEF Bookkeeping, LiveIdentities
  <2> QED
    BY <1>2, <2>1, <2>2, <2>3 DEF Bookkeeping
<1>10. Provenance' /\ AccessBounds' /\ ImportedOnce'
  BY <1>1, <1>2 DEF Provenance, AccessBounds, ImportedOnce
<1> QED
  BY <1>2, <1>4, <1>5, <1>6, <1>7, <1>8, <1>9, <1>10

-----------------------------------------------------------------------------
(* Progress of one live surface: write, publish, transfer and import.      *)

\* Replacing a live entry and its handle by later forms of the same surface keeps
\* the tables, when the new token is the old one or fresh.
LEMMA AdvanceKeeps ==
    ASSUME Inv, NEW s \in surfaces, NEW e \in SurfaceEntries,
           NEW h \in handles, h.id = s.handle, NEW k \in HandleRecords,
           e.access = s.access, e.plan = s.plan, e.handle = s.handle,
           k.id = h.id, k.surface = h.surface,
           k.mode = "ReadWrite" <=> e.state \in Private,
           k.token = e.token,
           k.imported <=> e.state = "Imported",
           e.state # "Empty" => e.pixels # Blank,
           e.state \in {"Transferred", "Imported"} <=> e.token # 0,
           \/ e.token = s.token /\ nextSecret' = nextSecret
           \/ e.token = nextSecret /\ nextSecret' = nextSecret + 1,
           e.state \notin Private => e.deadline > now,
           surfaces' = (surfaces \ {s}) \cup {e},
           handles' = (handles \ {h}) \cup {k},
           UNCHANGED <<identityVars, now, nextSurface, nextHandle, sessionVars, retired,
                       issued>>
    PROVE  /\ surfaces' \subseteq SurfaceEntries
           /\ handles' \subseteq HandleRecords
           /\ HandlesAgree'
           /\ LiveIsCurrent'
           /\ LiveIdentities'
           /\ EveryReleaseIsAnswered'
           /\ Bookkeeping'
           /\ AccessBounds'
<1> USE FieldTypes DEF Inv
<1>1. /\ worker' = worker /\ epoch' = epoch /\ renderer' = renderer /\ now' = now
      /\ nextSurface' = nextSurface /\ nextHandle' = nextHandle
      /\ sessionState' = sessionState /\ sessionGen' = sessionGen
      /\ retired' = retired /\ issued' = issued
  BY DEF identityVars, sessionVars
<1>2. e.token \in Nat /\ e.handle \in Nat /\ e.state \in States /\ k.imported \in BOOLEAN
  BY DEF SurfaceEntries, HandleRecords
<1>3. surfaces' \subseteq SurfaceEntries /\ handles' \subseteq HandleRecords
  BY DEF TypeOK
<1>4. h.surface = s.access.surface
  BY DEF HandlesAgree
<1>5. HandlesAgree'
  <2>1. \A x \in surfaces' : \E g \in handles' :
           /\ g.id = x.handle
           /\ g.surface = x.access.surface
           /\ g.mode = "ReadWrite" <=> x.state \in Private
           /\ g.token = x.token
           /\ g.imported <=> x.state = "Imported"
    <3> SUFFICES ASSUME NEW x \in surfaces'
                 PROVE  \E g \in handles' :
                           /\ g.id = x.handle
                           /\ g.surface = x.access.surface
                           /\ g.mode = "ReadWrite" <=> x.state \in Private
                           /\ g.token = x.token
                           /\ g.imported <=> x.state = "Imported"
      OBVIOUS
    <3>1. CASE x = e
      <4>1. k \in handles'
        OBVIOUS
      <4>2. k.id = x.handle /\ k.surface = x.access.surface
        BY <1>4, <3>1
      <4> QED
        BY <3>1, <4>1, <4>2
    <3>2. CASE x # e
      <4>1. x \in surfaces /\ x # s
        BY <3>2
      <4>2. x.handle # s.handle
        BY <4>1 DEF HandlesAgree
      <4>3. PICK g \in handles :
               /\ g.id = x.handle
               /\ g.surface = x.access.surface
               /\ g.mode = "ReadWrite" <=> x.state \in Private
               /\ g.token = x.token
               /\ g.imported <=> x.state = "Imported"
        BY <4>1 DEF HandlesAgree
      <4>4. g \in handles'
        BY <4>2, <4>3
      <4> QED
        BY <4>3, <4>4
    <3> QED
      BY <3>1, <3>2
  <2>2. \A x, y \in surfaces' : x.handle = y.handle => x = y
    BY DEF HandlesAgree
  <2>3. \A g \in handles' : \E x \in surfaces' : x.handle = g.id
    BY DEF HandlesAgree
  <2>4. \A g, j \in handles' : g.id = j.id => g = j
    BY DEF HandlesAgree
  <2> QED
    BY <2>1, <2>2, <2>3, <2>4 DEF HandlesAgree
<1>6. LiveIsCurrent'
  BY <1>1 DEF LiveIsCurrent, PlanIsCurrent
<1>7. LiveIdentities'
  <2>1. \A x \in surfaces', r \in retired' : x.access.surface # r.access.surface
    BY <1>1 DEF LiveIdentities
  <2>2. \A x, y \in surfaces' : x.access.surface = y.access.surface => x = y
    BY DEF LiveIdentities
  <2>3. nextSecret \in Nat /\ nextSecret > 0 /\ nextSecret' >= nextSecret
    BY ConstantType DEF TypeOK
  <2>4. \A x \in surfaces' : /\ x.access.surface < nextSurface'
                             /\ x.access.lease < nextSecret'
                             /\ x.token < nextSecret'
    BY <1>1, <1>2, <2>3 DEF LiveIdentities
  <2>5. \A x, y \in surfaces' : x.access.lease # y.token
    BY <1>2, <2>3 DEF LiveIdentities
  <2>6. \A x, y \in surfaces' : x.token = y.token /\ x.token # 0 => x = y
    BY <1>2, <2>3 DEF LiveIdentities
  <2> QED
    BY <2>1, <2>2, <2>4, <2>5, <2>6 DEF LiveIdentities
<1>8. EveryReleaseIsAnswered'
  BY <1>1 DEF EveryReleaseIsAnswered
<1>9. Bookkeeping'
  BY <1>1 DEF Bookkeeping
<1>10. AccessBounds'
  BY <1>1 DEF AccessBounds
<1> QED
  BY <1>3, <1>5, <1>6, <1>7, <1>8, <1>9, <1>10

\* An unfinished surface has not been imported: its import is still ahead.
LEMMA NotYetImported ==
    ASSUME Inv, NEW s \in surfaces, s.state # "Imported",
           NEW e, e.access = s.access, surfaces' = (surfaces \ {s}) \cup {e},
           imports' = imports, epoch' = epoch, nextSurface' = nextSurface
    PROVE  Provenance' /\ ImportedOnce'
  BY DEF Inv, Provenance, ImportedOnce

\* The handle of a live surface agrees with it.
LEMMA OwnHandle ==
    ASSUME Inv, NEW s \in surfaces, NEW h \in handles, h.id = s.handle
    PROVE  /\ h.surface = s.access.surface
           /\ h.mode = "ReadWrite" <=> s.state \in Private
           /\ h.token = s.token
           /\ h.imported <=> s.state = "Imported"
  BY DEF Inv, HandlesAgree

-----------------------------------------------------------------------------
(* The steps that fill, publish, transfer and import a surface.            *)

\* write_private_pixels keeps the invariant.
LEMMA WriteKeepsInv ==
    ASSUME Inv, NEW access \in issued, NEW s \in surfaces, NEW pixels \in Pixels,
           WritePrivatePixels(access, s, pixels)
    PROVE  Inv'
<1> DEFINE e == Entry(s.access, s.plan, s.length, s.handle, "Complete", pixels, 0, 0)
<1> USE FieldTypes, ConstantType
<1>0. TypeOK
  BY DEF Inv
<1>1. /\ s.state \in Private /\ surfaces' = (surfaces \ {s}) \cup {e}
      /\ handles' = handles
      /\ UNCHANGED <<identityVars, now, nextSurface, nextHandle, nextSecret, sessionVars,
                     retired, issued, transfers, imports>>
  BY DEF WritePrivatePixels, counterVars, clientVars
<1>2. /\ e \in SurfaceEntries /\ e.access = s.access /\ e.plan = s.plan
      /\ e.handle = s.handle /\ e.state = "Complete" /\ e.pixels = pixels /\ e.token = 0
  BY <1>0 DEF Entry, SurfaceEntries, States
<1> HIDE DEF e
<1>3. PICK h \in handles : h.id = s.handle
  BY DEF Inv, HandlesAgree
<1>4. s.token = 0 /\ s.state # "Imported"
  BY <1>1 DEF Inv, Bookkeeping, Private
<1>5. /\ h.mode = "ReadWrite" <=> e.state \in Private
      /\ h.token = e.token
      /\ h.imported <=> e.state = "Imported"
  BY <1>1, <1>2, <1>3, <1>4, OwnHandle DEF Private
<1>6. h \in HandleRecords /\ handles' = (handles \ {h}) \cup {h}
  BY <1>0, <1>1 DEF TypeOK
<1>7. e.state \in Private /\ e.state \notin {"Transferred", "Imported"}
  BY <1>2 DEF Private
<1>8. /\ surfaces' \subseteq SurfaceEntries
      /\ handles' \subseteq HandleRecords
      /\ HandlesAgree' /\ LiveIsCurrent' /\ LiveIdentities'
      /\ EveryReleaseIsAnswered' /\ Bookkeeping' /\ AccessBounds'
  BY <1>1, <1>2, <1>3, <1>4, <1>5, <1>6, <1>7, AdvanceKeeps
<1>9. Provenance' /\ ImportedOnce'
  BY <1>1, <1>2, <1>4, NotYetImported DEF identityVars
<1>10. TypeOK'
  BY <1>0, <1>1, <1>8 DEF TypeOK, identityVars, sessionVars
<1>11. IsFiniteSet(imports')
  BY <1>1 DEF Inv
<1> QED
  BY <1>8, <1>9, <1>10, <1>11 DEF Inv

\* publish keeps the invariant.
LEMMA PublishKeepsInv ==
    ASSUME Inv, NEW access \in issued, NEW s \in surfaces, Publish(access, s)
    PROVE  Inv'
<1> DEFINE e == Entry(s.access, s.plan, s.length, s.handle, "Available", s.pixels,
                      now + LeaseTicks, 0)
           k(h) == Handle(h.id, h.surface, "ReadOnly", h.token, h.imported)
<1> USE FieldTypes, ConstantType
<1>0. TypeOK /\ now \in Nat
  BY DEF Inv, TypeOK
<1>1. /\ s.state = "Complete" /\ surfaces' = (surfaces \ {s}) \cup {e}
      /\ UNCHANGED <<identityVars, now, nextSurface, nextHandle, nextSecret, sessionVars,
                     retired, issued, transfers, imports>>
  BY DEF Publish, counterVars, clientVars
<1>2. PICK h \in handles : h.id = s.handle /\ handles' = (handles \ {h}) \cup {k(h)}
  BY DEF Publish
<1>3. /\ e \in SurfaceEntries /\ e.access = s.access /\ e.plan = s.plan
      /\ e.handle = s.handle /\ e.state = "Available" /\ e.pixels = s.pixels
      /\ e.token = 0 /\ e.deadline = now + LeaseTicks
  BY <1>0 DEF Entry, SurfaceEntries, States
<1>4. s.token = 0 /\ s.state # "Imported" /\ s.pixels # Blank
  BY <1>1 DEF Inv, Bookkeeping
<1>5. /\ k(h) \in HandleRecords /\ k(h).id = h.id /\ k(h).surface = h.surface
      /\ k(h).mode = "ReadOnly" /\ k(h).token = h.token /\ k(h).imported = h.imported
  BY <1>0 DEF Handle, HandleRecords
<1>6. h.token = 0 /\ ~ h.imported
  BY <1>2, <1>4, OwnHandle
<1> HIDE DEF e, k
<1>7. /\ k(h).mode = "ReadWrite" <=> e.state \in Private
      /\ k(h).token = e.token
      /\ k(h).imported <=> e.state = "Imported"
      /\ e.state \notin {"Transferred", "Imported"}
      /\ e.deadline > now
  BY <1>0, <1>3, <1>5, <1>6 DEF Private
<1>8. /\ surfaces' \subseteq SurfaceEntries
      /\ handles' \subseteq HandleRecords
      /\ HandlesAgree' /\ LiveIsCurrent' /\ LiveIdentities'
      /\ EveryReleaseIsAnswered' /\ Bookkeeping' /\ AccessBounds'
  BY <1>1, <1>2, <1>3, <1>4, <1>5, <1>7, AdvanceKeeps
<1>9. Provenance' /\ ImportedOnce'
  BY <1>1, <1>3, <1>4, NotYetImported DEF identityVars
<1>10. TypeOK'
  BY <1>0, <1>1, <1>8 DEF TypeOK, identityVars, sessionVars
<1>11. IsFiniteSet(imports')
  BY <1>1 DEF Inv
<1> QED
  BY <1>8, <1>9, <1>10, <1>11 DEF Inv

\* transfer keeps the invariant: its token is fresh.
LEMMA TransferKeepsInv ==
    ASSUME Inv, NEW access \in issued, NEW s \in surfaces, Transfer(access, s)
    PROVE  Inv'
<1> DEFINE e == Entry(s.access, s.plan, s.length, s.handle, "Transferred", s.pixels,
                      s.deadline, nextSecret)
           k(h) == Handle(h.id, h.surface, "ReadOnly", nextSecret, h.imported)
           x == [access |-> s.access, plan |-> s.plan, handle |-> s.handle,
                 token |-> nextSecret]
<1> USE FieldTypes, ConstantType
<1>0. TypeOK /\ nextSecret \in Nat /\ nextSecret > 0
  BY DEF Inv, TypeOK
<1>1. /\ s.state = "Available" /\ surfaces' = (surfaces \ {s}) \cup {e}
      /\ transfers' = transfers \cup {x}
      /\ nextSecret < CounterMax /\ nextSecret' = nextSecret + 1
      /\ UNCHANGED <<identityVars, now, nextSurface, nextHandle, sessionVars, retired,
                     issued, imports>>
  BY DEF Transfer
<1>2. PICK h \in handles : h.id = s.handle /\ handles' = (handles \ {h}) \cup {k(h)}
  BY DEF Transfer
<1>3. /\ e \in SurfaceEntries /\ e.access = s.access /\ e.plan = s.plan
      /\ e.handle = s.handle /\ e.state = "Transferred" /\ e.pixels = s.pixels
      /\ e.token = nextSecret /\ e.deadline = s.deadline
  BY <1>0 DEF Entry, SurfaceEntries, States
<1>4. s.state # "Imported" /\ s.pixels # Blank /\ s.deadline > now
  BY <1>1 DEF Inv, Bookkeeping, LiveIsCurrent, Private
<1>5. /\ k(h) \in HandleRecords /\ k(h).id = h.id /\ k(h).surface = h.surface
      /\ k(h).mode = "ReadOnly" /\ k(h).token = nextSecret
      /\ k(h).imported = h.imported
  BY <1>0 DEF Handle, HandleRecords
<1>6. ~ h.imported
  BY <1>2, <1>4, OwnHandle
<1>7. x \in Transfers
  BY <1>0 DEF Transfers
<1> HIDE DEF e, k, x
<1>8. /\ k(h).mode = "ReadWrite" <=> e.state \in Private
      /\ k(h).token = e.token
      /\ k(h).imported <=> e.state = "Imported"
      /\ e.state \in {"Transferred", "Imported"}
      /\ e.token # 0
      /\ e.deadline > now
  BY <1>0, <1>3, <1>4, <1>5, <1>6 DEF Private
<1>9. /\ surfaces' \subseteq SurfaceEntries
      /\ handles' \subseteq HandleRecords
      /\ HandlesAgree' /\ LiveIsCurrent' /\ LiveIdentities'
      /\ EveryReleaseIsAnswered' /\ Bookkeeping' /\ AccessBounds'
  BY <1>1, <1>2, <1>3, <1>4, <1>5, <1>8, AdvanceKeeps
<1>10. Provenance' /\ ImportedOnce'
  BY <1>1, <1>3, <1>4, NotYetImported DEF identityVars
<1>11. TypeOK'
  BY <1>0, <1>1, <1>7, <1>9 DEF TypeOK, identityVars, sessionVars
<1>12. IsFiniteSet(imports')
  BY <1>1 DEF Inv
<1> QED
  BY <1>9, <1>10, <1>11, <1>12 DEF Inv

\* import keeps the invariant: the surface was transferred, so nobody has imported
\* it before, and its pixels are those the consumer sees from now on.
LEMMA ImportKeepsInv ==
    ASSUME Inv, NEW t \in transfers, NEW s \in surfaces, Import(t, s)
    PROVE  Inv'
<1> DEFINE e == Entry(s.access, s.plan, s.length, s.handle, "Imported", s.pixels,
                      s.deadline, s.token)
           k(h) == Handle(h.id, h.surface, h.mode, h.token, TRUE)
           x == [access |-> s.access, handle |-> s.handle, token |-> s.token,
                 pixels |-> s.pixels, nth |-> Cardinality(imports) + 1]
<1>0. /\ TypeOK /\ epoch \in Nat /\ now \in Nat
      /\ s.access \in Accesses /\ s.plan \in PlanIdentities /\ s.length \in Nat
      /\ s.handle \in Nat /\ s.pixels \in Pixels \cup {Blank} /\ s.deadline \in Nat
      /\ s.token \in Nat
  <2>1. TypeOK /\ epoch \in Nat /\ now \in Nat
    BY ConstantType DEF Inv, TypeOK
  <2> QED
    BY <2>1, FieldTypes
<1>1. /\ s.state = "Transferred" /\ surfaces' = (surfaces \ {s}) \cup {e}
      /\ imports' = imports \cup {x}
      /\ UNCHANGED <<identityVars, now, nextSurface, nextHandle, nextSecret, sessionVars,
                     retired, issued, transfers>>
  BY DEF Import, CanImport, counterVars
<1>2. PICK h \in handles : /\ h.id = s.handle /\ h.mode = "ReadOnly"
                            /\ handles' = (handles \ {h}) \cup {k(h)}
  BY ZenonT(60) DEF Import
<1>3. /\ e \in SurfaceEntries /\ e.access = s.access /\ e.plan = s.plan
      /\ e.handle = s.handle /\ e.state = "Imported" /\ e.pixels = s.pixels
      /\ e.token = s.token /\ e.deadline = s.deadline
  BY <1>0 DEF Entry, SurfaceEntries, States
<1>4. s.pixels # Blank /\ s.deadline > now /\ s.token # 0
  BY <1>1 DEF Inv, Bookkeeping, LiveIsCurrent, Private
<1>5. /\ k(h) \in HandleRecords /\ k(h).id = h.id /\ k(h).surface = h.surface
      /\ k(h).mode = "ReadOnly" /\ k(h).token = h.token /\ k(h).imported
  <2>1. /\ h.id \in Nat /\ h.surface \in Nat /\ h.token \in Nat
    BY <1>0, FieldTypes
  <2> QED
    BY <1>2, <2>1 DEF Handle, HandleRecords
<1>6. h.token = s.token
  BY <1>2, OwnHandle
<1>7. x \in Imports /\ IsFiniteSet(imports')
  <2>1. Cardinality(imports) \in Nat
    BY FS_CardinalityType DEF Inv
  <2>2. IsFiniteSet(imports')
    BY <1>1, FS_AddElement, ZenonT(60) DEF Inv
  <2>3. Cardinality(imports) + 1 \in Nat
    BY <2>1
  <2>4. x \in Imports
    BY <1>0, <2>3 DEF Imports
  <2> QED
    BY <2>2, <2>4
<1>8. x.access = s.access /\ x.pixels = s.pixels
  OBVIOUS
<1> HIDE DEF e, k, x
<1>9. /\ k(h).mode = "ReadWrite" <=> e.state \in Private
      /\ k(h).token = e.token
      /\ k(h).imported <=> e.state = "Imported"
      /\ e.state \in {"Transferred", "Imported"}
      /\ e.deadline > now
  BY <1>0, <1>3, <1>4, <1>5, <1>6 DEF Private
<1>10. /\ surfaces' \subseteq SurfaceEntries
       /\ handles' \subseteq HandleRecords
       /\ HandlesAgree' /\ LiveIsCurrent' /\ LiveIdentities'
       /\ EveryReleaseIsAnswered' /\ Bookkeeping' /\ AccessBounds'
  BY <1>1, <1>2, <1>3, <1>4, <1>5, <1>9, AdvanceKeeps
<1>11. \A i \in imports : i.access # s.access
  BY <1>1 DEF Inv, Provenance
<1>12. ImportedOnce'
  BY <1>1, <1>8, <1>11 DEF Inv, ImportedOnce
<1>13. Provenance'
  <2>1. epoch' = epoch /\ nextSurface' = nextSurface /\ epoch \in Nat
    BY <1>0, <1>1 DEF identityVars
  <2>2. s.access.epoch = epoch /\ s.access.surface < nextSurface
    BY DEF Inv, LiveIsCurrent, LiveIdentities
  <2>3. \A i \in imports' : /\ i.access.epoch <= epoch
                            /\ i.access.epoch = epoch => i.access.surface < nextSurface
    <3>1. \A i \in imports : /\ i.access.epoch <= epoch
                             /\ i.access.epoch = epoch => i.access.surface < nextSurface
      BY DEF Inv, Provenance
    <3>2. x.access.epoch <= epoch /\ x.access.surface < nextSurface
      BY <1>8, <2>1, <2>2
    <3> QED
      BY <1>1, <3>1, <3>2
  <2>4. \A i \in imports', y \in surfaces' :
           i.access = y.access => y.state = "Imported" /\ y.pixels = i.pixels
    <3>1. \A y \in surfaces : y.access = s.access => y = s
      BY DEF Inv, LiveIdentities
    <3>2. \A i \in imports, y \in surfaces :
             i.access = y.access => y.state = "Imported" /\ y.pixels = i.pixels
      BY DEF Inv, Provenance
    <3> QED
      BY <1>1, <1>3, <1>8, <1>11, <3>1, <3>2
  <2> QED
    BY <2>1, <2>3, <2>4 DEF Provenance
<1>14. TypeOK'
  BY <1>0, <1>1, <1>7, <1>10 DEF TypeOK, identityVars, sessionVars
<1> QED
  BY <1>7, <1>10, <1>12, <1>13, <1>14 DEF Inv

\* open_session keeps the invariant: nothing is live under a session not yet known.
LEMMA OpenKeepsInv ==
    ASSUME Inv, NEW session \in Sessions, NEW gen \in Generations,
           OpenSession(session, gen)
    PROVE  Inv'
<1>1. /\ sessionState[session] = "Unknown"
      /\ sessionState' = [sessionState EXCEPT ![session] = "Active"]
      /\ sessionGen' = [sessionGen EXCEPT ![session] = gen]
      /\ UNCHANGED <<worker, epoch, renderer, now, nextSurface, nextHandle, nextSecret,
                     surfaces, handles, retired, issued, transfers, imports>>
  BY DEF OpenSession, identityVars, counterVars, clientVars
<1>2. TypeOK'
  BY <1>1 DEF Inv, TypeOK
<1>3. LiveIsCurrent'
  BY <1>1 DEF Inv, LiveIsCurrent, PlanIsCurrent, TypeOK
<1>4. HandlesAgree' /\ IsFiniteSet(imports')
  BY <1>1, ZenonT(60) DEF Inv, HandlesAgree
<1>5. LiveIdentities' /\ EveryReleaseIsAnswered'
  BY <1>1, ZenonT(60) DEF Inv, LiveIdentities, EveryReleaseIsAnswered
<1>6. Bookkeeping' /\ Provenance' /\ AccessBounds' /\ ImportedOnce'
  BY <1>1 DEF Inv, Bookkeeping, Provenance, AccessBounds, ImportedOnce
<1> QED
  BY <1>2, <1>3, <1>4, <1>5, <1>6 DEF Inv

-----------------------------------------------------------------------------
(* Creating and retiring surfaces.                                         *)
=============================================================================
