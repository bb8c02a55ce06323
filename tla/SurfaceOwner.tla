---------------------------- MODULE SurfaceOwner ----------------------------
(***************************************************************************)
(* The surface owner of runtime/surface (owner.rs): one worker's table of  *)
(* pixel surfaces, from private storage over publication, one transfer and *)
(* one import to retirement, through lease expiry, viewport generations,   *)
(* session close and worker restart.                                       *)
(*                                                                         *)
(* Producers and consumers keep what they were handed: every access,       *)
(* transfer and import ever issued may be presented again at any time,     *)
(* also to a later worker epoch, whose identities and tokens start over.   *)
(* A rejected call changes nothing and is a stuttering step.               *)
(***************************************************************************)
EXTENDS Naturals, FiniteSets, FiniteSetsExt

CONSTANTS
    Sessions,           \* SessionId values
    Generations,        \* nonzero viewport generations
    Plans,              \* plan identities of one generation and renderer
    Layouts,            \* width, height, stride, offset and region length
    Pixels,             \* contents a producer may write
    Workers, Epochs, Renderers,
    Ticks,              \* arguments of advance_clock
    MaxSessions, MaxLiveSurfaces, MaxHandles, MaxSurfaceIds, MaxTotalBytes,
    LeaseTicks,
    MaxDimension, MaxStride, MaxSurfaceBytes,
    CounterMax,         \* u64::MAX
    Blank               \* zero-initialised storage

\* SurfaceLimits::new, and the types of the inputs.
ASSUME SurfaceAssumption ==
    /\ MaxSessions \in Nat \ {0}
    /\ MaxLiveSurfaces \in Nat \ {0}
    /\ MaxHandles \in Nat \ {0}
    /\ MaxSurfaceIds \in Nat \ {0}
    /\ MaxTotalBytes \in Nat \ {0}
    /\ LeaseTicks \in Nat \ {0}
    /\ CounterMax \in Nat \ {0}
    /\ Generations \subseteq Nat \ {0}
    /\ Epochs \subseteq Nat \ {0}
    /\ Ticks \subseteq Nat
    /\ Workers # {} /\ Epochs # {} /\ Renderers # {}
    /\ Blank \notin Pixels
    /\ Layouts \subseteq [width : Nat, height : Nat, stride : Nat, offset : Nat,
                          length : Nat]

VARIABLES
    worker, epoch, renderer,        \* identity of the running worker
    now,                            \* virtual clock
    nextSurface, nextHandle, nextSecret,
    sessionState, sessionGen,       \* SessionState, and Active's generation
    surfaces,                       \* live SurfaceEntry records
    handles,                        \* HandleRecord table
    retired,                        \* RetiredRecord table
    issued, transfers, imports      \* history: what the clients were handed

identityVars == <<worker, epoch, renderer>>
counterVars == <<nextSurface, nextHandle, nextSecret>>
sessionVars == <<sessionState, sessionGen>>
clientVars == <<issued, transfers, imports>>
vars == <<identityVars, now, counterVars, sessionVars, surfaces, handles, retired,
          clientVars>>

Accesses == [worker : Workers, epoch : Epochs, session : Sessions, surface : Nat,
             lease : Nat]
PlanIdentities == [gen : Generations, renderer : Renderers, plan : Plans]

States == {"Empty", "Complete", "Available", "Transferred", "Imported"}
Private == {"Empty", "Complete"}

SurfaceEntries ==
    [access : Accesses, plan : PlanIdentities, length : Nat, handle : Nat,
     state : States, pixels : Pixels \cup {Blank}, deadline : Nat, token : Nat]

HandleRecords ==
    [id : Nat, surface : Nat, mode : {"ReadWrite", "ReadOnly"}, token : Nat,
     imported : BOOLEAN]

Reasons == {"Cancelled", "Failed", "StaleGeneration", "GenerationReplaced",
            "LeaseExpired", "SessionClosed", "ReleasedByHost"}

Transfers == [access : Accesses, plan : PlanIdentities, handle : Nat, token : Nat]
Imports == [access : Accesses, handle : Nat, token : Nat, pixels : Pixels \cup {Blank},
            nth : Nat]

Entry(access, plan, length, handle, state, pixels, deadline, token) ==
    [access |-> access, plan |-> plan, length |-> length, handle |-> handle,
     state |-> state, pixels |-> pixels, deadline |-> deadline, token |-> token]

Handle(id, surface, mode, token, imported) ==
    [id |-> id, surface |-> surface, mode |-> mode, token |-> token,
     imported |-> imported]

-----------------------------------------------------------------------------
(* Validation.                                                             *)

\* layout_for
LayoutOK(l) ==
    /\ l.width \in 1..MaxDimension
    /\ l.height \in 1..MaxDimension
    /\ l.stride >= 4 * l.width
    /\ l.stride % 4 = 0
    /\ l.stride <= MaxStride
    /\ l.stride * l.height <= MaxSurfaceBytes
    /\ l.length \in 1..MaxSurfaceBytes
    /\ l.offset + l.stride * l.height <= l.length

\* validate_allocation and validate_consumer_context: the session is active at
\* the plan's generation and the plan is of the running renderer.
PlanIsCurrent(session, plan) ==
    /\ sessionState[session] = "Active"
    /\ plan.gen = sessionGen[session]
    /\ plan.renderer = renderer

\* Mutant of Opens: the worker epoch is not compared.
OpensAnyEpoch(access, s) ==
    /\ access.worker = worker
    /\ s.access.surface = access.surface
    /\ s.access.session = access.session
    /\ s.access.lease = access.lease

\* validate_owner_access, and validate_entry_access of the entry it finds
Opens(access, s) ==
    /\ access.worker = worker
    /\ access.epoch = epoch
    /\ s.access = access

TotalBytes == MapThenSumSet(LAMBDA s : s.length, surfaces)

\* Mutant of Retire: the retirement is not recorded.
RetireForgets(S, reason) ==
    /\ surfaces' = surfaces \ S
    /\ handles' = {h \in handles : \A s \in S : h.id # s.handle}
    /\ retired' = retired

\* retire_surface for a set of live surfaces, each with its reason
Retire(S, reason) ==
    /\ surfaces' = surfaces \ S
    /\ handles' = {h \in handles : \A s \in S : h.id # s.handle}
    /\ retired' = retired \cup {[access |-> s.access, reason |-> reason[s]] : s \in S}

-----------------------------------------------------------------------------
Init ==
    /\ worker \in Workers
    /\ epoch \in Epochs
    /\ renderer \in Renderers
    /\ now = 0
    /\ nextSurface = 1
    /\ nextHandle = 1
    /\ nextSecret = 1
    /\ sessionState = [s \in Sessions |-> "Unknown"]
    /\ sessionGen = [s \in Sessions |-> 0]
    /\ surfaces = {}
    /\ handles = {}
    /\ retired = {}
    /\ issued = {}
    /\ transfers = {}
    /\ imports = {}

OpenSession(session, gen) ==
    /\ sessionState[session] = "Unknown"
    /\ Cardinality({s \in Sessions : sessionState[s] # "Unknown"}) < MaxSessions
    /\ sessionState' = [sessionState EXCEPT ![session] = "Active"]
    /\ sessionGen' = [sessionGen EXCEPT ![session] = gen]
    /\ UNCHANGED <<identityVars, now, counterVars, surfaces, handles, retired,
                   clientVars>>

\* allocate.  The code's issued_surface_ids is nextSurface - 1.
Allocate(session, plan, layout) ==
    /\ PlanIsCurrent(session, plan)
    /\ LayoutOK(layout)
    /\ Cardinality(surfaces) < MaxLiveSurfaces
    /\ Cardinality(handles) < MaxHandles
    /\ nextSurface <= MaxSurfaceIds
    /\ TotalBytes + layout.length <= MaxTotalBytes
    /\ nextSurface < CounterMax /\ nextHandle < CounterMax /\ nextSecret < CounterMax
    /\ LET access == [worker |-> worker, epoch |-> epoch, session |-> session,
                      surface |-> nextSurface, lease |-> nextSecret]
       IN  /\ surfaces' = surfaces \cup
                 {Entry(access, plan, layout.length, nextHandle, "Empty", Blank, 0, 0)}
           /\ issued' = issued \cup {access}
    /\ handles' = handles \cup {Handle(nextHandle, nextSurface, "ReadWrite", 0, FALSE)}
    /\ nextSurface' = nextSurface + 1
    /\ nextHandle' = nextHandle + 1
    /\ nextSecret' = nextSecret + 1
    /\ UNCHANGED <<identityVars, now, sessionVars, retired, transfers, imports>>

WritePrivatePixels(access, s, pixels) ==
    /\ Opens(access, s)
    /\ s.state \in Private
    /\ surfaces' = (surfaces \ {s}) \cup
          {Entry(s.access, s.plan, s.length, s.handle, "Complete", pixels, 0, 0)}
    /\ UNCHANGED <<identityVars, now, counterVars, sessionVars, handles, retired,
                   clientVars>>

\* publish: the handle turns read-only with the surface.
Publish(access, s) ==
    /\ Opens(access, s)
    /\ s.state = "Complete"
    /\ PlanIsCurrent(s.access.session, s.plan)
    /\ now + LeaseTicks <= CounterMax
    /\ \E h \in handles :
          /\ h.id = s.handle
          /\ h.mode = "ReadWrite"
          /\ handles' = (handles \ {h}) \cup
                {Handle(h.id, h.surface, "ReadOnly", h.token, h.imported)}
    /\ surfaces' = (surfaces \ {s}) \cup
          {Entry(s.access, s.plan, s.length, s.handle, "Available", s.pixels,
                 now + LeaseTicks, 0)}
    /\ UNCHANGED <<identityVars, now, counterVars, sessionVars, retired, clientVars>>

\* transfer: one token per surface, from the same counter as the leases.
Transfer(access, s) ==
    /\ Opens(access, s)
    /\ s.state = "Available"
    /\ nextSecret < CounterMax
    /\ \E h \in handles :
          /\ h.id = s.handle
          /\ h.mode = "ReadOnly"
          /\ h.token = 0
          /\ handles' = (handles \ {h}) \cup
                {Handle(h.id, h.surface, "ReadOnly", nextSecret, h.imported)}
    /\ surfaces' = (surfaces \ {s}) \cup
          {Entry(s.access, s.plan, s.length, s.handle, "Transferred", s.pixels,
                 s.deadline, nextSecret)}
    /\ transfers' = transfers \cup
          {[access |-> s.access, plan |-> s.plan, handle |-> s.handle,
            token |-> nextSecret]}
    /\ nextSecret' = nextSecret + 1
    /\ UNCHANGED <<identityVars, now, nextSurface, nextHandle, sessionVars, retired,
                   issued, imports>>

\* What import demands of the transfer it is shown and the surface it finds by
\* identity.  The consumer's context must name the transfer's own worker,
\* epoch, session and plan, so the context is that of the transfer.
CanImport(t, s) ==
    /\ t.access.worker = worker
    /\ t.access.epoch = epoch
    /\ PlanIsCurrent(t.access.session, t.plan)
    /\ s.access.surface = t.access.surface
    /\ s.state = "Transferred"
    /\ s.token = t.token
    /\ s.handle = t.handle
    /\ s.access = t.access
    /\ s.plan = t.plan

\* Mutant of Import: a transfer is accepted again after it was imported.
ImportAgain(t, s) ==
    /\ CanImport(t, [s EXCEPT !.state = "Transferred"])
    /\ \E h \in handles :
          /\ h.id = s.handle
          /\ handles' = (handles \ {h}) \cup
                {Handle(h.id, h.surface, h.mode, h.token, TRUE)}
    /\ surfaces' = (surfaces \ {s}) \cup
          {Entry(s.access, s.plan, s.length, s.handle, "Imported", s.pixels,
                 s.deadline, s.token)}
    /\ imports' = imports \cup
          {[access |-> s.access, handle |-> s.handle, token |-> s.token,
            pixels |-> s.pixels, nth |-> Cardinality(imports) + 1]}
    /\ UNCHANGED <<identityVars, now, counterVars, sessionVars, retired, issued,
                   transfers>>

\* import.  The history numbers the imports, so that a second import of the same
\* transfer would show.
Import(t, s) ==
    /\ CanImport(t, s)
    /\ \E h \in handles :
          /\ h.id = s.handle
          /\ h.surface = t.access.surface
          /\ h.mode = "ReadOnly"
          /\ h.token = t.token
          /\ ~ h.imported
          /\ handles' = (handles \ {h}) \cup
                {Handle(h.id, h.surface, h.mode, h.token, TRUE)}
    /\ surfaces' = (surfaces \ {s}) \cup
          {Entry(s.access, s.plan, s.length, s.handle, "Imported", s.pixels,
                 s.deadline, s.token)}
    /\ imports' = imports \cup
          {[access |-> s.access, handle |-> s.handle, token |-> s.token,
            pixels |-> s.pixels, nth |-> Cardinality(imports) + 1]}
    /\ UNCHANGED <<identityVars, now, counterVars, sessionVars, retired, issued,
                   transfers>>

\* acquire changes nothing; this is when it returns the pixels of s to the
\* holder of import i.
CanAcquire(i, s) ==
    /\ Opens(i.access, s)
    /\ PlanIsCurrent(s.access.session, s.plan)
    /\ s.state = "Imported"
    /\ s.token = i.token
    /\ s.handle = i.handle
    /\ \E h \in handles :
          /\ h.id = s.handle
          /\ h.imported
          /\ h.token = i.token
          /\ h.mode = "ReadOnly"

DiscardPrivate(access, s, reason) ==
    /\ Opens(access, s)
    /\ s.state \in Private
    /\ Retire({s}, [x \in surfaces |-> reason])
    /\ UNCHANGED <<identityVars, now, counterVars, sessionVars, clientVars>>

\* release of a live surface; a repeated release is only acknowledged.
Release(access, s) ==
    /\ Opens(access, s)
    /\ Retire({s}, [x \in surfaces |-> "ReleasedByHost"])
    /\ UNCHANGED <<identityVars, now, counterVars, sessionVars, clientVars>>

\* Mutant of AdvanceClock: a deadline is reclaimed a tick late.
AdvanceClockMutant(ticks) ==
    /\ now + ticks <= CounterMax
    /\ now' = now + ticks
    /\ Retire({s \in surfaces : s.state \notin Private /\ s.deadline < now + ticks},
              [s \in surfaces |-> "LeaseExpired"])
    /\ UNCHANGED <<identityVars, counterVars, sessionVars, clientVars>>

AdvanceClock(ticks) ==
    /\ now + ticks <= CounterMax
    /\ now' = now + ticks
    /\ Retire({s \in surfaces : s.state \notin Private /\ s.deadline <= now + ticks},
              [s \in surfaces |-> "LeaseExpired"])
    /\ UNCHANGED <<identityVars, counterVars, sessionVars, clientVars>>

ReplaceGeneration(session, gen) ==
    /\ sessionState[session] = "Active"
    /\ gen > sessionGen[session]
    /\ sessionGen' = [sessionGen EXCEPT ![session] = gen]
    /\ Retire({s \in surfaces : s.access.session = session /\ s.plan.gen < gen},
              [s \in surfaces |-> IF s.state \in Private
                                  THEN "StaleGeneration" ELSE "GenerationReplaced"])
    /\ UNCHANGED <<identityVars, now, counterVars, sessionState, clientVars>>

CloseSession(session) ==
    /\ sessionState[session] = "Active"
    /\ sessionState' = [sessionState EXCEPT ![session] = "Closed"]
    /\ Retire({s \in surfaces : s.access.session = session},
              [s \in surfaces |-> "SessionClosed"])
    /\ UNCHANGED <<identityVars, now, counterVars, sessionGen, clientVars>>

\* restart: everything of the old epoch is dropped, and every counter, token
\* and session identity starts over.
Restart(w, e, r) ==
    /\ w # worker /\ e > epoch /\ r # renderer
    /\ worker' = w /\ epoch' = e /\ renderer' = r
    /\ now' = 0
    /\ nextSurface' = 1 /\ nextHandle' = 1 /\ nextSecret' = 1
    /\ sessionState' = [s \in Sessions |-> "Unknown"]
    /\ sessionGen' = [s \in Sessions |-> 0]
    /\ surfaces' = {} /\ handles' = {} /\ retired' = {}
    /\ UNCHANGED clientVars

Next ==
    \/ \E session \in Sessions, gen \in Generations : OpenSession(session, gen)
    \/ \E session \in Sessions, plan \in PlanIdentities, layout \in Layouts :
          Allocate(session, plan, layout)
    \/ \E access \in issued, s \in surfaces, pixels \in Pixels :
          WritePrivatePixels(access, s, pixels)
    \/ \E access \in issued, s \in surfaces : Publish(access, s)
    \/ \E access \in issued, s \in surfaces : Transfer(access, s)
    \/ \E t \in transfers, s \in surfaces : Import(t, s)
    \/ \E access \in issued, s \in surfaces,
          reason \in {"Cancelled", "Failed", "StaleGeneration"} :
          DiscardPrivate(access, s, reason)
    \/ \E access \in issued, s \in surfaces : Release(access, s)
    \/ \E ticks \in Ticks : AdvanceClock(ticks)
    \/ \E session \in Sessions, gen \in Generations : ReplaceGeneration(session, gen)
    \/ \E session \in Sessions : CloseSession(session)
    \/ \E w \in Workers, e \in Epochs, r \in Renderers : Restart(w, e, r)

Spec == Init /\ [][Next]_vars

-----------------------------------------------------------------------------
(* Properties.                                                             *)

\* Every variable has its type.
TypeOK ==
    /\ worker \in Workers /\ epoch \in Epochs /\ renderer \in Renderers
    /\ now \in 0..CounterMax
    /\ nextSurface \in 1..CounterMax
    /\ nextHandle \in 1..CounterMax
    /\ nextSecret \in 1..CounterMax
    /\ sessionState \in [Sessions -> {"Unknown", "Active", "Closed"}]
    /\ sessionGen \in [Sessions -> Generations \cup {0}]
    /\ surfaces \subseteq SurfaceEntries
    /\ handles \subseteq HandleRecords
    /\ retired \subseteq [access : Accesses, reason : Reasons]
    /\ issued \subseteq Accesses
    /\ transfers \subseteq Transfers
    /\ imports \subseteq Imports

\* Every live surface owns exactly one handle, which agrees with it on access
\* rights, transfer token and import, and there are no other handles: what the
\* expect calls of owner.rs take for granted.
HandlesAgree ==
    /\ \A s \in surfaces : \E h \in handles :
          /\ h.id = s.handle
          /\ h.surface = s.access.surface
          /\ h.mode = "ReadWrite" <=> s.state \in Private
          /\ h.token = s.token
          /\ h.imported <=> s.state = "Imported"
    /\ \A s, t \in surfaces : s.handle = t.handle => s = t
    /\ \A h \in handles : \E s \in surfaces : s.handle = h.id
    /\ \A h, k \in handles : h.id = k.id => h = k

\* A surface is imported at most once, whatever the consumer repeats.
ImportedOnce ==
    \A i, j \in imports : i.access = j.access => i = j

\* A surface is one shared region with one consumer: the tables agree on who holds
\* it, and the history of the imports has it at most once, whatever the state of the
\* surface says.
HandleOwnership == HandlesAgree /\ ImportedOnce

\* A live surface belongs to the running worker epoch, to an active session at
\* the generation it was planned for, and its lease has not run out: nothing
\* that expired, was superseded, closed or restarted away can be presented.
LiveIsCurrent ==
    \A s \in surfaces :
        /\ s.access.worker = worker
        /\ s.access.epoch = epoch
        /\ PlanIsCurrent(s.access.session, s.plan)
        /\ s.state \notin Private => s.deadline > now

\* What this epoch has handed out so far: accesses and transfers.
Granted == {a \in issued : a.epoch = epoch}
Sent == {t \in transfers : t.access.epoch = epoch}

\* What this epoch has handed out, compared with everything else it has handed out:
\* two accesses differ in surface and lease, two transfers in surface, handle and
\* token, and no lease is also a token.  What is live or retired is one of those
\* accesses, never both; and the handle of a live surface was in no other's transfer.
IdentitiesNeverReused ==
    /\ \A a, b \in Granted : a.surface = b.surface \/ a.lease = b.lease => a = b
    /\ \A t, u \in Sent :
          t.access.surface = u.access.surface \/ t.handle = u.handle \/ t.token = u.token
              => t = u
    /\ \A a \in Granted, t \in Sent : a.lease # t.token
    /\ \A s \in surfaces : s.access \in Granted
    /\ \A r \in retired : r.access \in Granted
    /\ \A s \in surfaces, r \in retired : s.access # r.access
    /\ \A s, t \in surfaces : s.access = t.access => s = t
    /\ \A s \in surfaces, t \in Sent : s.handle = t.handle => s.access = t.access

\* Whoever was handed an access in this epoch can release it, any number of
\* times: the surface is live, or its retirement is on record under the very
\* same access.
EveryReleaseIsAnswered ==
    \A access \in issued :
        access.worker = worker /\ access.epoch = epoch
            => \/ \E s \in surfaces : s.access = access
               \/ \E r \in retired : r.access = access

\* Whoever can acquire pixels through an import sees the very pixels that were
\* imported, also when a restarted worker reuses the identities and tokens.
AcquireIsFaithful ==
    \A i \in imports, s \in surfaces :
        CanAcquire(i, s) => s.pixels = i.pixels /\ s.pixels # Blank

\* Within an epoch a retired surface stays retired, for its first reason only.
RetiredIsFinal ==
    [][epoch' = epoch =>
          /\ retired \subseteq retired'
          /\ \A r, q \in retired' : r.access.surface = q.access.surface => r = q]_vars
=============================================================================
