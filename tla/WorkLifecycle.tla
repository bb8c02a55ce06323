--------------------------- MODULE WorkLifecycle ---------------------------
(***************************************************************************)
(* What the scheduler promises the viewer about one piece of work, without *)
(* queues, capacities, keys or events.  A work identity is new, then       *)
(* waiting, then running, then over; it never goes back.  It waits only    *)
(* for the session generation that is current, and it is published only    *)
(* from running and only while its session is open at that generation.     *)
(***************************************************************************)
EXTENDS Naturals

CONSTANTS WorkIds, SessionIds, Generations

VARIABLES
    work,       \* the life of each identity
    current,    \* the generation a session is open at, or 0
    closed      \* the sessions that were closed

lifeVars == <<work, current, closed>>

New == [state |-> "New"]
Over == [state |-> "Over"]
Published == [state |-> "Published"]
Waiting(s, g) == [state |-> "Waiting", session |-> s, gen |-> g]
Running(s, g) == [state |-> "Running", session |-> s, gen |-> g]

WaitingFor(s) == {w \in WorkIds : work[w].state = "Waiting" /\ work[w].session = s}

\* The waiting work of the sessions in S is superseded.
Superseded(S) ==
    [w \in WorkIds |-> IF \E s \in S : w \in WaitingFor(s) THEN Over ELSE work[w]]

LifeInit ==
    /\ work = [w \in WorkIds |-> New]
    /\ current = [s \in SessionIds |-> 0]
    /\ closed = {}

OpenSession(s, g) ==
    /\ current[s] = 0 /\ s \notin closed
    /\ current' = [current EXCEPT ![s] = g]
    /\ UNCHANGED <<work, closed>>

\* A newer generation supersedes what waits, and may bring new work with it.
NewGeneration(s, g) ==
    /\ current[s] # 0 /\ g > current[s]
    /\ current' = [current EXCEPT ![s] = g]
    /\ \/ work' = Superseded({s})
       \/ \E w \in WorkIds :
            /\ work[w] = New
            /\ work' = [Superseded({s}) EXCEPT ![w] = Waiting(s, g)]
    /\ UNCHANGED closed

\* New work waits, alone or in the place of one that waited.
Admit(s, w) ==
    /\ current[s] # 0
    /\ work[w] = New
    /\ \/ work' = [work EXCEPT ![w] = Waiting(s, current[s])]
       \/ \E v \in WaitingFor(s) :
            work' = [work EXCEPT ![v] = Over, ![w] = Waiting(s, current[s])]
    /\ UNCHANGED <<current, closed>>

Start(s, w) ==
    /\ current[s] # 0
    /\ work[w] = Waiting(s, current[s])
    /\ work' = [work EXCEPT ![w] = Running(s, current[s])]
    /\ UNCHANGED <<current, closed>>

Publish(s, w) ==
    /\ current[s] # 0
    /\ work[w] = Running(s, current[s])
    /\ work' = [work EXCEPT ![w] = Published]
    /\ UNCHANGED <<current, closed>>

\* Cancelled, failed, or completed too late.
End(w) ==
    /\ work[w].state = "Running"
    /\ work' = [work EXCEPT ![w] = Over]
    /\ UNCHANGED <<current, closed>>

\* Sessions close together (shutdown) or alone, and never open again.
CloseSessions(S) ==
    /\ current' = [s \in SessionIds |-> IF s \in S THEN 0 ELSE current[s]]
    /\ work' = Superseded(S)
    /\ closed' = closed \cup S

LifeNext ==
    \/ \E s \in SessionIds, g \in Generations : OpenSession(s, g) \/ NewGeneration(s, g)
    \/ \E s \in SessionIds, w \in WorkIds : Admit(s, w) \/ Start(s, w) \/ Publish(s, w)
    \/ \E w \in WorkIds : End(w)
    \/ \E S \in SUBSET SessionIds : CloseSessions(S)

LifeSpec == LifeInit /\ [][LifeNext]_lifeVars

=============================================================================
