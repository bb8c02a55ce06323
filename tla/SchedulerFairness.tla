------------------------- MODULE SchedulerFairness -------------------------
(***************************************************************************)
(* The scheduler with a record of when each session last became            *)
(* backlogged, to state how long the fairness window lets it be bypassed.  *)
(***************************************************************************)
EXTENDS Scheduler

VARIABLE since      \* history: nextServiceTurn when the backlog began

fairnessVars == <<vars, since>>

FInit == Init /\ since = [s \in SessionIds |-> 0]

FNext ==
    /\ Next
    /\ since' = [s \in SessionIds |->
          IF queued[s] = 0 /\ queued'[s] > 0 THEN nextServiceTurn ELSE since[s]]

FSpec == FInit /\ [][FNext]_fairnessVars

\* The later of two turns.
Later(m, n) == IF m < n THEN n ELSE m

\* The turns given to other sessions since s was last served or, if later,
\* became backlogged.
Bypasses(s) == nextServiceTurn - Later(since[s], lastServiceTurn[s] + 1)

\* While a session has work queued, dispatch_next gives at most
\* FairnessBurst - 1 turns plus one per other session to the others before it
\* must serve this one, whatever the priorities and the registrations.
BoundedBypass ==
    \A s \in SessionIds :
        queued[s] > 0 => Bypasses(s) <= FairnessBurst + MaxSessions - 2

=============================================================================
