------------------------ MODULE MCSchedulerFairness ------------------------
(* Three sessions competing for service.                                   *)
EXTENDS SchedulerFairness

Request(w, s, k, p) ==
    [work |-> w, session |-> s, gen |-> 1, key |-> k, priority |-> p,
     geometry |-> 0]

\* "a" always wins on priority, "c" loses until its work has aged by the whole
\* priority range.
FairnessRequests ==
    {Request("a1", "a", "x", 0), Request("a2", "a", "y", 0),
     Request("b1", "b", "x", 1), Request("b2", "b", "y", 1),
     Request("c1", "c", "x", 4)}

\* At most one critical event, a close or the shutdown: completions, cancels
\* and failures do not touch the queue the sessions compete in.
FewCriticalEvents ==
    /\ nextCriticalOrder <= 1
    /\ \A i \in 1..Len(critical) : critical[i].kind \in {"Close", "Shutdown"}

=============================================================================
