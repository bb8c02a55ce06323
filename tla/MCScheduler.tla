---------------------------- MODULE MCScheduler ----------------------------
(* Small instances of the scheduler for TLC.                               *)
EXTENDS SchedulerRefinement

Request(w, s, g, k, p) ==
    [work |-> w, session |-> s, gen |-> g, key |-> k, priority |-> p,
     geometry |-> 0]

\* One session and two generations: a replaced key and a reused identity.
LifecycleRequests ==
    {Request("w1", "a", 1, "x", 0), Request("w2", "a", 1, "x", 0),
     Request("w1", "a", 2, "x", 0)}

=============================================================================
