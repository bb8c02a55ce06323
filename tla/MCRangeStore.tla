---------------------------- MODULE MCRangeStore ----------------------------
(* Small instances of the range store for TLC.                             *)
EXTENDS RangeStore, TLC

Reply(s, e, len, v) ==
    [matches |-> TRUE, len |-> len, range |-> Span(s, e), value |-> v]

Meta(matches, len) == [matches |-> matches, len |-> len]

\* A source whose length nobody knows at first: replies that overlap, touch,
\* complete or split a waiting range, make two waits equal, bind a length, exceed
\* the limits or contradict the cached bytes.
TicketReplies ==
    {Reply(1, 2, Unknown, 1), Reply(2, 4, Unknown, 1),
     Reply(3, 4, 4, 1), Reply(0, 2, Unknown, 2)}

TicketRequests == {Span(0, 3), Span(2, 3), Span(3, 5)}

TicketSnapshots == {Meta(TRUE, 3)}

\* Replies of a known source that coalesce step by step, one that
\* contradicts them and one of another source.
ThreadReplies ==
    {Reply(0, 1, 3, 1), Reply(1, 2, 3, 1), Reply(1, 3, 3, 1), Reply(0, 2, 3, 2),
     [matches |-> FALSE, len |-> 3, range |-> Span(0, 1), value |-> 1]}

ThreadRequests == {Span(0, 1), Span(0, 2), Span(1, 3)}

OneSnapshot == {Meta(TRUE, 3), Meta(FALSE, 3)}

UnknownLen == Unknown

\* Jobs and checkpoints are only compared.
Symmetry == Permutations(Jobs) \cup Permutations(Checkpoints)
=============================================================================
