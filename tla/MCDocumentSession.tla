-------------------------- MODULE MCDocumentSession --------------------------
(* A small document for TLC: five offsets, two of which both services read.  *)
(* Opening and a service each have a read that the host may answer in parts. *)
EXTENDS DocumentSession

Opener == [id |-> 1, job |-> "a"]

\* The services may reuse the identity of the opening, and mix its parts.
Requesters == {[id |-> 1, job |-> "a"], [id |-> 2, job |-> "b"], [id |-> 1, job |-> "b"]}

Opens == <<{0, 1}, {2}>>
Serves == [PageCount |-> <<{2, 3, 4}>>, Outline |-> <<{3}, {4}>>]

AllReads == {{0, 1}, {2}, {2, 3, 4}, {3}, {4}}

Response(offsets, length, matches) ==
    [offsets |-> offsets, length |-> length, matches |-> matches]

\* Bytes one by one and together, with the length and without it, which contradicts
\* a length that is bound, and one response that another source sent.
HostResponses ==
    {Response({0}, -1, TRUE), Response({1}, -1, TRUE), Response({2}, -1, TRUE),
     Response({3}, -1, TRUE), Response({4}, 5, TRUE), Response({2, 3}, 5, TRUE),
     Response({0}, -1, FALSE)}

AllSupplies == {r.offsets : r \in HostResponses}

\* A length that ends the file inside a read.
HostSnapshots == {[length |-> 4, matches |-> TRUE]}

Unbound == -1
=============================================================================
