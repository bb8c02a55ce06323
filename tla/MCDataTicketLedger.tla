------------------------- MODULE MCDataTicketLedger -------------------------
(* A small instance of the ledger of data tickets for TLC.                 *)
EXTENDS DataTicketLedger, TLC

\* The registry is restarted once, and callers prepare two completions.
FewCompletions == identity <= 1 /\ Cardinality(prepared) <= 2

\* All of these are only ever compared for equality.
Symmetry ==
    Permutations(Workers) \cup Permutations(Sessions) \cup Permutations(Tickets)
        \cup Permutations(Sources) \cup Permutations(Wants)
=============================================================================
