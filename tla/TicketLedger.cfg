SPECIFICATION Spec
CONSTANTS
    Workers = {w1}
    Sessions = {s1, s2}
    Tickets = {t1, t2}
    Sources = {x, y}
    Wants = {n1, n2}
    Capacity = 2
    MaxEpoch = 3
SYMMETRY Symmetry
CONSTRAINT FewCompletions
INVARIANTS
    AnsweredOnce
    PreparedIsExact
    ObservedIsRecoverable
PROPERTIES
    FailClosed
CHECK_DEADLOCK FALSE
