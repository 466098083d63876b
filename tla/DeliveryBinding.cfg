SPECIFICATION Spec
CONSTANTS
    c1 = c1
    c2 = c2
    c3 = c3
    None = None
    Calls <- ThreeCalls
CONSTRAINT NamedInTurn
INVARIANTS
    RevisionsRefreshedOnce
    NoOrphanRefresh
PROPERTIES
    WaitersKeepTheirRefresh
    EveryoneIsAnswered
\* Every refresh() ends, and a session may never be shut down.
CHECK_DEADLOCK FALSE
