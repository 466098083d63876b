SPECIFICATION Spec
CONSTANTS
    MAX_METADATA_REQUESTS = 2
    MAX_STAGE_EVENTS = 16
    MAX_RESPONSES = 2
    MAX_FORMAT_YIELDS = 1
    MAX_POT_REPORTS = 1
    GATE_REQUESTS = 2
    MaxInvocations = 2
    Instances <- SmallRuns
    Drifts <- FewDrifts
CONSTRAINT Explored
INVARIANTS
    RequestsAreAccountedFor
    RejectsOnlyKnownCases
    GateTellsHowItEnded
    BundleAgreesWithRun
