SPECIFICATION Spec
CONSTANTS
    MetadataLimit = 2
    MediaProbeLimit = 8
    ProbeBytes = 1
    PrimaryLanes <- MCPrimaryLanes
    DeferredLanes <- MCDeferredLanes
    OracleRevision = "pinned"
    Registries <- MCRegistries
    IdChoices <- MCIdChoices
    AnswerOf <- MCAnswerOf
    Answers = {"split", "limited", "gated", "exhausted", "unranged", "plain", "cut"}
    InstalledOracles = {"pinned", "newer"}
    MaxRuns = 2
INVARIANTS
    OneProbePerCell
    CompleteSummaryIsBacked
    AggregatorAgrees
    ArtifactsTellWhatWasSeen
CHECK_DEADLOCK FALSE
