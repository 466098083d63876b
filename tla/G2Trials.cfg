SPECIFICATION Spec
CONSTANTS
    FirstBackend <- FrozenFirstBackend
    Instances <- SmallInstances
    MaxDrops = 1
INVARIANTS
    AcceptedRunReportsItsRequests
    AcceptedFaultIsReal
    FaultStaysInItsTrial
    MisreportsAreCaught
