SPECIFICATION FairSpec
CONSTANTS
    Conns = {a, b, c}
    None = None
    MaxWrites = 3
    Kinds <- Disturbances
    MaxDisturbances = 2
INVARIANTS
    PipelineIntact
    ConfirmedApplied
    AppliedOnce
PROPERTIES
    Reconnects
    AcksSettle
