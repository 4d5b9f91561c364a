\* The default configuration over one sample of each class.
CONSTANTS
    config_ <- DefaultConfig
    Samples <- SampleClasses
    MaxWarningCount = 6
    MaxRecent = 6
SPECIFICATION HistorySpec
INVARIANTS
    CountersAreRuns
    NoRunOverdue
PROPERTY ImplementsPolicy
