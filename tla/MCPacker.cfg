\* The build ends: with a catalog, with an error or killed.
CHECK_DEADLOCK FALSE
CONSTANTS
    None = None
    USize = 4096
    Span = 256
    Million = 10
    Sources <- MCSources
    Options <- MCOptions
    Spelling <- MCSpelling
    Glued <- MCGlued
    Dates = {"2507"}
    Tags = {"gpu50"}
    EndsIn <- MCEndsIn
    StartsWith = {}
    HwKey <- MCHwKey
    Paths <- MCPaths
    Contents <- MCContents
SPECIFICATION Spec
INVARIANTS
    RowsAreReadyToSearch
    FactorsAreSupported
    TakesTheMostDownloaded
    ATornFileIsRefused
    SuccessMeansAWholeFile
    NamesReadBack
    SparseModelsActivateASlice
PROPERTIES
    ReportedThroughputIsTheMedian
    ThroughputWasObservedAtItsQuant
    MeasurementsNameTheirModel
