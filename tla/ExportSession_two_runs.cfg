SPECIFICATION ExportSpec
CONSTANTS
    Runs = 2
    Graphs <- MCGraphs
    Requests <- MCRequests
INVARIANT VisibleIsWhole
INVARIANT ManifestIsBacked
INVARIANT SuccessIsComplete
CHECK_DEADLOCK FALSE
