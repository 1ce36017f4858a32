SPECIFICATION BrowserSpec
CONSTANTS
    MaxRequests = 3
    Requests <- MCRequests
INVARIANTS OwnDataFirst EventsTellTheTruth
CHECK_DEADLOCK FALSE
