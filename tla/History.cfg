SPECIFICATION Spec
CONSTANTS
    Kinds <- BothKinds
    Starts <- FromZero
    MaxMinute = 5
    MaxPages = 6
    MaxCalls = 3
INVARIANTS
    HistoryTypeOK
    CsvComplete
    WriterMatches
PROPERTIES
    DownloadEnds
CHECK_DEADLOCK FALSE
