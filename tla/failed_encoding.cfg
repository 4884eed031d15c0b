SPECIFICATION MCSpec
CONSTANTS
    Goroutines = {g1}
    Main = main
    Shared = {root}
    Derives = TRUE
    WriterLocks = TRUE
    Names = {"http", "msg"}
    Keys = {"status", "msg"}
    Values = {1, 2}
    RecordKeys = {"level", "msg"}
    MaxHandlers = 4
    MaxSpare = 1
    Statuses = {200, 204, 404, 500}
    None = None
INVARIANTS
    FailedEncodingSends500
CHECK_DEADLOCK FALSE
