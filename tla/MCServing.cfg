\* One room, two requests for the list, and one health check at a time.
SPECIFICATION Spec
CONSTANTS
    RoomIds = {r1, r2}
    Requests = {q1, q2}
    Limit = 5
    WriteWait = 2
    MaxAhead = 2
    MaxFailures = 1
INVARIANTS
    DownTakesWaits
PROPERTIES
    StopsWhenTold
    ListConverges
CHECK_DEADLOCK FALSE
