\* Two allocations and the main loop, ports of two bits, addresses of both
\* families.
SPECIFICATION Spec
CONSTANTS
    Allocations = {a1, a2}
    MainLoop = MainLoop
    Nobody = Nobody
    V4 = {v4}
    V6 = {v6}
    NoIP = NoIP
    Modulus = 4
    Minute = 2
    Second = 1
    MaxNow = 4
INVARIANTS
    TypeOK
    PortsAreTheRange
    RelaySuits
PROPERTIES
    LookupsPaced
    AnswersAreFresh
    GetReturns
CHECK_DEADLOCK FALSE
