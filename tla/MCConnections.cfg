\* Two connections; one message makes the loop write at most once.
SPECIFICATION Spec
CONSTANTS
    Clients = {c1, c2}
    MaxBatch = 1
INVARIANTS
    TypeOK
    NoGhost
    WriterOutlivesService
PROPERTIES
    GoneIsForgotten
    CloseIsFinal
CHECK_DEADLOCK FALSE
