\* The comment of startWriteHandler on errors.
SPECIFICATION Spec
CONSTANTS
    Clients = {c1, c2}
    MaxBatch = 1
PROPERTIES
    WriterEndsOnError
CHECK_DEADLOCK FALSE
