\* One socket and one room are enough.
SPECIFICATION Spec
CONSTANTS
    Sockets = {w1}
    plain = plain
    cut = cut
    hash = hash
    RoomIds = {plain}
    ReadBack <- Links
    Names = {ann}
    None = None
    MaxMail = 1
INVARIANTS
    BlankIsRandom
