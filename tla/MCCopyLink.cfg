\* The link of a room whose id does not survive the URL; one socket.
SPECIFICATION Spec
CONSTANTS
    Sockets = {w1}
    plain = plain
    cut = cut
    hash = hash
    RoomIds = {plain, cut, hash}
    ReadBack <- Links
    Names = {ann}
    None = None
    MaxMail = 1
INVARIANTS
    EveryLinkLeadsHere
