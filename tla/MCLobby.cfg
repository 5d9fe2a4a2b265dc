\* Three sockets, two rooms, one of which is no id for a URL, one name.
SPECIFICATION Spec
CONSTANTS
    Sockets = {w1, w2, w3}
    plain = plain
    cut = cut
    hash = hash
    RoomIds = {plain, cut}
    ReadBack <- Links
    Names = {ann}
    None = None
    MaxMail = 1
SYMMETRY Symmetry
INVARIANTS
    ShownIsMember
    PageAgrees
    LinkLeadsHere
