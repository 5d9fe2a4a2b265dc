\* Two rooms, to see that what happens in one leaves the other alone.
SPECIFICATION Spec
CONSTANTS
    c1 = c1
    c2 = c2
    c3 = c3
    a1 = a1
    a2 = a2
    Clients = {c1, c2, c3}
    RoomIds = {r1, r2}
    NoRoom = NoRoom
    Away = Away
    Nobody = Nobody
    SessionIds = {s1, s2, s3, s4}
    Addr <- MCAddr
    LoggedIn = {c1, c2}
    AuthMode = "turn"
    Modes = {"turn", "stun"}
    OwnerLeaveChoices = {TRUE}
SYMMETRY RoomSymmetry
VIEW StateView
INVARIANTS
    TypeOK
    MembershipAgrees
    OneOwner
    OnePresenter
    SessionsCoverViewers
    CredentialsLive
    MetricsBalance
    NoPanic
PROPERTIES
    EveryChangeIsTold
    RoomComesFirst
    ClosedOnce
    BanHolds
    OwnerKeepsRoom
    ImplementsRoomService
