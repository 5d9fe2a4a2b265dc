------------------------------- MODULE Rooms -------------------------------
(***************************************************************************)
(* The main loop of the signalling server (ws/rooms.go, Start): it takes   *)
(* one message at a time from Incoming and runs its Execute to the end, so *)
(* one action below is one Execute, with the Disconnected.executeNoError   *)
(* that the loop runs when Execute returns an error.                       *)
(*                                                                         *)
(* What a client may send is any message at any time: the messages of one  *)
(* connection are in order, those of different connections interleave.     *)
(* Messages of a client that is not connected are dropped by the loop and  *)
(* are no action here.                                                     *)
(***************************************************************************)
EXTENDS Integers, Sequences, FiniteSets, Functions

CONSTANTS
    Clients,            \* connection ids (xid.ID of a ClientInfo)
    RoomIds,            \* room ids that create and join messages carry
    NoRoom,             \* "", the entry of a connected client in no room
    SessionIds,         \* ids of peer-to-peer sessions: at most this many live
    Addr,               \* remote address of each connection
    LoggedIn,           \* connections whose user is authenticated
    AuthMode,           \* config.AuthMode: "none", "all" or "turn"
    Modes,              \* connection modes that create messages carry
    OwnerLeaveChoices   \* values of closeOnOwnerLeave that create messages carry

Addrs == Range(Addr)

ASSUME ClientsAssumption == IsFiniteSet(Clients) /\ IsFiniteSet(SessionIds)
ASSUME ConfigAssumption ==
    /\ Addr \in [Clients -> Addrs]
    /\ LoggedIn \subseteq Clients
    /\ AuthMode \in {"none", "all", "turn"}
    /\ Modes \subseteq {"local", "stun", "turn"}
    /\ OwnerLeaveChoices \subseteq BOOLEAN

VARIABLES
    connected,  \* client -> the room it is in, or NoRoom
    rooms,      \* room id -> room
    lookup,     \* TURN user names the TURN server accepts
    outbox,     \* client -> what the last Execute wrote to its channel
    gauge,      \* each pair of Prometheus counters, by their difference
    panicked    \* the loop dereferenced a nil *User

vars == <<connected, rooms, lookup, outbox, gauge, panicked>>
-----------------------------------------------------------------------------
(* Maps of the program are functions whose domain is the set of their keys *)

EmptyMap        == [x \in {} |-> {}]
PartialFn(X, Y) == UNION {[S -> Y] : S \in SUBSET X}
Assign(f, x, v) == [y \in DOMAIN f \cup {x} |-> IF y = x THEN v ELSE f[y]]
Without(f, S)   == Restrict(f, DOMAIN f \ S)
Merge(f, g)     ==
    [y \in DOMAIN f \cup DOMAIN g |-> IF y \in DOMAIN g THEN g[y] ELSE f[y]]

User    == [Streaming : BOOLEAN, Owner : BOOLEAN, CanShare : BOOLEAN]
Session == [host : Clients, client : Clients]
Room    == [mode              : {"local", "stun", "turn"},
            closeOnOwnerLeave : BOOLEAN,
            users             : PartialFn(Clients, User),
            sessions          : PartialFn(SessionIds, Session),
            banned            : SUBSET Addrs]
TurnName == SessionIds \X {"host", "client"}

(* Messages to a client, and the command that ends its write loop.         *)
RoomMsg(users)          == [type |-> "room", users |-> users]
HostSession(s, peer)    == [type |-> "hostsession", id |-> s, peer |-> peer]
ClientSession(s, peer)  == [type |-> "clientsession", id |-> s, peer |-> peer]
EndShare(s)             == [type |-> "endshare", id |-> s]
HostMsg(s)              == [type |-> "host", id |-> s]     \* hostoffer, hostice
ClientMsg(s)            == [type |-> "client", id |-> s]   \* clientanswer, clientice
CloseWriter(reason)     == [type |-> "closewriter", reason |-> reason]

Reasons == {"error", "read", "left", "dissolved", "kicked", "banned"}

Message ==
    {RoomMsg(users) : users \in PartialFn(Clients, User)}
      \cup {HostSession(s, p) : s \in SessionIds, p \in Clients}
      \cup {ClientSession(s, p) : s \in SessionIds, p \in Clients}
      \cup {EndShare(s) : s \in SessionIds}
      \cup {HostMsg(s) : s \in SessionIds} \cup {ClientMsg(s) : s \in SessionIds}
      \cup {CloseWriter(reason) : reason \in Reasons}

(* A loop over a Go map writes to several clients in no particular order:  *)
(* what one loop writes to a client is a set, and a handler that runs      *)
(* several loops leaves a sequence of sets.                                *)
Outbox == [Clients -> Seq(SUBSET Message)]
Gauge  == [rooms : Int, users : Int, sessions : Int]

IsRoomMap(rms) == DOMAIN rms \subseteq RoomIds /\ rms \in [DOMAIN rms -> Room]

TypeOK ==
    /\ connected \in PartialFn(Clients, RoomIds \cup {NoRoom})
    /\ IsRoomMap(rooms)
    /\ lookup \subseteq TurnName
    /\ outbox \in Outbox
    /\ gauge \in Gauge
    /\ panicked \in BOOLEAN
-----------------------------------------------------------------------------
(* Writing to the channels of clients *)

Quiet == [c \in Clients |-> << >>]
Write(out, msgs) ==
    [c \in Clients |-> IF msgs[c] = {} THEN out[c] ELSE Append(out[c], msgs[c])]
To(c, msg) == [d \in Clients |-> IF d = c THEN {msg} ELSE {}]
notifyInfoChanged(users) ==
    [c \in Clients |-> IF c \in DOMAIN users THEN {RoomMsg(users)} ELSE {}]
-----------------------------------------------------------------------------
(* Rooms, users and sessions *)

NewUser(isOwner) == [Streaming |-> FALSE, Owner |-> isOwner, CanShare |-> TRUE]
HostedBy(room, c)  == {s \in DOMAIN room.sessions : room.sessions[s].host = c}
Involving(room, c) ==
    {s \in DOMAIN room.sessions : c \in {room.sessions[s].host, room.sessions[s].client}}
Presenters(users) == {c \in DOMAIN users : users[c].Streaming}

(* Faulty: the two names of a session are told apart by the wrong words.   *)
MisspeltTurnNames(mode, ids) == IF mode = "turn" THEN ids \X {"host", "guest"} ELSE {}

(* The user names newSession and closeSession hand to the TURN server.     *)
TurnNames(mode, ids) == IF mode = "turn" THEN ids \X {"host", "client"} ELSE {}

UsedIds(rms) == UNION {DOMAIN rms[r].sessions : r \in DOMAIN rms}

(* Fresh ids for one session per pair of peers (xid.New is never reused,   *)
(* so no live session of any room has one of them).                        *)
FreshSessions(rms, pairs) ==
    UNION {Bijection(S, pairs) : S \in SUBSET (SessionIds \ UsedIds(rms))}

HostSessions(new) ==
    [c \in Clients |->
        {HostSession(s, new[s].client) : s \in {t \in DOMAIN new : new[t].host = c}}]
ClientSessions(new) ==
    [c \in Clients |->
        {ClientSession(s, new[s].host) : s \in {t \in DOMAIN new : new[t].client = c}}]

(* The sessions of a loop that calls newSession for each pair of peers.    *)
Open(rms, id, new) == [rms EXCEPT ![id].sessions = Merge(@, new)]
(* Faulty: the sessions are announced before the room.                     *)
AnnounceFirst(out, new) ==
    [c \in Clients |->
        Write(Write(Quiet, HostSessions(new)), ClientSessions(new))[c] \o out[c]]
Announce(out, new) == Write(Write(out, HostSessions(new)), ClientSessions(new))

Count(g, nRooms, nUsers, nSessions) ==
    [rooms |-> g.rooms + nRooms, users |-> g.users + nUsers,
     sessions |-> g.sessions + nSessions]

(* Faulty: the credentials of the ended sessions stay; nobody is notified. *)
CloseKeepingNames(id, room, ended, gone, out) ==
    /\ rooms' = [rooms EXCEPT ![id] = [room EXCEPT !.sessions = Without(@, ended)]]
    /\ lookup' = lookup
    /\ outbox' = Write(out, notifyInfoChanged(room.users))
    /\ gauge' = Count(gauge, 0, -gone, -Cardinality(ended))
CloseSilently(id, room, ended, gone, out) ==
    /\ rooms' = [rooms EXCEPT ![id] = [room EXCEPT !.sessions = Without(@, ended)]]
    /\ lookup' = lookup \ TurnNames(room.mode, ended)
    /\ outbox' = out
    /\ gauge' = Count(gauge, 0, -gone, -Cardinality(ended))

(* A handler that ends some sessions of room id and then notifies everyone *)
(* left in it; msgs is what it had written before.                         *)
CloseAndNotify(id, room, ended, gone, out) ==
    /\ rooms' = [rooms EXCEPT ![id] = [room EXCEPT !.sessions = Without(@, ended)]]
    /\ lookup' = lookup \ TurnNames(room.mode, ended)
    /\ outbox' = Write(out, notifyInfoChanged(room.users))
    /\ gauge' = Count(gauge, 0, -gone, -Cardinality(ended))
-----------------------------------------------------------------------------
(* Disconnected.executeNoError, on the maps as the handler that runs it    *)
(* left them                                                               *)

(* EndShare to whoever is at the other end of a session of c.              *)
EndShares(room, c, stay) ==
    [p \in Clients |->
        IF p \in stay
          THEN {EndShare(s) : s \in Involving(room, c) \cap Involving(room, p)}
          ELSE {}]

(* Faulty: nobody takes over; somebody takes over whoever leaves.          *)
NoSuccession(users, c) == {Without(users, {c})}
AlwaysSuccession(users, c) ==
    LET rest == Without(users, {c}) IN
    {[u \in DOMAIN rest |-> [rest[u] EXCEPT !.Owner = u = next]] : next \in DOMAIN rest}

(* The users left when c goes: if c was the owner, the first user the loop *)
(* over the map meets becomes the owner.                                   *)
Successions(users, c) ==
    LET rest == Without(users, {c}) IN
    IF users[c].Owner
      THEN {[rest EXCEPT ![next].Owner = TRUE] : next \in DOMAIN rest}
      ELSE {rest}

LeaveRoom(c, id, rms, names, out, g) ==
    LET room   == rms[id]
        stay   == DOMAIN room.users \ {c}
        ended  == Involving(room, c)
        told   == Write(out, EndShares(room, c, stay))
    IN  \/ /\ stay = {}
           /\ rooms' = Without(rms, {id})
           /\ lookup' = names \ TurnNames(room.mode, DOMAIN room.sessions)
           /\ outbox' = told
           /\ gauge' = Count(g, -1, -1, -Cardinality(DOMAIN room.sessions))
        \/ \E users \in Successions(room.users, c) :
           /\ stay # {}
           /\ rooms' = [rms EXCEPT ![id] = [room EXCEPT !.users = users,
                                                       !.sessions = Without(@, ended)]]
           /\ lookup' = names \ TurnNames(room.mode, ended)
           /\ outbox' = Write(told, notifyInfoChanged(users))
           /\ gauge' = Count(g, 0, -1, -Cardinality(ended))

executeNoError(c, reason, conn, rms, names, out, g) ==
    LET id  == conn[c]
        bye == Write(out, To(c, CloseWriter(reason)))
    IN  /\ connected' = Without(conn, {c})
        /\ UNCHANGED panicked
        /\ IF id # NoRoom /\ id \in DOMAIN rms /\ c \in DOMAIN rms[id].users
             THEN LeaveRoom(c, id, rms, names, bye, g)
             ELSE /\ rooms' = rms
                  /\ lookup' = names
                  /\ outbox' = bye
                  /\ gauge' = g

Leave(c, reason)  == executeNoError(c, reason, connected, rooms, lookup, Quiet, gauge)
Refuse(c) == Leave(c, "error")
-----------------------------------------------------------------------------
(* Connecting, creating and joining a room *)

(* A connection id is new when the client of an earlier one is gone.       *)
InUse(c) == c \in DOMAIN connected \/ \E r \in DOMAIN rooms : c \in DOMAIN rooms[r].users

Connected(c) ==
    /\ ~InUse(c)
    /\ connected' = Assign(connected, c, NoRoom)
    /\ outbox' = Quiet
    /\ UNCHANGED <<rooms, lookup, gauge, panicked>>

(* Faulty: the ban is looked up by connection instead of by address.       *)
BannedConnection(c, id) == id \in DOMAIN rooms /\ c \in rooms[id].banned
Banned(c, id) == id \in DOMAIN rooms /\ Addr[c] \in rooms[id].banned
JoinRefused(c, id) ==
    connected[c] # NoRoom \/ id \notin DOMAIN rooms \/ Banned(c, id)

(* The user is in the room and everyone was told before the handler asks   *)
(* for the TURN addresses; when that fails the loop makes it leave again.  *)
JoinRoom(c, id) ==
    LET users == Assign(rooms[id].users, c, NewUser(FALSE))
        conn  == [connected EXCEPT ![c] = id]
        rms   == [rooms EXCEPT ![id].users = users]
        out   == Write(Quiet, notifyInfoChanged(users))
        pairs == {[host |-> p, client |-> c] : p \in Presenters(users) \ {c}}
    IN  /\ ~JoinRefused(c, id)
        /\ \/ executeNoError(c, "error", conn, rms, lookup, out, Count(gauge, 0, 1, 0))
           \/ \E new \in FreshSessions(rms, pairs) :
              /\ connected' = conn
              /\ rooms' = Open(rms, id, new)
              /\ lookup' = lookup \cup TurnNames(rooms[id].mode, DOMAIN new)
              /\ outbox' = Announce(out, new)
              /\ gauge' = Count(gauge, 0, 1, Cardinality(DOMAIN new))
              /\ UNCHANGED panicked

Join(c, id) ==
    \/ JoinRefused(c, id) /\ Refuse(c)
    \/ JoinRoom(c, id)

LoginRequired(mode) ==
    \/ AuthMode = "all"
    \/ AuthMode = "turn" /\ mode \notin {"stun", "local"}

OpenRoom(c, id, mode, leave) ==
    LET users == Assign(EmptyMap, c, NewUser(TRUE)) IN
    /\ connected' = [connected EXCEPT ![c] = id]
    /\ rooms' = Assign(rooms, id,
            [mode |-> mode, closeOnOwnerLeave |-> leave, users |-> users,
             sessions |-> EmptyMap, banned |-> {}])
    /\ outbox' = Write(Quiet, notifyInfoChanged(users))
    /\ gauge' = Count(gauge, 1, 1, 0)
    /\ UNCHANGED <<lookup, panicked>>

Create(c, id, mode, leave, joinIfExist) ==
    LET taken   == id \in DOMAIN rooms
        refused == connected[c] # NoRoom
                     \/ IF taken THEN ~joinIfExist
                                 ELSE LoginRequired(mode) /\ c \notin LoggedIn
    IN  \/ refused /\ Refuse(c)
        \/ ~refused /\ taken /\ Join(c, id)
        \/ ~refused /\ ~taken /\ OpenRoom(c, id, mode, leave)
-----------------------------------------------------------------------------
(* Messages of a member of a room: CurrentRoom refuses the others *)

HasRoom(c) == connected[c] # NoRoom /\ connected[c] \in DOMAIN rooms
CurrentRoom(c) == rooms[connected[c]]

(* room.Users[c].x for a c that is no user of the room is a nil dereference *)
Deref(c, room) == panicked' = (c \notin DOMAIN room.users)

StopStreaming(room, c) == [room EXCEPT !.users[c].Streaming = FALSE]

Name(c) ==
    \/ ~HasRoom(c) /\ Refuse(c)
    \/ /\ HasRoom(c)
       /\ CloseAndNotify(connected[c], CurrentRoom(c), {}, 0, Quiet)
       /\ Deref(c, CurrentRoom(c))
       /\ UNCHANGED connected

(* Faulty: nobody looks whether somebody else presents.                    *)
ShareForbidden(c, users) == c \in DOMAIN users /\ ~users[c].CanShare
ShareDenied(c, users) ==
    \/ c \in DOMAIN users /\ ~users[c].CanShare
    \/ Presenters(users) \ {c} # {}

(* As in JoinRoom, the user is marked as streaming before the handler asks *)
(* for the TURN addresses.                                                 *)
Share(c, id) ==
    LET users == [rooms[id].users EXCEPT ![c].Streaming = TRUE]
        rms   == [rooms EXCEPT ![id].users = users]
        pairs == {[host |-> c, client |-> p] : p \in DOMAIN users \ {c}}
    IN  \/ executeNoError(c, "error", connected, rms, lookup, Quiet, gauge)
        \/ \E new \in FreshSessions(rms, pairs) :
           /\ rooms' = Open(rms, id, new)
           /\ lookup' = lookup \cup TurnNames(rooms[id].mode, DOMAIN new)
           /\ outbox' = Write(Announce(Quiet, new), notifyInfoChanged(users))
           /\ gauge' = Count(gauge, 0, 0, Cardinality(DOMAIN new))
           /\ Deref(c, rooms[id])
           /\ UNCHANGED connected

StartShare(c) ==
    LET denied == HasRoom(c) => ShareDenied(c, CurrentRoom(c).users) IN
    \/ denied /\ Refuse(c)
    \/ ~denied /\ Share(c, connected[c])

StopShare(c) ==
    LET room  == CurrentRoom(c)
        ended == HostedBy(room, c)
        told  == [p \in Clients |->
                    IF p \in DOMAIN room.users
                      THEN {EndShare(s) : s \in {t \in ended : room.sessions[t].client = p}}
                      ELSE {}]
    IN  \/ ~HasRoom(c) /\ Refuse(c)
        \/ /\ HasRoom(c)
           /\ CloseAndNotify(connected[c], StopStreaming(room, c), ended, 0, Write(Quiet, told))
           /\ Deref(c, room)
           /\ UNCHANGED connected

(* hostoffer and hostice go from the host of session s to its client,      *)
(* clientanswer and clientice from the client to the host.                 *)
Relay(c, s, from, to, msg) ==
    LET sessions == CurrentRoom(c).sessions
        denied   == HasRoom(c) => s \in DOMAIN sessions /\ sessions[s][from] # c
    IN  \/ denied /\ Refuse(c)
        \/ /\ ~denied /\ s \notin DOMAIN sessions
           /\ outbox' = Quiet
           /\ UNCHANGED <<connected, rooms, lookup, gauge, panicked>>
        \/ /\ ~denied /\ s \in DOMAIN sessions
           /\ outbox' = Write(Quiet, To(sessions[s][to], msg))
           /\ Deref(sessions[s][to], CurrentRoom(c))
           /\ UNCHANGED <<connected, rooms, lookup, gauge>>

HostRelay(c, s)   == Relay(c, s, "host", "client", HostMsg(s))
ClientRelay(c, s) == Relay(c, s, "client", "host", ClientMsg(s))
-----------------------------------------------------------------------------
(* What the owner of a room does to the others.  A request of a client     *)
(* that is not the owner of its room is refused, and so is one whose       *)
(* target is the owner itself or no user of the room.                      *)

OwnsRoom(c) ==
    HasRoom(c) /\ c \in DOMAIN CurrentRoom(c).users /\ CurrentRoom(c).users[c].Owner
(* Faulty: any member may.                                                 *)
AnyoneMayTarget(c, target) == HasRoom(c) /\ target \in DOMAIN CurrentRoom(c).users \ {c}
MayTarget(c, target) ==
    OwnsRoom(c) /\ target \in DOMAIN CurrentRoom(c).users \ {c}

EnableAll(c) ==
    LET room  == CurrentRoom(c)
        users == [u \in DOMAIN room.users |->
                    IF u # c THEN [room.users[u] EXCEPT !.CanShare = TRUE] ELSE room.users[u]]
    IN  \/ ~OwnsRoom(c) /\ Refuse(c)
        \/ /\ OwnsRoom(c)
           /\ CloseAndNotify(connected[c], [room EXCEPT !.users = users], {}, 0, Quiet)
           /\ UNCHANGED <<connected, panicked>>

DisableAll(c) ==
    LET room  == CurrentRoom(c)
        users == [u \in DOMAIN room.users |->
                    IF u # c
                      THEN [room.users[u] EXCEPT !.CanShare = FALSE, !.Streaming = FALSE]
                      ELSE room.users[u]]
        ended == UNION {HostedBy(room, u) : u \in Presenters(room.users) \ {c}}
    IN  \/ ~OwnsRoom(c) /\ Refuse(c)
        \/ /\ OwnsRoom(c)
           /\ CloseAndNotify(connected[c], [room EXCEPT !.users = users], ended, 0, Quiet)
           /\ UNCHANGED <<connected, panicked>>

(* When the target is not streaming nothing happens and nobody is told.    *)
OwnerStopShare(c, target) ==
    LET room == CurrentRoom(c) IN
    \/ ~MayTarget(c, target) /\ Refuse(c)
    \/ /\ MayTarget(c, target) /\ room.users[target].Streaming
       /\ CloseAndNotify(connected[c], StopStreaming(room, target),
                         HostedBy(room, target), 0, Quiet)
       /\ UNCHANGED <<connected, panicked>>
    \/ /\ MayTarget(c, target) /\ ~room.users[target].Streaming
       /\ outbox' = Quiet
       /\ UNCHANGED <<connected, rooms, lookup, gauge, panicked>>

ToggleSharePermission(c, target) ==
    LET room  == CurrentRoom(c)
        user  == room.users[target]
        stops == user.CanShare /\ user.Streaming
        next  == [user EXCEPT !.CanShare = ~user.CanShare,
                              !.Streaming = user.Streaming /\ ~stops]
        ended == IF stops THEN HostedBy(room, target) ELSE {}
    IN  \/ ~MayTarget(c, target) /\ Refuse(c)
        \/ /\ MayTarget(c, target)
           /\ CloseAndNotify(connected[c], [room EXCEPT !.users[target] = next], ended, 0, Quiet)
           /\ UNCHANGED <<connected, panicked>>

(* Faulty: the loop goes on serving the target; the target still counts.   *)
EvictButServe(target, id, room, reason) ==
    /\ CloseAndNotify(id, [room EXCEPT !.users = Without(@, {target})],
            Involving(room, target), 1, Write(Quiet, To(target, CloseWriter(reason))))
    /\ UNCHANGED <<connected, panicked>>
EvictUncounted(target, id, room, reason) ==
    /\ connected' = Without(connected, {target})
    /\ CloseAndNotify(id, [room EXCEPT !.users = Without(@, {target})],
            Involving(room, target), 0, Write(Quiet, To(target, CloseWriter(reason))))
    /\ UNCHANGED panicked

(* kick and ban take the target out of both maps, end its sessions without *)
(* an EndShare, tell the target and then everyone left.                    *)
Evict(target, id, room, reason) ==
    /\ connected' = Without(connected, {target})
    /\ CloseAndNotify(id, [room EXCEPT !.users = Without(@, {target})],
            Involving(room, target), 1, Write(Quiet, To(target, CloseWriter(reason))))
    /\ UNCHANGED panicked

Kick(c, target) ==
    \/ ~MayTarget(c, target) /\ Refuse(c)
    \/ MayTarget(c, target) /\ Evict(target, connected[c], CurrentRoom(c), "kicked")

Ban(c, target) ==
    \/ ~MayTarget(c, target) /\ Refuse(c)
    \/ /\ MayTarget(c, target)
       /\ Evict(target, connected[c],
                [CurrentRoom(c) EXCEPT !.banned = @ \cup {Addr[target]}], "banned")

(* Dissolve makes the checks of CurrentRoom itself, with the same outcome. *)
Dissolve(c) ==
    LET room    == CurrentRoom(c)
        members == DOMAIN room.users
        bye     == CloseWriter("dissolved")
    IN  \/ ~OwnsRoom(c) /\ Refuse(c)
        \/ /\ OwnsRoom(c)
           /\ connected' = Without(connected, members)
           /\ rooms' = Without(rooms, {connected[c]})
           /\ lookup' = lookup \ TurnNames(room.mode, DOMAIN room.sessions)
           /\ outbox' = Write(Quiet, [p \in Clients |-> IF p \in members THEN {bye} ELSE {}])
           /\ gauge' = Count(gauge, -1, -Cardinality(members), -Cardinality(DOMAIN room.sessions))
           /\ UNCHANGED panicked

Unknown(c)      == Refuse(c)            \* an owner action of no known name
Exit(c)         == Leave(c, "left")
Disconnected(c) == Leave(c, "read")
-----------------------------------------------------------------------------
Init ==
    /\ connected = EmptyMap
    /\ rooms = EmptyMap
    /\ lookup = {}
    /\ outbox = Quiet
    /\ gauge = [rooms |-> 0, users |-> 0, sessions |-> 0]
    /\ panicked = FALSE

(* One message of a connected client.                                      *)
Execute(c) ==
    \/ \E id \in RoomIds, mode \in Modes, leave \in OwnerLeaveChoices, join \in BOOLEAN :
          Create(c, id, mode, leave, join)
    \/ \E id \in RoomIds : Join(c, id)
    \/ Name(c)
    \/ StartShare(c)
    \/ StopShare(c)
    \/ \E s \in SessionIds : HostRelay(c, s)
    \/ \E s \in SessionIds : ClientRelay(c, s)
    \/ EnableAll(c)
    \/ DisableAll(c)
    \/ \E target \in Clients : OwnerStopShare(c, target)
    \/ \E target \in Clients : ToggleSharePermission(c, target)
    \/ \E target \in Clients : Kick(c, target)
    \/ \E target \in Clients : Ban(c, target)
    \/ Dissolve(c)
    \/ Unknown(c)
    \/ Exit(c)
    \/ Disconnected(c)

Next ==
    /\ ~panicked
    /\ \/ \E c \in Clients : Connected(c)
       \/ \E c \in DOMAIN connected : Execute(c)

Spec == Init /\ [][Next]_vars
-----------------------------------------------------------------------------
(* What the main loop keeps true between two messages.                     *)

(* The loop keeps membership twice, in connected and in the users of each  *)
(* room: create, join, kick, ban, dissolve and every way to leave change   *)
(* both alike.  (No client is a user of the room it is not connected to,   *)
(* and none is connected to a room that does not list it.)                 *)
Agree(conn, rms) ==
    /\ \A r \in DOMAIN rms : \A c \in DOMAIN rms[r].users : c \in DOMAIN conn /\ conn[c] = r
    /\ \A c \in DOMAIN conn : conn[c] # NoRoom =>
          conn[c] \in DOMAIN rms /\ c \in DOMAIN rms[conn[c]].users
MembershipAgrees == Agree(connected, rooms)

(* An open room has users and exactly one of them is its owner, whoever    *)
(* leaves, is kicked or takes over (event_disconnected.go:61-81).          *)
HasOneOwner(users) ==
    \E o \in DOMAIN users : \A c \in DOMAIN users : users[c].Owner <=> c = o
OneOwner == \A r \in DOMAIN rooms : HasOneOwner(rooms[r].users)

(* At most one user of a room streams, and only while the owner lets it    *)
(* share: every way to take the permission also stops the stream.          *)
AtMostOnePresenter(users) ==
    \A c \in Presenters(users) : users[c].CanShare /\ Presenters(users) = {c}
OnePresenter == \A r \in DOMAIN rooms : AtMostOnePresenter(rooms[r].users)

(* The sessions of a room are those from whoever streams to every other    *)
(* user: nobody who joins is left without one, none outlives its stream or *)
(* one of its ends, and none exists when nobody streams.                   *)
Views(users) ==
    {p \in Session : p.host \in Presenters(users) /\ p.client \in DOMAIN users \ {p.host}}
SessionsCoverViewers ==
    \A r \in DOMAIN rooms : Range(rooms[r].sessions) = Views(rooms[r].users)

(* Session ids are unique over all rooms, and the TURN server accepts the  *)
(* two user names of each live session of a room in TURN mode, and no      *)
(* other: a session that ends takes its credentials with it.               *)
IdsDisjoint(rms) ==
    \A r, q \in DOMAIN rms : r # q => DOMAIN rms[r].sessions \cap DOMAIN rms[q].sessions = {}
NamesOf(rms) == UNION {TurnNames(rms[r].mode, DOMAIN rms[r].sessions) : r \in DOMAIN rms}
CredentialsLive == IdsDisjoint(rooms) /\ lookup = NamesOf(rooms)

(* The counters that /metrics exports balance: created less closed is what *)
(* is open, joined less left is who is in a room.                          *)
MetricsBalance ==
    gauge = [rooms    |-> Cardinality(DOMAIN rooms),
             users    |-> Cardinality(UNION {{r} \X DOMAIN rooms[r].users : r \in DOMAIN rooms}),
             sessions |-> Cardinality(UsedIds(rooms))]

(* No handler reaches for a user that is not in the room: the relays and   *)
(* share, stopshare and name use room.Users[id] without a check.           *)
NoPanic == ~panicked

(* Every open room has a user whose connection the server still serves.    *)
RoomsAreServed ==
    \A r \in DOMAIN rooms : DOMAIN rooms[r].users \cap DOMAIN connected # {}
-----------------------------------------------------------------------------
(* What one message of a client may do.                                    *)

RoomMsgs(out, c) == {i \in DOMAIN out[c] : \E m \in out[c][i] : m.type = "room"}

(* Whenever the users of a room change (someone joins, leaves, takes over, *)
(* starts or stops to share, is allowed or forbidden to), each user of the *)
(* room is told all of them, and the last word it hears is the new state.  *)
EveryChangeIsTold ==
    [][\A r \in DOMAIN rooms' :
          (r \in DOMAIN rooms => rooms[r].users # rooms'[r].users) =>
              \A c \in DOMAIN rooms'[r].users :
                 \E i \in RoomMsgs(outbox', c) :
                    /\ outbox'[c][i] = {RoomMsg(rooms'[r].users)}
                    /\ \A j \in RoomMsgs(outbox', c) : j <= i]_vars

(* A client that enters a room hears of the room before anything else: the *)
(* page treats any other first message as a failure to join.               *)
RoomComesFirst ==
    [][\A c \in DOMAIN connected \cap DOMAIN connected' :
          connected[c] = NoRoom /\ connected'[c] # NoRoom =>
              outbox'[c] # << >> /\ \E u \in {rooms'[connected'[c]].users} :
                                       outbox'[c][1] = {RoomMsg(u)}]_vars

(* The loop forgets a connection in the step that ends its write loop: a   *)
(* CloseWriter is the last thing written to it, is written once, and goes  *)
(* to nobody the loop still serves.  Nothing is written to a client that   *)
(* is gone, whose channel nobody empties.                                  *)
ClosedOnce ==
    [][\A c \in Clients :
        LET out == outbox'[c]
            closing == {i \in DOMAIN out : \E m \in out[i] : m.type = "closewriter"}
        IN  /\ outbox'[c] # << >> => c \in DOMAIN connected
            /\ closing = IF c \in DOMAIN connected \ DOMAIN connected'
                           THEN {Len(out)} ELSE {}]_vars

(* While a room stays open nobody comes into it from a banned address, by  *)
(* join or by create with joinIfExist, and a ban is never lifted.          *)
BanHolds ==
    [][\A r \in DOMAIN rooms \cap DOMAIN rooms' :
          /\ rooms[r].banned \subseteq rooms'[r].banned
          /\ \A c \in DOMAIN rooms'[r].users \ DOMAIN rooms[r].users :
                Addr[c] \notin rooms'[r].banned]_vars

(* A room keeps its owner for as long as the owner is in it.               *)
OwnerKeepsRoom ==
    [][\A r \in DOMAIN rooms \cap DOMAIN rooms' :
          \A c \in DOMAIN rooms[r].users \cap DOMAIN rooms'[r].users :
              rooms[r].users[c].Owner => rooms'[r].users[c].Owner]_vars
=============================================================================
