---------------------------- MODULE RoomsProofs ----------------------------
(***************************************************************************)
(* Proofs about the main loop, for every number of clients, rooms and      *)
(* sessions: first what holds in every state, then what one step may do,   *)
(* that the counters balance, and that the loop implements RoomService.    *)
(*                                                                         *)
(* Every message the loop handles is a step of one of ten kinds, which     *)
(* StepKinds says once; each property of steps is then a lemma about each  *)
(* kind.                                                                   *)
(***************************************************************************)
EXTENDS RoomsRefinement, FiniteSetTheorems, TLAPS

(* Maps *)

(* A partial function from X to Y is a function from a subset of X.        *)
LEMMA PartialFnIs ==
    ASSUME NEW X, NEW Y, NEW f
    PROVE  f \in PartialFn(X, Y) <=> DOMAIN f \subseteq X /\ f \in [DOMAIN f -> Y]
  BY DEF PartialFn

(* Adding an entry to a map.                                               *)
LEMMA AssignType ==
    ASSUME NEW X, NEW Y, NEW f \in PartialFn(X, Y), NEW x \in X, NEW v \in Y
    PROVE  Assign(f, x, v) \in PartialFn(X, Y)
  BY PartialFnIs DEF Assign

(* Removing entries from a map.                                            *)
LEMMA WithoutType ==
    ASSUME NEW X, NEW Y, NEW f \in PartialFn(X, Y), NEW S
    PROVE  /\ Without(f, S) \in PartialFn(X, Y)
           /\ DOMAIN Without(f, S) = DOMAIN f \ S
  BY PartialFnIs DEF Without, Restrict

(* Joining two maps.                                                       *)
LEMMA MergeType ==
    ASSUME NEW X, NEW Y, NEW f \in PartialFn(X, Y), NEW g \in PartialFn(X, Y)
    PROVE  /\ Merge(f, g) \in PartialFn(X, Y)
           /\ DOMAIN Merge(f, g) = DOMAIN f \cup DOMAIN g
  BY PartialFnIs DEF Merge

(* Replacing the entry of a key that is there.                             *)
LEMMA UpdateType ==
    ASSUME NEW X, NEW Y, NEW f \in PartialFn(X, Y), NEW x \in DOMAIN f, NEW v \in Y
    PROVE  /\ [f EXCEPT ![x] = v] \in PartialFn(X, Y)
           /\ DOMAIN [f EXCEPT ![x] = v] = DOMAIN f
  BY PartialFnIs

(* The map with no entries.                                                *)
LEMMA EmptyType ==
    ASSUME NEW X, NEW Y
    PROVE  EmptyMap \in PartialFn(X, Y) /\ DOMAIN EmptyMap = {}
  BY PartialFnIs DEF EmptyMap
-----------------------------------------------------------------------------
(* Types of the helpers *)

Conn  == PartialFn(Clients, RoomIds \cup {NoRoom})
Users == PartialFn(Clients, User)
Sessions == PartialFn(SessionIds, Session)
Batch == [Clients -> SUBSET Message]

(* Writing messages to the clients leaves well-formed channels.            *)
LEMMA WriteType ==
    ASSUME NEW out \in Outbox, NEW msgs \in Batch
    PROVE  Write(out, msgs) \in Outbox
  BY DEF Write, Outbox, Batch

LEMMA QuietType == Quiet \in Outbox
  BY DEF Quiet, Outbox

(* The messages the handlers write are messages.                           *)
LEMMA MessageType ==
    /\ \A users \in Users : RoomMsg(users) \in Message
    /\ \A s \in SessionIds : EndShare(s) \in Message /\ HostMsg(s) \in Message
                                 /\ ClientMsg(s) \in Message
    /\ \A s \in SessionIds, p \in Clients :
          HostSession(s, p) \in Message /\ ClientSession(s, p) \in Message
    /\ \A reason \in Reasons : CloseWriter(reason) \in Message
  BY DEF Message, Users

LEMMA BatchType ==
    /\ \A users \in Users : notifyInfoChanged(users) \in Batch
    /\ \A c \in Clients, m \in Message : To(c, m) \in Batch
  BY MessageType DEF notifyInfoChanged, To, Batch

LEMMA CountType ==
    ASSUME NEW g \in Gauge, NEW i \in Int, NEW j \in Int, NEW k \in Int
    PROVE  Count(g, i, j, k) \in Gauge
  BY DEF Count, Gauge

(* Sets of session ids are finite.                                         *)
LEMMA SessionCount ==
    ASSUME NEW S \in SUBSET SessionIds
    PROVE  Cardinality(S) \in Nat /\ -Cardinality(S) \in Int
  <1>1. IsFiniteSet(S)
    BY ClientsAssumption, FS_Subset
  <1> QED
    BY <1>1, FS_CardinalityType

(* The fields of a room.                                                   *)
LEMMA RoomType ==
    ASSUME NEW room \in Room
    PROVE  /\ room.users \in Users /\ DOMAIN room.users \subseteq Clients
           /\ room.sessions \in Sessions /\ DOMAIN room.sessions \subseteq SessionIds
           /\ \A u \in Users : [room EXCEPT !.users = u] \in Room
           /\ \A s \in Sessions : [room EXCEPT !.sessions = s] \in Room
           /\ \A u \in Users, s \in Sessions :
                 [room EXCEPT !.users = u, !.sessions = s] \in Room
           /\ \A b \in SUBSET Addrs : [room EXCEPT !.banned = b] \in Room
  BY PartialFnIs DEF Room, Users, Sessions

LEMMA TurnNamesType ==
    ASSUME NEW S \in SUBSET SessionIds, NEW mode
    PROVE  TurnNames(mode, S) \subseteq TurnName
  BY DEF TurnNames, TurnName

(* Changing the map of rooms.                                              *)
LEMMA RoomMapType ==
    ASSUME NEW rms, IsRoomMap(rms)
    PROVE  /\ \A id \in DOMAIN rms : rms[id] \in Room
           /\ \A id \in RoomIds, room \in Room : IsRoomMap(Assign(rms, id, room))
           /\ \A id : IsRoomMap(Without(rms, {id}))
           /\ UsedIds(rms) \subseteq SessionIds
  <1>1. \A id \in DOMAIN rms : rms[id] \in Room
    BY DEF IsRoomMap
  <1>2. \A id \in RoomIds, room \in Room : IsRoomMap(Assign(rms, id, room))
    BY DEF IsRoomMap, Assign
  <1>4. \A id : IsRoomMap(Without(rms, {id}))
    BY DEF IsRoomMap, Without, Restrict
  <1>5. UsedIds(rms) \subseteq SessionIds
    BY <1>1, RoomType DEF UsedIds
  <1> QED
    BY <1>1, <1>2, <1>4, <1>5

(* Replacing a room.                                                       *)
LEMMA ReplaceType ==
    ASSUME NEW rms, IsRoomMap(rms), NEW id, NEW room \in Room
    PROVE  IsRoomMap([rms EXCEPT ![id] = room])
  BY DEF IsRoomMap
-----------------------------------------------------------------------------
(* Types of the steps *)

LEMMA SessionMessagesType ==
    ASSUME NEW new \in Sessions
    PROVE  HostSessions(new) \in Batch /\ ClientSessions(new) \in Batch
  <1>1. \A s \in DOMAIN new : s \in SessionIds /\ new[s] \in Session
    BY PartialFnIs DEF Sessions
  <1>2. \A s \in DOMAIN new : new[s].host \in Clients /\ new[s].client \in Clients
    BY <1>1 DEF Session
  <1>3. \A s \in DOMAIN new : /\ HostSession(s, new[s].client) \in Message
                              /\ ClientSession(s, new[s].host) \in Message
    BY <1>1, <1>2, MessageType
  <1> QED
    BY <1>3 DEF HostSessions, ClientSessions, Batch

LEMMA AnnounceType ==
    ASSUME NEW out \in Outbox, NEW new \in Sessions
    PROVE  Announce(out, new) \in Outbox
  BY SessionMessagesType, WriteType DEF Announce

(* Fresh sessions have ids no live session has, and one id for each pair.  *)
LEMMA FreshType ==
    ASSUME NEW rms, NEW pairs \in SUBSET Session, NEW new \in FreshSessions(rms, pairs)
    PROVE  /\ new \in Sessions
           /\ DOMAIN new \subseteq SessionIds \ UsedIds(rms)
           /\ Range(new) = pairs
  BY PartialFnIs DEF FreshSessions, Bijection, Injection, Surjection, Range, Sessions

LEMMA OpenType ==
    ASSUME NEW rms, IsRoomMap(rms), NEW id \in DOMAIN rms, NEW new \in Sessions
    PROVE  IsRoomMap(Open(rms, id, new))
  <1>1. rms[id] \in Room /\ rms[id].sessions \in Sessions
    BY RoomMapType, RoomType
  <1>2. Merge(rms[id].sessions, new) \in Sessions
    BY <1>1, MergeType DEF Sessions
  <1>3. [rms[id] EXCEPT !.sessions = Merge(rms[id].sessions, new)] \in Room
    BY <1>1, <1>2, RoomType
  <1>4. PICK room \in Room : room = [rms[id] EXCEPT !.sessions = Merge(rms[id].sessions, new)]
    BY <1>3
  <1>5. Open(rms, id, new) = [rms EXCEPT ![id] = room]
    BY <1>4 DEF Open
  <1>6. IsRoomMap([rms EXCEPT ![id] = room])
    BY ReplaceType
  <1> QED
    BY <1>5, <1>6

LEMMA UserChangeType ==
    ASSUME NEW rms, IsRoomMap(rms), NEW id \in DOMAIN rms, NEW users \in Users
    PROVE  IsRoomMap([rms EXCEPT ![id].users = users])
  <1>1. [rms[id] EXCEPT !.users = users] \in Room
    BY RoomMapType, RoomType
  <1>2. PICK room \in Room : room = [rms[id] EXCEPT !.users = users]
    BY <1>1
  <1>3. [rms EXCEPT ![id].users = users] = [rms EXCEPT ![id] = room]
    BY <1>2
  <1> QED
    BY <1>3, ReplaceType

LEMMA CloseAndNotifyType ==
    ASSUME TypeOK, NEW id \in DOMAIN rooms, NEW room \in Room,
           NEW ended \in SUBSET SessionIds, NEW gone \in Int, NEW out \in Outbox,
           CloseAndNotify(id, room, ended, gone, out)
    PROVE  IsRoomMap(rooms)' /\ (lookup \subseteq TurnName)' /\ (outbox \in Outbox)'
              /\ (gauge \in Gauge)'
  <1>1. Without(room.sessions, ended) \in Sessions
    BY RoomType, WithoutType DEF Sessions
  <1>2. IsRoomMap(rooms)'
    BY <1>1, RoomType, ReplaceType DEF CloseAndNotify, TypeOK, IsRoomMap
  <1>3. (lookup \subseteq TurnName)'
    BY DEF CloseAndNotify, TypeOK
  <1>4. (outbox \in Outbox)'
    BY RoomType, BatchType, WriteType DEF CloseAndNotify
  <1>5. (gauge \in Gauge)'
    <2>1. PICK n \in Int : n = -Cardinality(ended)
      BY SessionCount
    <2>2. gauge' = Count(gauge, 0, -gone, n)
      BY <2>1 DEF CloseAndNotify
    <2>3. -gone \in Int /\ 0 \in Int /\ gauge \in Gauge
      BY DEF TypeOK
    <2> QED
      BY <2>2, <2>3, CountType
  <1> QED
    BY <1>2, <1>3, <1>4, <1>5

LEMMA SuccessionsType ==
    ASSUME NEW users \in Users, NEW c \in DOMAIN users, NEW heirs \in Successions(users, c)
    PROVE  heirs \in Users /\ DOMAIN heirs = DOMAIN users \ {c}
  <1> DEFINE rest == Without(users, {c})
  <1>1. rest \in Users /\ DOMAIN rest = DOMAIN users \ {c}
    BY WithoutType DEF Users
  <1>2. CASE users[c].Owner
    <2>1. PICK next \in DOMAIN rest : heirs = [rest EXCEPT ![next].Owner = TRUE]
      BY <1>2 DEF Successions
    <2>2. rest[next] \in User
      BY <1>1, PartialFnIs DEF Users
    <2>3. [rest[next] EXCEPT !.Owner = TRUE] \in User
      BY <2>2 DEF User
    <2> QED
      BY <2>1, <2>3, <1>1, UpdateType DEF Users
  <1>3. CASE ~users[c].Owner
    BY <1>1, <1>3 DEF Successions
  <1> QED
    BY <1>2, <1>3

LEMMA EndSharesType ==
    ASSUME NEW room \in Room, NEW c, NEW stay
    PROVE  EndShares(room, c, stay) \in Batch
  <1>1. \A p : Involving(room, c) \cap Involving(room, p) \subseteq SessionIds
    BY RoomType DEF Involving
  <1> QED
    BY <1>1, MessageType DEF EndShares, Batch

LEMMA LeaveRoomType ==
    ASSUME NEW rms, IsRoomMap(rms), NEW id \in DOMAIN rms, NEW c \in DOMAIN rms[id].users,
           NEW names \in SUBSET TurnName, NEW out \in Outbox, NEW g \in Gauge,
           LeaveRoom(c, id, rms, names, out, g)
    PROVE  IsRoomMap(rooms)' /\ (lookup \subseteq TurnName)' /\ (outbox \in Outbox)'
              /\ (gauge \in Gauge)'
  <1> DEFINE room  == rms[id]
             stay  == DOMAIN room.users \ {c}
             ended == Involving(room, c)
             told  == Write(out, EndShares(room, c, stay))
  <1>1. room \in Room /\ DOMAIN room.sessions \subseteq SessionIds /\ room.users \in Users
    BY RoomMapType, RoomType
  <1>2. ended \subseteq SessionIds
    BY <1>1 DEF Involving
  <1>3. told \in Outbox
    BY <1>1, EndSharesType, WriteType
  <1>4. CASE stay = {}
    <2>1. /\ rooms' = Without(rms, {id})
          /\ lookup' = names \ TurnNames(room.mode, DOMAIN room.sessions)
          /\ outbox' = told
          /\ gauge' = Count(g, -1, -1, -Cardinality(DOMAIN room.sessions))
      BY <1>4 DEF LeaveRoom
    <2>2. IsRoomMap(rooms')
      BY <2>1, RoomMapType
    <2>3. gauge' \in Gauge
      BY <2>1, <1>1, SessionCount, CountType
    <2> QED
      BY <2>1, <2>2, <2>3, <1>3 DEF IsRoomMap
  <1>5. CASE stay # {}
    <2>1. PICK users \in Successions(room.users, c) :
             /\ rooms' = [rms EXCEPT ![id] = [room EXCEPT !.users = users,
                                                          !.sessions = Without(@, ended)]]
             /\ lookup' = names \ TurnNames(room.mode, ended)
             /\ outbox' = Write(told, notifyInfoChanged(users))
             /\ gauge' = Count(g, 0, -1, -Cardinality(ended))
      BY <1>5 DEF LeaveRoom
    <2>2. users \in Users
      BY <1>1, SuccessionsType
    <2>3. Without(room.sessions, ended) \in Sessions
      BY <1>1, RoomType, WithoutType DEF Sessions
    <2>4. IsRoomMap(rooms')
      <3>1. PICK new \in Room :
               new = [room EXCEPT !.users = users, !.sessions = Without(@, ended)]
        BY <2>2, <2>3, <1>1, RoomType
      <3>2. rooms' = [rms EXCEPT ![id] = new]
        BY <2>1, <3>1
      <3> QED
        BY <3>2, ReplaceType
    <2>5. outbox' \in Outbox
      BY <2>1, <2>2, <1>3, BatchType, WriteType
    <2>6. gauge' \in Gauge
      <3>1. -Cardinality(ended) \in Int
        BY <1>2, SessionCount
      <3>2. PICK n \in Int : n = -Cardinality(ended)
        BY <3>1
      <3>3. gauge' = Count(g, 0, -1, n) /\ -1 \in Int /\ 0 \in Int
        BY <2>1, <3>2
      <3> QED
        BY <3>3, CountType
    <2> QED
      BY <2>1, <2>4, <2>5, <2>6 DEF IsRoomMap
  <1> QED
    BY <1>4, <1>5

LEMMA ExecuteNoErrorType ==
    ASSUME NEW conn \in Conn, NEW c \in DOMAIN conn, NEW reason \in Reasons,
           NEW rms, IsRoomMap(rms), NEW names \in SUBSET TurnName, NEW out \in Outbox,
           NEW g \in Gauge, panicked \in BOOLEAN,
           executeNoError(c, reason, conn, rms, names, out, g)
    PROVE  TypeOK'
  <1> DEFINE bye == Write(out, To(c, CloseWriter(reason)))
             id  == conn[c]
  <1>1. c \in Clients
    BY PartialFnIs DEF Conn
  <1>2. bye \in Outbox
    BY <1>1, MessageType, BatchType, WriteType
  <1>3. (connected \in PartialFn(Clients, RoomIds \cup {NoRoom}))' /\ (panicked \in BOOLEAN)'
    BY WithoutType DEF executeNoError, Conn
  <1>4. CASE id # NoRoom /\ id \in DOMAIN rms /\ c \in DOMAIN rms[id].users
    <2>1. LeaveRoom(c, id, rms, names, bye, g)
      BY <1>4 DEF executeNoError
    <2> QED
      BY <2>1, <1>2, <1>3, <1>4, LeaveRoomType DEF TypeOK
  <1>5. CASE ~(id # NoRoom /\ id \in DOMAIN rms /\ c \in DOMAIN rms[id].users)
    <2>1. rooms' = rms /\ lookup' = names /\ outbox' = bye /\ gauge' = g
      BY <1>5 DEF executeNoError
    <2> QED
      BY <2>1, <1>2, <1>3 DEF TypeOK, IsRoomMap
  <1> QED
    BY <1>4, <1>5

LEMMA LeaveType ==
    ASSUME TypeOK, NEW c \in DOMAIN connected, NEW reason \in Reasons, Leave(c, reason)
    PROVE  TypeOK'
  BY ExecuteNoErrorType, QuietType DEF Leave, TypeOK, Conn

LEMMA RefuseType ==
    ASSUME TypeOK, NEW c \in DOMAIN connected, Refuse(c)
    PROVE  TypeOK'
  BY LeaveType DEF Refuse, Reasons
-----------------------------------------------------------------------------
(* Type correctness: one lemma per action *)

LEMMA ConnectedClient ==
    ASSUME TypeOK, NEW c \in DOMAIN connected
    PROVE  c \in Clients /\ connected[c] \in RoomIds \cup {NoRoom}
  BY PartialFnIs DEF TypeOK

LEMMA CurrentRoomType ==
    ASSUME TypeOK, NEW c \in DOMAIN connected, HasRoom(c)
    PROVE  /\ connected[c] \in DOMAIN rooms /\ CurrentRoom(c) \in Room
           /\ CurrentRoom(c) = rooms[connected[c]]
  BY RoomMapType DEF TypeOK, HasRoom, CurrentRoom

LEMMA NewUserType == \A isOwner \in BOOLEAN : NewUser(isOwner) \in User
  BY DEF NewUser, User

LEMMA ConnectedType ==
    ASSUME TypeOK, NEW c \in Clients, Connected(c)
    PROVE  TypeOK'
  <1>1. (connected \in PartialFn(Clients, RoomIds \cup {NoRoom}))'
    BY AssignType DEF Connected, TypeOK
  <1> QED
    BY <1>1, QuietType DEF Connected, TypeOK, IsRoomMap

LEMMA JoinType ==
    ASSUME TypeOK, NEW c \in DOMAIN connected, NEW id \in RoomIds, Join(c, id)
    PROVE  TypeOK'
  <1> DEFINE users == Assign(rooms[id].users, c, NewUser(FALSE))
             conn  == [connected EXCEPT ![c] = id]
             rms   == [rooms EXCEPT ![id].users = users]
             out   == Write(Quiet, notifyInfoChanged(users))
             pairs == {[host |-> p, client |-> c] : p \in Presenters(users) \ {c}}
  <1>1. CASE JoinRefused(c, id) /\ Refuse(c)
    BY <1>1, RefuseType
  <1>2. CASE JoinRoom(c, id)
    <2>1. id \in DOMAIN rooms /\ c \in Clients
      BY <1>2, ConnectedClient DEF JoinRoom, JoinRefused
    <2>2. rooms[id] \in Room /\ rooms[id].users \in Users
      BY <2>1, RoomMapType, RoomType DEF TypeOK
    <2>3. users \in Users
      BY <2>1, <2>2, NewUserType, AssignType DEF Users
    <2>4. conn \in Conn
      BY UpdateType DEF Conn, TypeOK
    <2>5. IsRoomMap(rms) /\ DOMAIN rms = DOMAIN rooms
      BY <2>1, <2>3, UserChangeType DEF TypeOK
    <2>6. out \in Outbox
      BY <2>3, QuietType, BatchType, WriteType
    <2>7. pairs \in SUBSET Session
      <3> HIDE DEF users
      <3>1. DOMAIN users \subseteq Clients
        BY <2>3, PartialFnIs DEF Users
      <3> QED
        BY <2>1, <3>1 DEF Session, Presenters
    <2>8. Count(gauge, 0, 1, 0) \in Gauge
      BY CountType DEF TypeOK
    <2>9. CASE executeNoError(c, "error", conn, rms, lookup, out, Count(gauge, 0, 1, 0))
      <3>1. "error" \in Reasons /\ c \in DOMAIN conn /\ lookup \in SUBSET TurnName
              /\ panicked \in BOOLEAN
        BY DEF Reasons, TypeOK
      <3> HIDE DEF conn, rms, out
      <3> QED
        BY <3>1, <2>4, <2>5, <2>6, <2>8, <2>9, ExecuteNoErrorType
    <2>10. ASSUME NEW new \in FreshSessions(rms, pairs),
                  /\ connected' = conn
                  /\ rooms' = Open(rms, id, new)
                  /\ lookup' = lookup \cup TurnNames(rooms[id].mode, DOMAIN new)
                  /\ outbox' = Announce(out, new)
                  /\ gauge' = Count(gauge, 0, 1, Cardinality(DOMAIN new))
                  /\ UNCHANGED panicked
           PROVE  TypeOK'
      <3> HIDE DEF conn, rms, out, pairs
      <3>1. new \in Sessions /\ DOMAIN new \subseteq SessionIds
        BY <2>7, FreshType
      <3>2. IsRoomMap(Open(rms, id, new))
        BY <2>1, <2>5, <3>1, OpenType
      <3>3. Announce(out, new) \in Outbox
        BY <2>6, <3>1, AnnounceType
      <3>4. Count(gauge, 0, 1, Cardinality(DOMAIN new)) \in Gauge
        BY <3>1, SessionCount, CountType DEF TypeOK
      <3>5. TurnNames(rooms[id].mode, DOMAIN new) \subseteq TurnName
        BY <3>1, TurnNamesType
      <3> QED
        BY <2>4, <2>10, <3>2, <3>3, <3>4, <3>5 DEF TypeOK, Conn, IsRoomMap
    <2> QED
      BY <1>2, <2>9, <2>10 DEF JoinRoom
  <1> QED
    BY <1>1, <1>2 DEF Join

LEMMA OpenRoomType ==
    ASSUME TypeOK, NEW c \in DOMAIN connected, NEW id \in RoomIds, NEW mode \in Modes,
           NEW leave \in OwnerLeaveChoices, OpenRoom(c, id, mode, leave)
    PROVE  TypeOK'
  <1> DEFINE users == Assign(EmptyMap, c, NewUser(TRUE))
             room  == [mode |-> mode, closeOnOwnerLeave |-> leave, users |-> users,
                       sessions |-> EmptyMap, banned |-> {}]
  <1>1. c \in Clients
    BY ConnectedClient
  <1>2. users \in Users /\ EmptyMap \in Sessions
    BY <1>1, EmptyType, NewUserType, AssignType DEF Users, Sessions
  <1>3. room \in Room
    BY <1>2, ConfigAssumption DEF Room, Users, Sessions
  <1>4. (connected \in PartialFn(Clients, RoomIds \cup {NoRoom}))'
    BY UpdateType DEF OpenRoom, TypeOK
  <1>5. IsRoomMap(rooms')
    <2> HIDE DEF room
    <2>1. IsRoomMap(Assign(rooms, id, room))
      BY <1>3, RoomMapType DEF TypeOK
    <2> QED
      BY <2>1 DEF OpenRoom, room
  <1>6. (outbox \in Outbox)'
    BY <1>2, QuietType, BatchType, WriteType DEF OpenRoom
  <1>7. (gauge \in Gauge)'
    <2>1. 0 \in Int /\ 1 \in Int /\ gauge \in Gauge
      BY DEF TypeOK
    <2>2. gauge' = Count(gauge, 1, 1, 0)
      BY DEF OpenRoom
    <2> QED
      BY <2>1, <2>2, CountType
  <1> QED
    BY <1>4, <1>5, <1>6, <1>7 DEF OpenRoom, TypeOK, IsRoomMap

LEMMA CreateType ==
    ASSUME TypeOK, NEW c \in DOMAIN connected, NEW id \in RoomIds, NEW mode \in Modes,
           NEW leave \in OwnerLeaveChoices, NEW join \in BOOLEAN,
           Create(c, id, mode, leave, join)
    PROVE  TypeOK'
  BY RefuseType, JoinType, OpenRoomType DEF Create

(* The handlers that end with CloseAndNotify on the current room.          *)
LEMMA InRoomType ==
    ASSUME TypeOK, NEW c \in DOMAIN connected, HasRoom(c), NEW room \in Room,
           NEW ended \in SUBSET SessionIds, NEW gone \in Int, NEW out \in Outbox,
           CloseAndNotify(connected[c], room, ended, gone, out),
           (connected \in PartialFn(Clients, RoomIds \cup {NoRoom}))', (panicked \in BOOLEAN)'
    PROVE  TypeOK'
  BY CurrentRoomType, CloseAndNotifyType DEF TypeOK

LEMMA HostedType ==
    ASSUME NEW room \in Room, NEW c
    PROVE  HostedBy(room, c) \subseteq SessionIds /\ Involving(room, c) \subseteq SessionIds
  BY RoomType DEF HostedBy, Involving

LEMMA StopStreamingType ==
    ASSUME NEW room \in Room, NEW c
    PROVE  StopStreaming(room, c) \in Room
  <1> DEFINE users == [room.users EXCEPT ![c].Streaming = FALSE]
  <1>1. room.users \in Users
    BY RoomType
  <1>2. users \in Users
    <2>1. CASE c \notin DOMAIN room.users
      BY <1>1, <2>1, PartialFnIs DEF Users
    <2>2. CASE c \in DOMAIN room.users
      <3>1. room.users[c] \in User
        BY <1>1, <2>2, PartialFnIs DEF Users
      <3>2. [room.users[c] EXCEPT !.Streaming = FALSE] \in User
        BY <3>1 DEF User
      <3> QED
        BY <1>1, <2>2, <3>2, UpdateType DEF Users
    <2> QED
      BY <2>1, <2>2
  <1>3. PICK u \in Users : u = users
    BY <1>2
  <1>4. StopStreaming(room, c) = [room EXCEPT !.users = u]
    BY <1>3 DEF StopStreaming
  <1> QED
    BY <1>4, RoomType

LEMMA NameType ==
    ASSUME TypeOK, NEW c \in DOMAIN connected, Name(c)
    PROVE  TypeOK'
  <1>1. CASE ~HasRoom(c) /\ Refuse(c)
    BY <1>1, RefuseType
  <1>2. CASE HasRoom(c) /\ CloseAndNotify(connected[c], CurrentRoom(c), {}, 0, Quiet)
               /\ Deref(c, CurrentRoom(c)) /\ UNCHANGED connected
    <2>1. CurrentRoom(c) \in Room
      BY <1>2, CurrentRoomType
    <2>2. {} \in SUBSET SessionIds /\ (panicked \in BOOLEAN)'
            /\ (connected \in PartialFn(Clients, RoomIds \cup {NoRoom}))'
      BY <1>2 DEF Deref, TypeOK
    <2> QED
      BY <1>2, <2>1, <2>2, QuietType, InRoomType
  <1> QED
    BY <1>1, <1>2 DEF Name

LEMMA StopShareType ==
    ASSUME TypeOK, NEW c \in DOMAIN connected, StopShare(c)
    PROVE  TypeOK'
  <1> DEFINE room  == CurrentRoom(c)
             ended == HostedBy(room, c)
             told  == [p \in Clients |->
                        IF p \in DOMAIN room.users
                          THEN {EndShare(s) : s \in {t \in ended : room.sessions[t].client = p}}
                          ELSE {}]
  <1>1. CASE ~HasRoom(c) /\ Refuse(c)
    BY <1>1, RefuseType
  <1>2. CASE /\ HasRoom(c)
             /\ CloseAndNotify(connected[c], StopStreaming(room, c), ended, 0, Write(Quiet, told))
             /\ Deref(c, room)
             /\ UNCHANGED connected
    <2>1. room \in Room /\ ended \subseteq SessionIds
      BY <1>2, CurrentRoomType, HostedType
    <2>2. told \in Batch
      BY <2>1, MessageType DEF Batch
    <2>3. (panicked \in BOOLEAN)' /\ (connected \in PartialFn(Clients, RoomIds \cup {NoRoom}))'
      BY <1>2 DEF Deref, TypeOK
    <2> HIDE DEF told, ended, room
    <2>4. StopStreaming(room, c) \in Room /\ Write(Quiet, told) \in Outbox
      BY <2>1, <2>2, StopStreamingType, QuietType, WriteType
    <2> QED
      BY <1>2, <2>1, <2>3, <2>4, InRoomType
  <1> QED
    BY <1>1, <1>2 DEF StopShare

LEMMA ShareType ==
    ASSUME TypeOK, NEW c \in DOMAIN connected, HasRoom(c), Share(c, connected[c])
    PROVE  TypeOK'
  <1> DEFINE id    == connected[c]
             users == [rooms[id].users EXCEPT ![c].Streaming = TRUE]
             rms   == [rooms EXCEPT ![id].users = users]
             pairs == {[host |-> c, client |-> p] : p \in DOMAIN users \ {c}}
  <1>1. id \in DOMAIN rooms /\ rooms[id] \in Room /\ c \in Clients
    BY CurrentRoomType, ConnectedClient
  <1>2. rooms[id].users \in Users
    BY <1>1, RoomType
  <1>3. users \in Users
    <2>1. CASE c \notin DOMAIN rooms[id].users
      BY <1>2, <2>1, PartialFnIs DEF Users
    <2>2. CASE c \in DOMAIN rooms[id].users
      <3>1. rooms[id].users[c] \in User
        BY <1>2, <2>2, PartialFnIs DEF Users
      <3>2. [rooms[id].users[c] EXCEPT !.Streaming = TRUE] \in User
        BY <3>1 DEF User
      <3> QED
        BY <1>2, <2>2, <3>2, UpdateType DEF Users
    <2> QED
      BY <2>1, <2>2
  <1>4. IsRoomMap(rms) /\ DOMAIN rms = DOMAIN rooms
    BY <1>1, <1>3, UserChangeType DEF TypeOK
  <1>5. pairs \in SUBSET Session
    <2>1. DOMAIN users \subseteq Clients
      BY <1>3, PartialFnIs DEF Users
    <2> HIDE DEF users
    <2> QED
      BY <1>1, <2>1 DEF Session
  <1>6. CASE executeNoError(c, "error", connected, rms, lookup, Quiet, gauge)
    <2>1. "error" \in Reasons /\ lookup \in SUBSET TurnName /\ panicked \in BOOLEAN
            /\ connected \in Conn /\ gauge \in Gauge
      BY DEF Reasons, TypeOK, Conn
    <2> HIDE DEF rms
    <2> QED
      BY <1>4, <1>6, <2>1, QuietType, ExecuteNoErrorType
  <1>7. ASSUME NEW new \in FreshSessions(rms, pairs),
               /\ rooms' = Open(rms, id, new)
               /\ lookup' = lookup \cup TurnNames(rooms[id].mode, DOMAIN new)
               /\ outbox' = Write(Announce(Quiet, new), notifyInfoChanged(users))
               /\ gauge' = Count(gauge, 0, 0, Cardinality(DOMAIN new))
               /\ Deref(c, rooms[id])
               /\ UNCHANGED connected
        PROVE  TypeOK'
    <2> HIDE DEF rms, users, pairs
    <2>1. new \in Sessions /\ DOMAIN new \subseteq SessionIds
      BY <1>5, FreshType
    <2>2. IsRoomMap(Open(rms, id, new))
      BY <1>1, <1>4, <2>1, OpenType
    <2>3. Write(Announce(Quiet, new), notifyInfoChanged(users)) \in Outbox
      BY <1>3, <2>1, QuietType, AnnounceType, BatchType, WriteType
    <2>4. Count(gauge, 0, 0, Cardinality(DOMAIN new)) \in Gauge
      BY <2>1, SessionCount, CountType DEF TypeOK
    <2>5. TurnNames(rooms[id].mode, DOMAIN new) \subseteq TurnName
      BY <2>1, TurnNamesType
    <2> QED
      BY <1>7, <2>2, <2>3, <2>4, <2>5 DEF TypeOK, IsRoomMap, Deref
  <1> QED
    BY <1>6, <1>7 DEF Share

LEMMA StartShareType ==
    ASSUME TypeOK, NEW c \in DOMAIN connected, StartShare(c)
    PROVE  TypeOK'
  BY RefuseType, ShareType DEF StartShare

LEMMA RelayType ==
    ASSUME TypeOK, NEW c \in DOMAIN connected, NEW s \in SessionIds,
           NEW from, NEW to \in {"host", "client"}, NEW msg \in Message,
           Relay(c, s, from, to, msg)
    PROVE  TypeOK'
  <1> DEFINE sessions == CurrentRoom(c).sessions
             denied   == HasRoom(c) => s \in DOMAIN sessions /\ sessions[s][from] # c
  <1>1. CASE denied /\ Refuse(c)
    BY <1>1, RefuseType
  <1>2. CASE /\ ~denied /\ s \notin DOMAIN sessions
             /\ outbox' = Quiet
             /\ UNCHANGED <<connected, rooms, lookup, gauge, panicked>>
    BY <1>2, QuietType DEF TypeOK, IsRoomMap
  <1>3. CASE /\ ~denied /\ s \in DOMAIN sessions
             /\ outbox' = Write(Quiet, To(sessions[s][to], msg))
             /\ Deref(sessions[s][to], CurrentRoom(c))
             /\ UNCHANGED <<connected, rooms, lookup, gauge>>
    <2>1. sessions \in Sessions
      BY <1>3, CurrentRoomType, RoomType
    <2>2. sessions[s] \in Session
      BY <1>3, <2>1, PartialFnIs DEF Sessions
    <2>3. sessions[s][to] \in Clients
      BY <2>2 DEF Session
    <2>4. Write(Quiet, To(sessions[s][to], msg)) \in Outbox
      BY <2>3, QuietType, BatchType, WriteType
    <2> QED
      BY <1>3, <2>4 DEF TypeOK, IsRoomMap, Deref
  <1> QED
    BY <1>1, <1>2, <1>3 DEF Relay

LEMMA RelaysType ==
    ASSUME TypeOK, NEW c \in DOMAIN connected, NEW s \in SessionIds,
           HostRelay(c, s) \/ ClientRelay(c, s)
    PROVE  TypeOK'
  BY MessageType, RelayType DEF HostRelay, ClientRelay

LEMMA OwnerRoom ==
    ASSUME NEW c, OwnsRoom(c) \/ \E target : MayTarget(c, target)
    PROVE  OwnsRoom(c) /\ HasRoom(c)
  BY DEF OwnsRoom, MayTarget

(* The users of the current room, each changed or left alone.              *)
LEMMA UsersEachType ==
    ASSUME NEW room \in Room, NEW users, DOMAIN users = DOMAIN room.users,
           users = [u \in DOMAIN users |-> users[u]], \A u \in DOMAIN users : users[u] \in User
    PROVE  [room EXCEPT !.users = users] \in Room
  <1>1. users \in Users
    BY RoomType, PartialFnIs DEF Users
  <1> QED
    BY <1>1, RoomType

LEMMA UserOf ==
    ASSUME NEW room \in Room, NEW u \in DOMAIN room.users
    PROVE  room.users[u] \in User
  <1>1. room.users \in PartialFn(Clients, User)
    BY RoomType DEF Users
  <1> QED
    BY <1>1, PartialFnIs

LEMMA EnableAllType ==
    ASSUME TypeOK, NEW c \in DOMAIN connected, EnableAll(c)
    PROVE  TypeOK'
  <1> DEFINE room  == CurrentRoom(c)
             users == [u \in DOMAIN room.users |->
                        IF u # c THEN [room.users[u] EXCEPT !.CanShare = TRUE]
                                 ELSE room.users[u]]
  <1>1. CASE ~OwnsRoom(c) /\ Refuse(c)
    BY <1>1, RefuseType
  <1>2. CASE /\ OwnsRoom(c)
             /\ CloseAndNotify(connected[c], [room EXCEPT !.users = users], {}, 0, Quiet)
             /\ UNCHANGED <<connected, panicked>>
    <2>1. room \in Room /\ HasRoom(c)
      BY <1>2, OwnerRoom, CurrentRoomType
    <2>2. \A u \in DOMAIN room.users : users[u] \in User
      BY <2>1, UserOf DEF User
    <2>3. [room EXCEPT !.users = users] \in Room
      BY <2>1, <2>2, UsersEachType
    <2>4. {} \in SUBSET SessionIds /\ (panicked \in BOOLEAN)'
            /\ (connected \in PartialFn(Clients, RoomIds \cup {NoRoom}))'
      BY <1>2 DEF TypeOK
    <2> HIDE DEF users, room
    <2> QED
      BY <1>2, <2>1, <2>3, <2>4, QuietType, InRoomType
  <1> QED
    BY <1>1, <1>2 DEF EnableAll

LEMMA DisableAllType ==
    ASSUME TypeOK, NEW c \in DOMAIN connected, DisableAll(c)
    PROVE  TypeOK'
  <1> DEFINE room  == CurrentRoom(c)
             users == [u \in DOMAIN room.users |->
                        IF u # c
                          THEN [room.users[u] EXCEPT !.CanShare = FALSE, !.Streaming = FALSE]
                          ELSE room.users[u]]
             ended == UNION {HostedBy(room, u) : u \in Presenters(room.users) \ {c}}
  <1>1. CASE ~OwnsRoom(c) /\ Refuse(c)
    BY <1>1, RefuseType
  <1>2. CASE /\ OwnsRoom(c)
             /\ CloseAndNotify(connected[c], [room EXCEPT !.users = users], ended, 0, Quiet)
             /\ UNCHANGED <<connected, panicked>>
    <2>1. room \in Room /\ HasRoom(c)
      BY <1>2, OwnerRoom, CurrentRoomType
    <2>2. \A u \in DOMAIN room.users : users[u] \in User
      BY <2>1, UserOf DEF User
    <2>3. [room EXCEPT !.users = users] \in Room
      BY <2>1, <2>2, UsersEachType
    <2>4. ended \in SUBSET SessionIds
      BY <2>1, HostedType
    <2>5. (panicked \in BOOLEAN)' /\ (connected \in PartialFn(Clients, RoomIds \cup {NoRoom}))'
      BY <1>2 DEF TypeOK
    <2> HIDE DEF users, room, ended
    <2> QED
      BY <1>2, <2>1, <2>3, <2>4, <2>5, QuietType, InRoomType
  <1> QED
    BY <1>1, <1>2 DEF DisableAll

LEMMA OwnerStopShareType ==
    ASSUME TypeOK, NEW c \in DOMAIN connected, NEW target, OwnerStopShare(c, target)
    PROVE  TypeOK'
  <1> DEFINE room == CurrentRoom(c)
  <1>1. CASE ~MayTarget(c, target) /\ Refuse(c)
    BY <1>1, RefuseType
  <1>2. CASE /\ MayTarget(c, target) /\ room.users[target].Streaming
             /\ CloseAndNotify(connected[c], StopStreaming(room, target),
                               HostedBy(room, target), 0, Quiet)
             /\ UNCHANGED <<connected, panicked>>
    <2>1. room \in Room /\ HasRoom(c)
      BY <1>2, OwnerRoom, CurrentRoomType
    <2>2. StopStreaming(room, target) \in Room /\ HostedBy(room, target) \in SUBSET SessionIds
      BY <2>1, StopStreamingType, HostedType
    <2>3. (panicked \in BOOLEAN)' /\ (connected \in PartialFn(Clients, RoomIds \cup {NoRoom}))'
      BY <1>2 DEF TypeOK
    <2> QED
      BY <1>2, <2>1, <2>2, <2>3, QuietType, InRoomType
  <1>3. CASE outbox' = Quiet /\ UNCHANGED <<connected, rooms, lookup, gauge, panicked>>
    BY <1>3, QuietType DEF TypeOK, IsRoomMap
  <1> QED
    BY <1>1, <1>2, <1>3 DEF OwnerStopShare

LEMMA ToggleType ==
    ASSUME TypeOK, NEW c \in DOMAIN connected, NEW target, ToggleSharePermission(c, target)
    PROVE  TypeOK'
  <1> DEFINE room  == CurrentRoom(c)
             user  == room.users[target]
             stops == user.CanShare /\ user.Streaming
             next  == [user EXCEPT !.CanShare = ~user.CanShare,
                                   !.Streaming = user.Streaming /\ ~stops]
             ended == IF stops THEN HostedBy(room, target) ELSE {}
             after == [room EXCEPT !.users[target] = next]
  <1>1. CASE ~MayTarget(c, target) /\ Refuse(c)
    BY <1>1, RefuseType
  <1>2. CASE /\ MayTarget(c, target)
             /\ CloseAndNotify(connected[c], after, ended, 0, Quiet)
             /\ UNCHANGED <<connected, panicked>>
    <2>1. room \in Room /\ HasRoom(c) /\ target \in DOMAIN room.users
      BY <1>2, OwnerRoom, CurrentRoomType DEF MayTarget
    <2>2. user \in User
      BY <2>1, UserOf
    <2>3. next \in User
      <3> HIDE DEF user
      <3>1. user = [Streaming |-> user.Streaming, Owner |-> user.Owner,
                    CanShare |-> user.CanShare] /\ user.Owner \in BOOLEAN
        BY <2>2 DEF User
      <3>2. \A x, y \in BOOLEAN : [user EXCEPT !.CanShare = x, !.Streaming = y] \in User
        BY <3>1 DEF User
      <3>3. (~user.CanShare) \in BOOLEAN /\ (user.Streaming /\ ~stops) \in BOOLEAN
        OBVIOUS
      <3> QED
        BY <3>2, <3>3
    <2>4. PICK u \in Users : u = [room.users EXCEPT ![target] = next]
      <3> HIDE DEF next
      <3> QED
        BY <2>1, <2>3, RoomType, UpdateType DEF Users
    <2>5. after \in Room
      BY <2>1, <2>4, RoomType
    <2>6. ended \in SUBSET SessionIds
      BY <2>1, HostedType
    <2>7. (panicked \in BOOLEAN)' /\ (connected \in PartialFn(Clients, RoomIds \cup {NoRoom}))'
      BY <1>2 DEF TypeOK
    <2> HIDE DEF after, ended, room
    <2> QED
      BY <1>2, <2>1, <2>5, <2>6, <2>7, QuietType, InRoomType
  <1> QED
    BY <1>1, <1>2 DEF ToggleSharePermission

LEMMA EvictType ==
    ASSUME TypeOK, NEW c \in DOMAIN connected, HasRoom(c), NEW target \in Clients,
           NEW room \in Room, NEW reason \in Reasons, Evict(target, connected[c], room, reason)
    PROVE  TypeOK'
  <1>1. Without(room.users, {target}) \in Users
    BY RoomType, WithoutType DEF Users
  <1>2. PICK after \in Room : after = [room EXCEPT !.users = Without(@, {target})]
    BY <1>1, RoomType
  <1>3. Write(Quiet, To(target, CloseWriter(reason))) \in Outbox
    BY MessageType, BatchType, QuietType, WriteType
  <1>4. (connected \in PartialFn(Clients, RoomIds \cup {NoRoom}))' /\ (panicked \in BOOLEAN)'
    BY WithoutType DEF Evict, TypeOK
  <1>5. Involving(room, target) \in SUBSET SessionIds /\ 1 \in Int
    BY HostedType
  <1>6. CloseAndNotify(connected[c], after, Involving(room, target), 1,
                       Write(Quiet, To(target, CloseWriter(reason))))
    BY <1>2 DEF Evict
  <1> QED
    BY <1>3, <1>4, <1>5, <1>6, InRoomType

LEMMA KickType ==
    ASSUME TypeOK, NEW c \in DOMAIN connected, NEW target, Kick(c, target) \/ Ban(c, target)
    PROVE  TypeOK'
  <1>1. CASE ~MayTarget(c, target) /\ Refuse(c)
    BY <1>1, RefuseType
  <1>2. CASE MayTarget(c, target)
    <2>1. CurrentRoom(c) \in Room /\ HasRoom(c) /\ target \in Clients
      BY <1>2, OwnerRoom, CurrentRoomType, RoomType DEF MayTarget
    <2>2. Addr[target] \in Addrs
      BY <2>1, ConfigAssumption
    <2>3. CurrentRoom(c).banned \cup {Addr[target]} \in SUBSET Addrs
      BY <2>1, <2>2 DEF Room
    <2>4. PICK room \in Room : room = [CurrentRoom(c) EXCEPT !.banned = @ \cup {Addr[target]}]
      BY <2>1, <2>3, RoomType
    <2>5. "kicked" \in Reasons /\ "banned" \in Reasons
      BY DEF Reasons
    <2>6. \/ Evict(target, connected[c], CurrentRoom(c), "kicked")
          \/ Evict(target, connected[c], room, "banned")
      BY <1>2, <2>4 DEF Kick, Ban
    <2> QED
      BY <2>1, <2>5, <2>6, EvictType
  <1> QED
    BY <1>1, <1>2 DEF Kick, Ban

LEMMA DissolveType ==
    ASSUME TypeOK, NEW c \in DOMAIN connected, Dissolve(c)
    PROVE  TypeOK'
  <1> DEFINE room    == CurrentRoom(c)
             members == DOMAIN room.users
             byes    == [p \in Clients |->
                            IF p \in members THEN {CloseWriter("dissolved")} ELSE {}]
  <1>1. CASE ~OwnsRoom(c) /\ Refuse(c)
    BY <1>1, RefuseType
  <1>2. CASE OwnsRoom(c)
    <2>1. /\ connected' = Without(connected, members)
          /\ rooms' = Without(rooms, {connected[c]})
          /\ lookup' = lookup \ TurnNames(room.mode, DOMAIN room.sessions)
          /\ outbox' = Write(Quiet, byes)
          /\ gauge' = Count(gauge, -1, -Cardinality(members), -Cardinality(DOMAIN room.sessions))
          /\ UNCHANGED panicked
      BY <1>2 DEF Dissolve
    <2>2. room \in Room
      BY <1>2, OwnerRoom, CurrentRoomType
    <2>3. byes \in Batch
      BY MessageType DEF Batch, Reasons
    <2>4. outbox' \in Outbox
      BY <2>1, <2>3, QuietType, WriteType
    <2>5. (connected \in PartialFn(Clients, RoomIds \cup {NoRoom}))'
      BY <2>1, WithoutType DEF TypeOK
    <2>6. IsRoomMap(rooms')
      BY <2>1, RoomMapType DEF TypeOK
    <2>7. gauge' \in Gauge
      <3>1. IsFiniteSet(members)
        BY <2>2, RoomType, ClientsAssumption, FS_Subset
      <3>2. PICK n \in Int : n = -Cardinality(members)
        BY <3>1, FS_CardinalityType
      <3>3. PICK k \in Int : k = -Cardinality(DOMAIN room.sessions)
        BY <2>2, RoomType, SessionCount
      <3>4. gauge' = Count(gauge, -1, n, k) /\ gauge \in Gauge /\ -1 \in Int
        BY <2>1, <3>2, <3>3 DEF TypeOK
      <3> QED
        BY <3>4, CountType
    <2> QED
      BY <2>1, <2>4, <2>5, <2>6, <2>7 DEF TypeOK, IsRoomMap
  <1> QED
    BY <1>1, <1>2 DEF Dissolve

LEMMA ExecuteType ==
    ASSUME TypeOK, NEW c \in DOMAIN connected, Execute(c)
    PROVE  TypeOK'
  <1>1. \A reason \in {"left", "read"} : reason \in Reasons
    BY DEF Reasons
  <1> QED
    BY <1>1, CreateType, JoinType, NameType, StartShareType, StopShareType, RelaysType,
       EnableAllType, DisableAllType, OwnerStopShareType, ToggleType, KickType, DissolveType,
       RefuseType, LeaveType
       DEF Execute, Unknown, Exit, Disconnected

LEMMA InitType == Init => TypeOK
  <1> SUFFICES ASSUME Init PROVE TypeOK
    OBVIOUS
  <1>1. connected \in PartialFn(Clients, RoomIds \cup {NoRoom})
    BY EmptyType DEF Init
  <1>2. IsRoomMap(rooms)
    BY DEF Init, EmptyMap, IsRoomMap
  <1>3. gauge \in Gauge
    BY DEF Init, Gauge
  <1>4. outbox \in Outbox /\ lookup \subseteq TurnName /\ panicked \in BOOLEAN
    BY QuietType DEF Init
  <1> QED
    BY <1>1, <1>2, <1>3, <1>4 DEF TypeOK

LEMMA NextType == TypeOK /\ [Next]_vars => TypeOK'
  <1> SUFFICES ASSUME TypeOK, [Next]_vars PROVE TypeOK'
    OBVIOUS
  <1>1. CASE UNCHANGED vars
    BY <1>1 DEF vars, TypeOK, IsRoomMap
  <1>2. ASSUME NEW c \in Clients, Connected(c) PROVE TypeOK'
    BY <1>2, ConnectedType
  <1>3. ASSUME NEW c \in DOMAIN connected, Execute(c) PROVE TypeOK'
    BY <1>3, ExecuteType
  <1> QED
    BY <1>1, <1>2, <1>3 DEF Next

(* Type correctness: whatever messages the clients send, the maps of the   *)
(* loop map clients, rooms and sessions to entries of the right shape, and *)
(* everything written to a client is a message.                            *)
THEOREM TypeCorrect == Spec => []TypeOK
  <1>1. Init => TypeOK
    BY InitType
  <1>2. TypeOK /\ [Next]_vars => TypeOK'
    BY NextType
  <1> QED
    BY <1>1, <1>2, PTL DEF Spec
-----------------------------------------------------------------------------
(* The safety of the main loop, when no message carries the empty room id. *)
(*                                                                         *)
(* None of the properties is inductive alone: that the relays dereference  *)
(* no nil user needs the sessions to be those of users of the room, that   *)
(* the sessions are right needs a single presenter, and that whoever       *)
(* leaves is taken out of the room it is in needs the two records of       *)
(* membership to agree.  Safe is their conjunction.                        *)

RoomIdsAreNames == NoRoom \notin RoomIds

(* Between two messages the sessions of a room are those of its viewers;   *)
(* inside join and share they may be missing for the client that the       *)
(* failed handler makes leave.                                             *)
CoveredBut(room, c) ==
    \A p \in Session : c \notin {p.host, p.client} =>
        (p \in Range(room.sessions) <=> p \in Views(room.users))

SafeMaps(conn, rms, names) ==
    /\ Agree(conn, rms)
    /\ \A r \in DOMAIN rms : HasOneOwner(rms[r].users)
    /\ \A r \in DOMAIN rms : AtMostOnePresenter(rms[r].users)
    /\ \A r \in DOMAIN rms : Range(rms[r].sessions) = Views(rms[r].users)
    /\ IdsDisjoint(rms)
    /\ names = NamesOf(rms)

Safe == SafeMaps(connected, rooms, lookup) /\ NoPanic
-----------------------------------------------------------------------------
(* TURN user names *)

LEMMA TurnNamesLess ==
    ASSUME NEW mode, NEW A, NEW B
    PROVE  TurnNames(mode, A \ B) = TurnNames(mode, A) \ TurnNames(mode, B)
  BY DEF TurnNames

LEMMA TurnNamesMore ==
    ASSUME NEW mode, NEW A, NEW B
    PROVE  TurnNames(mode, A \cup B) = TurnNames(mode, A) \cup TurnNames(mode, B)
  BY DEF TurnNames

LEMMA TurnNamesApart ==
    ASSUME NEW mode, NEW other, NEW A, NEW B, A \cap B = {}
    PROVE  TurnNames(mode, A) \cap TurnNames(other, B) = {}
  BY DEF TurnNames

(* The ids and names of the other rooms when room id is replaced by one    *)
(* with fewer sessions in the same mode.                                   *)
LEMMA NamesAfterClose ==
    ASSUME NEW rms, IdsDisjoint(rms), NEW id \in DOMAIN rms, NEW room, NEW ended,
           room.mode = rms[id].mode,
           DOMAIN room.sessions = DOMAIN rms[id].sessions \ ended,
           ended \subseteq DOMAIN rms[id].sessions
    PROVE  LET after == [rms EXCEPT ![id] = room] IN
           /\ IdsDisjoint(after)
           /\ NamesOf(after) = NamesOf(rms) \ TurnNames(room.mode, ended)
  <1> DEFINE after == [rms EXCEPT ![id] = room]
             N(r)  == TurnNames(rms[r].mode, DOMAIN rms[r].sessions)
             M(r)  == TurnNames(after[r].mode, DOMAIN after[r].sessions)
             gone  == TurnNames(room.mode, ended)
  <1>1. DOMAIN after = DOMAIN rms /\ after[id] = room
          /\ \A r \in DOMAIN rms \ {id} : after[r] = rms[r]
    OBVIOUS
  <1>2. IdsDisjoint(after)
    BY <1>1 DEF IdsDisjoint
  <1>3. M(id) = N(id) \ gone
    <2>1. M(id) = TurnNames(room.mode, DOMAIN rms[id].sessions \ ended)
      BY <1>1
    <2>2. TurnNames(room.mode, DOMAIN rms[id].sessions \ ended)
            = TurnNames(room.mode, DOMAIN rms[id].sessions) \ TurnNames(room.mode, ended)
      BY DEF TurnNames
    <2> QED
      BY <2>1, <2>2
  <1>4. \A r \in DOMAIN rms \ {id} : M(r) = N(r) /\ N(r) \cap gone = {}
    <2> SUFFICES ASSUME NEW r \in DOMAIN rms \ {id} PROVE M(r) = N(r) /\ N(r) \cap gone = {}
      OBVIOUS
    <2>1. DOMAIN rms[r].sessions \cap ended = {}
      BY DEF IdsDisjoint
    <2> QED
      BY <1>1, <2>1, TurnNamesApart
  <1>5. NamesOf(after) = UNION {M(r) : r \in DOMAIN rms}
    BY <1>1 DEF NamesOf
  <1>6. NamesOf(rms) = UNION {N(r) : r \in DOMAIN rms}
    BY DEF NamesOf
  <1> HIDE DEF M, N, gone, after
  <1>7. NamesOf(after) = NamesOf(rms) \ gone
    BY <1>3, <1>4, <1>5, <1>6
  <1> QED
    BY <1>2, <1>7 DEF after, gone

(* The same when the room is removed.                                      *)
LEMMA NamesAfterRemoval ==
    ASSUME NEW rms, IdsDisjoint(rms), NEW id \in DOMAIN rms
    PROVE  LET after == Without(rms, {id}) IN
           /\ IdsDisjoint(after)
           /\ NamesOf(after)
                = NamesOf(rms) \ TurnNames(rms[id].mode, DOMAIN rms[id].sessions)
  <1> DEFINE after == Without(rms, {id})
             N(r)  == TurnNames(rms[r].mode, DOMAIN rms[r].sessions)
  <1>1. DOMAIN after = DOMAIN rms \ {id} /\ \A r \in DOMAIN after : after[r] = rms[r]
    BY DEF Without, Restrict
  <1>2. IdsDisjoint(after)
    BY <1>1 DEF IdsDisjoint
  <1>3. \A r \in DOMAIN rms \ {id} : N(r) \cap N(id) = {}
    BY TurnNamesApart DEF IdsDisjoint
  <1>4. NamesOf(after) = UNION {N(r) : r \in DOMAIN rms \ {id}}
    BY <1>1 DEF NamesOf
  <1>5. NamesOf(rms) = UNION {N(r) : r \in DOMAIN rms}
    BY DEF NamesOf
  <1> HIDE DEF N, after
  <1>6. NamesOf(after) = NamesOf(rms) \ N(id)
    BY <1>3, <1>4, <1>5
  <1> QED
    BY <1>2, <1>6 DEF N, after

(* The same when the room gets sessions with fresh ids.                    *)
Grown(rms, id, room, new) ==
    /\ id \in DOMAIN rms
    /\ room.mode = rms[id].mode
    /\ DOMAIN room.sessions = DOMAIN rms[id].sessions \cup new
    /\ new \cap UsedIds(rms) = {}

LEMMA NamesAfterOpen ==
    ASSUME NEW rms, IdsDisjoint(rms), NEW id, NEW room, NEW new, Grown(rms, id, room, new)
    PROVE  LET after == [rms EXCEPT ![id] = room] IN
           /\ IdsDisjoint(after)
           /\ NamesOf(after) = NamesOf(rms) \cup TurnNames(room.mode, new)
  <1> USE DEF Grown
  <1> DEFINE after == [rms EXCEPT ![id] = room]
             N(r)  == TurnNames(rms[r].mode, DOMAIN rms[r].sessions)
             M(r)  == TurnNames(after[r].mode, DOMAIN after[r].sessions)
             more  == TurnNames(room.mode, new)
  <1>1. DOMAIN after = DOMAIN rms /\ after[id] = room
          /\ \A r \in DOMAIN rms \ {id} : after[r] = rms[r]
    OBVIOUS
  <1>2. IdsDisjoint(after)
    BY <1>1 DEF IdsDisjoint, UsedIds
  <1>3. M(id) = N(id) \cup more
    BY <1>1, TurnNamesMore
  <1>4. \A r \in DOMAIN rms \ {id} : M(r) = N(r)
    BY <1>1
  <1>5. NamesOf(after) = UNION {M(r) : r \in DOMAIN rms}
    BY <1>1 DEF NamesOf
  <1>6. NamesOf(rms) = UNION {N(r) : r \in DOMAIN rms}
    BY DEF NamesOf
  <1> HIDE DEF M, N, more, after
  <1>7. NamesOf(after) = NamesOf(rms) \cup more
    BY <1>3, <1>4, <1>5, <1>6
  <1> QED
    BY <1>2, <1>7 DEF after, more
-----------------------------------------------------------------------------
(* Leaving a room *)

(* Whoever takes over, the users that are left have one owner, and present *)
(* as before.                                                              *)
LEMMA SuccessionsSafe ==
    ASSUME NEW users \in Users, NEW c \in DOMAIN users, NEW heirs \in Successions(users, c),
           HasOneOwner(users), AtMostOnePresenter(users)
    PROVE  /\ DOMAIN heirs = DOMAIN users \ {c}
           /\ HasOneOwner(heirs)
           /\ AtMostOnePresenter(heirs)
           /\ Presenters(heirs) = Presenters(users) \ {c}
  <1> DEFINE rest == Without(users, {c})
  <1>1. /\ DOMAIN rest = DOMAIN users \ {c}
        /\ \A u \in DOMAIN rest : rest[u] = users[u] /\ rest[u] \in User
    BY PartialFnIs DEF Without, Restrict, Users
  <1>2. PICK o \in DOMAIN users : \A u \in DOMAIN users : users[u].Owner <=> u = o
    BY DEF HasOneOwner
  <1>3. /\ DOMAIN heirs = DOMAIN rest
        /\ \A u \in DOMAIN rest : /\ heirs[u].Streaming = users[u].Streaming
                                  /\ heirs[u].CanShare = users[u].CanShare
        /\ HasOneOwner(heirs)
    <2>1. CASE users[c].Owner
      <3>1. PICK next \in DOMAIN rest : heirs = [rest EXCEPT ![next].Owner = TRUE]
        BY <2>1 DEF Successions
      <3>2. o = c
        BY <1>2, <2>1
      <3>3. \A u \in DOMAIN rest : ~rest[u].Owner
        BY <1>1, <1>2, <3>2
      <3>4. /\ DOMAIN heirs = DOMAIN rest
            /\ heirs[next] = [rest[next] EXCEPT !.Owner = TRUE]
            /\ \A u \in DOMAIN rest \ {next} : heirs[u] = rest[u]
        BY <3>1
      <3>5. /\ heirs[next].Owner
            /\ heirs[next].Streaming = rest[next].Streaming
            /\ heirs[next].CanShare = rest[next].CanShare
        <4>1. rest[next] \in User
          BY <1>1
        <4> QED
          BY <3>4, <4>1 DEF User
      <3> HIDE DEF rest
      <3>6. HasOneOwner(heirs)
        <4>1. \A u \in DOMAIN heirs : heirs[u].Owner <=> u = next
          BY <3>3, <3>4, <3>5
        <4> QED
          BY <4>1, <3>4 DEF HasOneOwner
      <3> QED
        BY <1>1, <3>4, <3>5, <3>6
    <2>2. CASE ~users[c].Owner
      <3>1. heirs = rest
        BY <2>2 DEF Successions
      <3>2. o # c
        BY <1>2, <2>2
      <3> HIDE DEF rest
      <3>3. o \in DOMAIN heirs /\ \A u \in DOMAIN heirs : heirs[u].Owner <=> u = o
        BY <1>1, <1>2, <3>1, <3>2
      <3>4. HasOneOwner(heirs)
        BY <3>3 DEF HasOneOwner
      <3> QED
        BY <1>1, <3>1, <3>4
    <2> QED
      BY <2>1, <2>2
  <1> HIDE DEF rest
  <1>4. Presenters(heirs) = Presenters(users) \ {c}
    BY <1>1, <1>3 DEF Presenters
  <1>5. AtMostOnePresenter(heirs)
    BY <1>1, <1>3, <1>4 DEF AtMostOnePresenter, Presenters
  <1> QED
    BY <1>1, <1>3, <1>4, <1>5

(* Ending the sessions of c leaves those of the other users.               *)
LEMMA RangeWithout ==
    ASSUME NEW room \in Room, NEW c
    PROVE  Range(Without(room.sessions, Involving(room, c)))
             = {p \in Range(room.sessions) : c \notin {p.host, p.client}}
  BY DEF Range, Without, Restrict, Involving

LEMMA SessionsOf ==
    ASSUME NEW room \in Room
    PROVE  Range(room.sessions) \subseteq Session
  <1>1. room.sessions \in PartialFn(SessionIds, Session)
    BY RoomType DEF Sessions
  <1> QED
    BY <1>1, PartialFnIs DEF Range

LEMMA CoveredIsCoveredBut ==
    ASSUME NEW room \in Room, Range(room.sessions) = Views(room.users), NEW c
    PROVE  CoveredBut(room, c)
  BY DEF CoveredBut

LEMMA CoveredAfterLeave ==
    ASSUME NEW room \in Room, NEW c, CoveredBut(room, c), NEW users,
           DOMAIN users = DOMAIN room.users \ {c},
           Presenters(users) = Presenters(room.users) \ {c}
    PROVE  Range(Without(room.sessions, Involving(room, c))) = Views(users)
  <1> DEFINE kept == {p \in Range(room.sessions) : c \notin {p.host, p.client}}
  <1>1. \A p \in Session : p \in Views(users)
            <=> p \in Views(room.users) /\ c \notin {p.host, p.client}
    BY DEF Views
  <1>2. \A p \in Session : p \in kept <=> p \in Views(users)
    BY <1>1 DEF CoveredBut
  <1>3. kept \subseteq Session /\ Views(users) \subseteq Session
    BY SessionsOf DEF Views
  <1>4. kept = Views(users)
    BY <1>2, <1>3
  <1> QED
    BY <1>4, RangeWithout

(* conn2 and rms2 are conn and rms less the users S of room id, and less   *)
(* the room when they are all its users.                                   *)
Removal(conn, rms, id, S, conn2, rms2) ==
    /\ id \in DOMAIN rms /\ id # NoRoom /\ S \subseteq DOMAIN rms[id].users
    /\ DOMAIN conn2 = DOMAIN conn \ S
    /\ \A d \in DOMAIN conn2 : conn2[d] = conn[d]
    /\ DOMAIN rms2 \subseteq DOMAIN rms
    /\ \A r \in DOMAIN rms \ {id} : r \in DOMAIN rms2 /\ rms2[r] = rms[r]
    /\ IF id \in DOMAIN rms2 THEN DOMAIN rms2[id].users = DOMAIN rms[id].users \ S
                             ELSE S = DOMAIN rms[id].users

(* The two records of membership still agree after a removal.              *)
LEMMA AgreeAfterRemoval ==
    ASSUME NEW conn, NEW rms, NEW id, NEW S, NEW conn2, NEW rms2,
           Agree(conn, rms), Removal(conn, rms, id, S, conn2, rms2)
    PROVE  Agree(conn2, rms2)
  <1> USE DEF Removal
  <1>1. \A d \in S : d \in DOMAIN conn /\ conn[d] = id
    BY DEF Agree
  <1>2. ASSUME NEW r \in DOMAIN rms2, NEW d \in DOMAIN rms2[r].users
        PROVE  d \in DOMAIN conn2 /\ conn2[d] = r
    <2>1. d \in DOMAIN rms[r].users /\ (r = id => d \notin S)
      BY <1>2
    <2>2. d \in DOMAIN conn /\ conn[d] = r
      BY <2>1, <1>2 DEF Agree
    <2>3. d \notin S
      BY <2>1, <2>2, <1>1
    <2> QED
      BY <2>2, <2>3
  <1>3. ASSUME NEW d \in DOMAIN conn2, conn2[d] # NoRoom
        PROVE  conn2[d] \in DOMAIN rms2 /\ d \in DOMAIN rms2[conn2[d]].users
    <2>1. d \notin S /\ conn2[d] = conn[d] /\ d \in DOMAIN conn
      OBVIOUS
    <2>2. conn[d] \in DOMAIN rms /\ d \in DOMAIN rms[conn[d]].users
      BY <2>1, <1>3 DEF Agree
    <2>3. CASE conn[d] = id
      BY <2>1, <2>2, <2>3
    <2>4. CASE conn[d] # id
      BY <2>1, <2>2, <2>4
    <2> QED
      BY <2>3, <2>4
  <1> QED
    BY <1>2, <1>3 DEF Agree

LEMMA LeaveRoomSafe ==
    ASSUME RoomIdsAreNames,
           NEW conn \in Conn, NEW c \in DOMAIN conn, NEW rms, IsRoomMap(rms),
           NEW names, NEW out, NEW g,
           Agree(conn, rms), IdsDisjoint(rms), names = NamesOf(rms),
           \A r \in DOMAIN rms :
              HasOneOwner(rms[r].users) /\ AtMostOnePresenter(rms[r].users),
           \A r \in DOMAIN rms \ {conn[c]} : Range(rms[r].sessions) = Views(rms[r].users),
           conn[c] \in DOMAIN rms, c \in DOMAIN rms[conn[c]].users,
           CoveredBut(rms[conn[c]], c),
           LeaveRoom(c, conn[c], rms, names, out, g), connected' = Without(conn, {c})
    PROVE  SafeMaps(connected, rooms, lookup)'
  <1> DEFINE id    == conn[c]
             room  == rms[id]
             stay  == DOMAIN room.users \ {c}
             ended == Involving(room, c)
  <1>1. room \in Room /\ room.users \in Users
    BY RoomMapType, RoomType
  <1>2. /\ DOMAIN connected' = DOMAIN conn \ {c}
        /\ \A d \in DOMAIN connected' : connected'[d] = conn[d]
    BY DEF Without, Restrict
  <1>3. id # NoRoom /\ id \in DOMAIN rms /\ {c} \in SUBSET DOMAIN room.users
    BY DEF RoomIdsAreNames, IsRoomMap
  <1>4. CASE stay = {}
    <2>1. rooms' = Without(rms, {id})
            /\ lookup' = names \ TurnNames(room.mode, DOMAIN room.sessions)
      BY <1>4 DEF LeaveRoom
    <2>2. DOMAIN rooms' = DOMAIN rms \ {id} /\ \A r \in DOMAIN rooms' : rooms'[r] = rms[r]
      BY <2>1 DEF Without, Restrict
    <2>3. Agree(connected', rooms')
      <3>1. {c} = DOMAIN rms[id].users
        BY <1>3, <1>4
      <3>2. IF id \in DOMAIN rooms'
              THEN DOMAIN rooms'[id].users = DOMAIN rms[id].users \ {c}
              ELSE {c} = DOMAIN rms[id].users
        BY <3>1, <2>2
      <3>3. /\ DOMAIN rooms' \subseteq DOMAIN rms
            /\ \A r \in DOMAIN rms \ {id} : r \in DOMAIN rooms' /\ rooms'[r] = rms[r]
        BY <2>2
      <3>4. Removal(conn, rms, id, {c}, connected', rooms')
        BY <1>2, <1>3, <3>2, <3>3 DEF Removal
      <3> QED
        BY <3>4, AgreeAfterRemoval
    <2>4. IdsDisjoint(rooms') /\ lookup' = NamesOf(rooms')
      BY <2>1, NamesAfterRemoval
    <2> QED
      BY <2>2, <2>3, <2>4 DEF SafeMaps
  <1>5. CASE stay # {}
    <2>1. PICK users \in Successions(room.users, c) :
             /\ rooms' = [rms EXCEPT ![id] = [room EXCEPT !.users = users,
                                                          !.sessions = Without(@, ended)]]
             /\ lookup' = names \ TurnNames(room.mode, ended)
      BY <1>5 DEF LeaveRoom
    <2>2. /\ DOMAIN users = stay
          /\ HasOneOwner(users)
          /\ AtMostOnePresenter(users)
          /\ Presenters(users) = Presenters(room.users) \ {c}
      BY <1>1, SuccessionsSafe
    <2>3. PICK after : after = [room EXCEPT !.users = users, !.sessions = Without(@, ended)]
      OBVIOUS
    <2>4. /\ after.users = users /\ after.sessions = Without(room.sessions, ended)
          /\ after.mode = room.mode
      BY <1>1, <2>3 DEF Room
    <2>5. /\ DOMAIN rooms' = DOMAIN rms /\ rooms'[id] = after
          /\ \A r \in DOMAIN rms \ {id} : rooms'[r] = rms[r]
          /\ rooms' = [rms EXCEPT ![id] = after]
      BY <2>1, <2>3
    <2>6. Agree(connected', rooms')
      <3>1. DOMAIN rooms'[id].users = DOMAIN rms[id].users \ {c}
        BY <2>2, <2>4, <2>5
      <3>2. IF id \in DOMAIN rooms'
              THEN DOMAIN rooms'[id].users = DOMAIN rms[id].users \ {c}
              ELSE {c} = DOMAIN rms[id].users
        BY <3>1, <2>5
      <3>3. /\ DOMAIN rooms' \subseteq DOMAIN rms
            /\ \A r \in DOMAIN rms \ {id} : r \in DOMAIN rooms' /\ rooms'[r] = rms[r]
        BY <2>5
      <3>4. Removal(conn, rms, id, {c}, connected', rooms')
        BY <1>2, <1>3, <3>2, <3>3 DEF Removal
      <3> QED
        BY <3>4, AgreeAfterRemoval
    <2>7. Range(after.sessions) = Views(after.users)
      BY <1>1, <2>2, <2>4, CoveredAfterLeave
    <2>8. ended \subseteq DOMAIN room.sessions
            /\ DOMAIN after.sessions = DOMAIN room.sessions \ ended
      BY <2>4 DEF Involving, Without, Restrict
    <2>9. IdsDisjoint(rooms') /\ lookup' = NamesOf(rooms')
      <3> HIDE DEF ended, id
      <3>1. IdsDisjoint([rms EXCEPT ![id] = after])
        BY <1>3, <2>4, <2>8, NamesAfterClose
      <3>2. NamesOf([rms EXCEPT ![id] = after]) = NamesOf(rms) \ TurnNames(room.mode, ended)
        BY <1>3, <2>4, <2>8, NamesAfterClose
      <3> QED
        BY <2>1, <2>5, <3>1, <3>2
    <2>10. \A r \in DOMAIN rooms' : HasOneOwner(rooms'[r].users)
              /\ AtMostOnePresenter(rooms'[r].users)
              /\ Range(rooms'[r].sessions) = Views(rooms'[r].users)
      BY <2>2, <2>4, <2>5, <2>7
    <2> QED
      BY <2>6, <2>9, <2>10 DEF SafeMaps
  <1> QED
    BY <1>4, <1>5

(* What executeNoError needs of the maps it is given: all is well but for  *)
(* the sessions of the client that leaves.                                 *)
SafeBut(conn, rms, names, c) ==
    /\ Agree(conn, rms)
    /\ IdsDisjoint(rms)
    /\ names = NamesOf(rms)
    /\ \A r \in DOMAIN rms : HasOneOwner(rms[r].users) /\ AtMostOnePresenter(rms[r].users)
    /\ \A r \in DOMAIN rms \ {conn[c]} : Range(rms[r].sessions) = Views(rms[r].users)
    /\ conn[c] \in DOMAIN rms => CoveredBut(rms[conn[c]], c)

LEMMA ExecuteNoErrorSafe ==
    ASSUME RoomIdsAreNames,
           NEW conn \in Conn, NEW c \in DOMAIN conn, NEW reason, NEW rms, IsRoomMap(rms),
           NEW names, NEW out, NEW g, SafeBut(conn, rms, names, c),
           executeNoError(c, reason, conn, rms, names, out, g)
    PROVE  SafeMaps(connected, rooms, lookup)' /\ panicked' = panicked
  <1> DEFINE bye == Write(out, To(c, CloseWriter(reason)))
  <1>1. connected' = Without(conn, {c}) /\ panicked' = panicked
    BY DEF executeNoError
  <1>2. CASE conn[c] # NoRoom
    <2>1. conn[c] \in DOMAIN rms /\ c \in DOMAIN rms[conn[c]].users
      BY <1>2 DEF SafeBut, Agree
    <2>2. LeaveRoom(c, conn[c], rms, names, bye, g)
      BY <1>2, <2>1 DEF executeNoError
    <2> QED
      BY <1>1, <2>1, <2>2, LeaveRoomSafe DEF SafeBut
  <1>3. CASE conn[c] = NoRoom
    <2>1. rooms' = rms /\ lookup' = names
      BY <1>3 DEF executeNoError
    <2>2. /\ DOMAIN connected' = DOMAIN conn \ {c}
          /\ \A d \in DOMAIN connected' : connected'[d] = conn[d]
      BY <1>1 DEF Without, Restrict
    <2>3. NoRoom \notin DOMAIN rms
      BY DEF RoomIdsAreNames, IsRoomMap
    <2>4. \A r \in DOMAIN rms : r # conn[c]
      BY <1>3, <2>3
    <2>5. Agree(connected', rms)
      <3>1. ASSUME NEW r \in DOMAIN rms, NEW d \in DOMAIN rms[r].users
            PROVE  d \in DOMAIN connected' /\ connected'[d] = r
        <4>1. d \in DOMAIN conn /\ conn[d] = r
          BY <3>1 DEF SafeBut, Agree
        <4> QED
          BY <4>1, <2>2, <2>4
      <3>2. ASSUME NEW d \in DOMAIN connected', connected'[d] # NoRoom
            PROVE  connected'[d] \in DOMAIN rms /\ d \in DOMAIN rms[connected'[d]].users
        BY <2>2, <3>2 DEF SafeBut, Agree
      <3> QED
        BY <3>1, <3>2 DEF Agree
    <2> QED
      BY <1>1, <2>1, <2>4, <2>5 DEF SafeMaps, SafeBut
  <1> QED
    BY <1>2, <1>3

LEMMA RefuseSafe ==
    ASSUME RoomIdsAreNames, TypeOK, Safe, NEW c \in DOMAIN connected, NEW reason,
           Leave(c, reason)
    PROVE  Safe'
  <1>1. connected \in Conn /\ IsRoomMap(rooms)
    BY DEF TypeOK, Conn
  <1>2. connected[c] \in DOMAIN rooms => CoveredBut(rooms[connected[c]], c)
    BY <1>1, RoomMapType, CoveredIsCoveredBut DEF Safe, SafeMaps
  <1>3. SafeBut(connected, rooms, lookup, c)
    BY <1>2 DEF SafeBut, Safe, SafeMaps
  <1> QED
    BY <1>1, <1>3, ExecuteNoErrorSafe DEF Leave, Safe, NoPanic
-----------------------------------------------------------------------------
(* Handlers that change the current room and end some of its sessions *)

(* users is what a handler makes of the users of a room: all of them stay, *)
(* those of T go off the air, and ended is the sessions that T hosts.      *)
Silences(room, users, T, ended) ==
    /\ users \in Users /\ DOMAIN users = DOMAIN room.users
    /\ \A u \in DOMAIN users : users[u].Owner = room.users[u].Owner
    /\ Presenters(users) = Presenters(room.users) \ T
    /\ \A u \in Presenters(users) : users[u].CanShare
    /\ ended = {s \in DOMAIN room.sessions : room.sessions[s].host \in T}

(* Such a handler leaves a room as it should be.                           *)
LEMMA SilenceSafe ==
    ASSUME NEW room \in Room, NEW T, NEW users, NEW ended, Silences(room, users, T, ended),
           HasOneOwner(room.users), AtMostOnePresenter(room.users),
           Range(room.sessions) = Views(room.users)
    PROVE  /\ HasOneOwner(users)
           /\ AtMostOnePresenter(users)
           /\ Range(Without(room.sessions, ended)) = Views(users)
  <1> USE DEF Silences
  <1>1. HasOneOwner(users)
    BY DEF HasOneOwner
  <1>2. AtMostOnePresenter(users)
    BY DEF AtMostOnePresenter
  <1>3. Range(Without(room.sessions, ended)) = {p \in Range(room.sessions) : p.host \notin T}
    BY DEF Range, Without, Restrict
  <1>4. Views(users) = {p \in Views(room.users) : p.host \notin T}
    BY DEF Views
  <1> QED
    BY <1>1, <1>2, <1>3, <1>4

(* room is room id after a handler took the users S out of it and ended    *)
(* some of its sessions, and is as it should be.                           *)
SafeChange(id, room, ended, S) ==
    /\ id \in DOMAIN rooms /\ room \in Room
    /\ room.mode = rooms[id].mode /\ room.sessions = rooms[id].sessions
    /\ ended \subseteq DOMAIN room.sessions
    /\ HasOneOwner(room.users) /\ AtMostOnePresenter(room.users)
    /\ Range(Without(room.sessions, ended)) = Views(room.users)
    /\ S \subseteq DOMAIN rooms[id].users
    /\ DOMAIN room.users = DOMAIN rooms[id].users \ S

(* Such a change keeps all that is safe about the maps when connected      *)
(* loses the users S too.                                                  *)
LEMMA CloseAndNotifySafe ==
    ASSUME RoomIdsAreNames, TypeOK, Safe, NEW id, NEW room, NEW ended, NEW gone, NEW out,
           NEW S, SafeChange(id, room, ended, S),
           connected' = Without(connected, S),
           CloseAndNotify(id, room, ended, gone, out)
    PROVE  SafeMaps(connected, rooms, lookup)'
  <1> USE DEF SafeChange
  <1>0. /\ DOMAIN connected' = DOMAIN connected \ S
        /\ \A d \in DOMAIN connected' : connected'[d] = connected[d]
    BY DEF Without, Restrict
  <1>1. PICK after : after = [room EXCEPT !.sessions = Without(@, ended)]
    OBVIOUS
  <1>2. /\ after.users = room.users /\ after.sessions = Without(room.sessions, ended)
        /\ after.mode = room.mode
    BY <1>1 DEF Room
  <1>3. /\ rooms' = [rooms EXCEPT ![id] = after]
        /\ lookup' = lookup \ TurnNames(room.mode, ended)
    BY <1>1 DEF CloseAndNotify
  <1>4. /\ DOMAIN rooms' = DOMAIN rooms /\ rooms'[id] = after
        /\ \A r \in DOMAIN rooms \ {id} : rooms'[r] = rooms[r]
    BY <1>3 DEF TypeOK, IsRoomMap
  <1>5. id # NoRoom
    BY DEF RoomIdsAreNames, TypeOK, IsRoomMap
  <1>6. Agree(connected', rooms')
    <2>1. Removal(connected, rooms, id, S, connected', rooms')
      BY <1>0, <1>2, <1>4, <1>5 DEF Removal
    <2> QED
      BY <2>1, AgreeAfterRemoval DEF Safe, SafeMaps
  <1>7. IdsDisjoint(rooms') /\ lookup' = NamesOf(rooms')
    <2>1. DOMAIN after.sessions = DOMAIN rooms[id].sessions \ ended
      BY <1>2 DEF Without, Restrict
    <2>2. IdsDisjoint(rooms) /\ lookup = NamesOf(rooms) /\ after.mode = rooms[id].mode
            /\ ended \subseteq DOMAIN rooms[id].sessions
      BY <1>2 DEF Safe, SafeMaps
    <2>3. IdsDisjoint([rooms EXCEPT ![id] = after])
      BY <2>1, <2>2, NamesAfterClose
    <2>4. NamesOf([rooms EXCEPT ![id] = after]) = NamesOf(rooms) \ TurnNames(after.mode, ended)
      BY <2>1, <2>2, NamesAfterClose
    <2> QED
      BY <1>2, <1>3, <2>2, <2>3, <2>4
  <1>8. \A r \in DOMAIN rooms' : HasOneOwner(rooms'[r].users)
              /\ AtMostOnePresenter(rooms'[r].users)
              /\ Range(rooms'[r].sessions) = Views(rooms'[r].users)
    BY <1>2, <1>4 DEF Safe, SafeMaps
  <1> QED
    BY <1>6, <1>7, <1>8 DEF SafeMaps

(* The current room of a client that is served, and the client in it.      *)
LEMMA InCurrentRoom ==
    ASSUME TypeOK, Safe, NEW c \in DOMAIN connected, HasRoom(c)
    PROVE  /\ connected[c] \in DOMAIN rooms /\ connected[c] # NoRoom
           /\ CurrentRoom(c) = rooms[connected[c]] /\ CurrentRoom(c) \in Room
           /\ c \in DOMAIN CurrentRoom(c).users
           /\ HasOneOwner(CurrentRoom(c).users)
           /\ AtMostOnePresenter(CurrentRoom(c).users)
           /\ Range(CurrentRoom(c).sessions) = Views(CurrentRoom(c).users)
  <1>1. /\ connected[c] \in DOMAIN rooms /\ connected[c] # NoRoom
        /\ CurrentRoom(c) = rooms[connected[c]]
    BY DEF HasRoom, CurrentRoom
  <1> QED
    BY <1>1, RoomMapType DEF Safe, SafeMaps, Agree, TypeOK

LEMMA UsersChangeSafe ==
    ASSUME RoomIdsAreNames, TypeOK, Safe, NEW c \in DOMAIN connected, HasRoom(c),
           NEW T, NEW users, NEW ended, NEW out,
           Silences(CurrentRoom(c), users, T, ended),
           CloseAndNotify(connected[c], [CurrentRoom(c) EXCEPT !.users = users], ended, 0, out),
           UNCHANGED <<connected, panicked>>
    PROVE  Safe'
  <1> DEFINE old == CurrentRoom(c)
             id  == connected[c]
  <1>1. /\ id \in DOMAIN rooms /\ old = rooms[id] /\ old \in Room
        /\ HasOneOwner(old.users) /\ AtMostOnePresenter(old.users)
        /\ Range(old.sessions) = Views(old.users)
    BY InCurrentRoom
  <1>2. /\ HasOneOwner(users) /\ AtMostOnePresenter(users)
        /\ Range(Without(old.sessions, ended)) = Views(users)
    BY <1>1, SilenceSafe
  <1>3. PICK room \in Room : room = [old EXCEPT !.users = users]
    BY <1>1, RoomType DEF Silences
  <1>4. room.users = users /\ room.sessions = old.sessions /\ room.mode = old.mode
    BY <1>1, <1>3 DEF Room
  <1>5. CloseAndNotify(id, room, ended, 0, out)
    BY <1>3
  <1>6. SafeChange(id, room, ended, {})
    BY <1>1, <1>2, <1>4 DEF SafeChange, Silences
  <1>7. connected' = Without(connected, {})
    BY PartialFnIs DEF Without, Restrict, TypeOK
  <1>8. SafeMaps(connected, rooms, lookup)'
    BY <1>5, <1>6, <1>7, CloseAndNotifySafe
  <1> QED
    BY <1>8 DEF Safe, NoPanic

(* A handler that does so to the current room and then notifies everyone.  *)
Quiets(c) ==
    /\ HasRoom(c) /\ UNCHANGED <<connected, panicked>>
    /\ \E T, users, ended :
          /\ Silences(CurrentRoom(c), users, T, ended)
          /\ CloseAndNotify(connected[c], [CurrentRoom(c) EXCEPT !.users = users], ended, 0, Quiet)

LEMMA QuietsSafe ==
    ASSUME RoomIdsAreNames, TypeOK, Safe, NEW c \in DOMAIN connected, Quiets(c)
    PROVE  Safe'
  BY UsersChangeSafe DEF Quiets

LEMMA PresenterMayShare ==
    ASSUME NEW users, AtMostOnePresenter(users)
    PROVE  \A u \in Presenters(users) : users[u].CanShare
  BY DEF AtMostOnePresenter

LEMMA NameSafe ==
    ASSUME RoomIdsAreNames, TypeOK, Safe, NEW c \in DOMAIN connected, Name(c)
    PROVE  Safe'
  <1>1. CASE ~HasRoom(c) /\ Refuse(c)
    BY <1>1, RefuseSafe DEF Refuse
  <1>2. CASE HasRoom(c) /\ CloseAndNotify(connected[c], CurrentRoom(c), {}, 0, Quiet)
               /\ Deref(c, CurrentRoom(c)) /\ UNCHANGED connected
    <2> DEFINE users == CurrentRoom(c).users
    <2>1. CurrentRoom(c) \in Room /\ c \in DOMAIN users /\ AtMostOnePresenter(users)
      BY <1>2, InCurrentRoom
    <2>2. users \in Users /\ CurrentRoom(c) = [CurrentRoom(c) EXCEPT !.users = users]
      BY <2>1, RoomType DEF Room
    <2>3. panicked' = panicked
      BY <1>2, <2>1 DEF Deref, Safe, NoPanic, TypeOK
    <2>4. \A u \in Presenters(users) : users[u].CanShare
      BY <2>1, PresenterMayShare
    <2>5. CloseAndNotify(connected[c], [CurrentRoom(c) EXCEPT !.users = users], {}, 0, Quiet)
      BY <1>2, <2>2
    <2>6. {} = {s \in DOMAIN CurrentRoom(c).sessions : CurrentRoom(c).sessions[s].host \in {}}
            /\ Presenters(users) = Presenters(users) \ {}
      OBVIOUS
    <2>7. Silences(CurrentRoom(c), users, {}, {})
      BY <2>2, <2>4, <2>6 DEF Silences
    <2> QED
      BY <1>2, <2>3, <2>5, <2>7, UsersChangeSafe
  <1> QED
    BY <1>1, <1>2 DEF Name

LEMMA StopStreamingIs ==
    ASSUME NEW room \in Room, NEW c \in DOMAIN room.users
    PROVE  \E users \in Users :
              /\ StopStreaming(room, c) = [room EXCEPT !.users = users]
              /\ DOMAIN users = DOMAIN room.users
              /\ \A u \in DOMAIN users : /\ users[u].Owner = room.users[u].Owner
                                         /\ users[u].CanShare = room.users[u].CanShare
              /\ Presenters(users) = Presenters(room.users) \ {c}
  <1> DEFINE users == [room.users EXCEPT ![c].Streaming = FALSE]
  <1>1. room.users \in Users /\ room.users[c] \in User
    BY RoomType, UserOf
  <1>2. [room.users[c] EXCEPT !.Streaming = FALSE] \in User
    BY <1>1 DEF User
  <1>3. users \in Users
    BY <1>1, <1>2, UpdateType DEF Users
  <1>4. /\ DOMAIN users = DOMAIN room.users
        /\ users[c] = [room.users[c] EXCEPT !.Streaming = FALSE]
        /\ \A u \in DOMAIN users \ {c} : users[u] = room.users[u]
    OBVIOUS
  <1>5. StopStreaming(room, c) = [room EXCEPT !.users = users]
    BY DEF StopStreaming
  <1> HIDE DEF users
  <1>6. \A u \in DOMAIN users : /\ users[u].Owner = room.users[u].Owner
                                /\ users[u].CanShare = room.users[u].CanShare
    BY <1>1, <1>4 DEF User
  <1>7. Presenters(users) = Presenters(room.users) \ {c}
    BY <1>1, <1>4 DEF User, Presenters
  <1> QED
    BY <1>3, <1>4, <1>5, <1>6, <1>7

(* Whoever stops the stream of target, its sessions go with it.            *)
LEMMA StopSafe ==
    ASSUME RoomIdsAreNames, TypeOK, Safe, NEW c \in DOMAIN connected, HasRoom(c),
           NEW target \in DOMAIN CurrentRoom(c).users, NEW out,
           CloseAndNotify(connected[c], StopStreaming(CurrentRoom(c), target),
                          HostedBy(CurrentRoom(c), target), 0, out),
           UNCHANGED <<connected, panicked>>
    PROVE  Safe'
  <1> DEFINE room  == CurrentRoom(c)
             ended == HostedBy(room, target)
  <1>1. room \in Room /\ AtMostOnePresenter(room.users)
    BY InCurrentRoom
  <1>2. PICK users \in Users :
              /\ StopStreaming(room, target) = [room EXCEPT !.users = users]
              /\ DOMAIN users = DOMAIN room.users
              /\ \A u \in DOMAIN users : /\ users[u].Owner = room.users[u].Owner
                                         /\ users[u].CanShare = room.users[u].CanShare
              /\ Presenters(users) = Presenters(room.users) \ {target}
    BY <1>1, StopStreamingIs
  <1>3. \A u \in Presenters(users) : users[u].CanShare
    BY <1>1, <1>2, PresenterMayShare DEF Presenters
  <1>4. ended = {s \in DOMAIN room.sessions : room.sessions[s].host \in {target}}
    BY DEF HostedBy
  <1>5. CloseAndNotify(connected[c], [room EXCEPT !.users = users], ended, 0, out)
    BY <1>2
  <1>6. Silences(room, users, {target}, ended)
    BY <1>2, <1>3, <1>4 DEF Silences
  <1> QED
    BY <1>5, <1>6, UsersChangeSafe

LEMMA StopShareSafe ==
    ASSUME RoomIdsAreNames, TypeOK, Safe, NEW c \in DOMAIN connected, StopShare(c)
    PROVE  Safe'
  <1> DEFINE room  == CurrentRoom(c)
             ended == HostedBy(room, c)
             told  == [p \in Clients |->
                        IF p \in DOMAIN room.users
                          THEN {EndShare(s) : s \in {t \in ended : room.sessions[t].client = p}}
                          ELSE {}]
  <1>1. CASE ~HasRoom(c) /\ Refuse(c)
    BY <1>1, RefuseSafe DEF Refuse
  <1>2. CASE /\ HasRoom(c)
             /\ CloseAndNotify(connected[c], StopStreaming(room, c), ended, 0, Write(Quiet, told))
             /\ Deref(c, room)
             /\ UNCHANGED connected
    <2>1. c \in DOMAIN room.users
      BY <1>2, InCurrentRoom
    <2>2. UNCHANGED <<connected, panicked>>
      BY <1>2, <2>1 DEF Deref, Safe, NoPanic, TypeOK
    <2> HIDE DEF told
    <2> QED
      BY <1>2, <2>1, <2>2, StopSafe
  <1> QED
    BY <1>1, <1>2 DEF StopShare

LEMMA OwnerStopShareSafe ==
    ASSUME RoomIdsAreNames, TypeOK, Safe, NEW c \in DOMAIN connected, NEW target,
           OwnerStopShare(c, target)
    PROVE  Safe'
  <1> DEFINE room == CurrentRoom(c)
  <1>1. CASE ~MayTarget(c, target) /\ Refuse(c)
    BY <1>1, RefuseSafe DEF Refuse
  <1>2. CASE /\ MayTarget(c, target) /\ room.users[target].Streaming
             /\ CloseAndNotify(connected[c], StopStreaming(room, target),
                               HostedBy(room, target), 0, Quiet)
             /\ UNCHANGED <<connected, panicked>>
    <2>1. HasRoom(c) /\ target \in DOMAIN room.users
      BY <1>2, OwnerRoom DEF MayTarget
    <2> QED
      BY <1>2, <2>1, StopSafe
  <1>3. CASE outbox' = Quiet /\ UNCHANGED <<connected, rooms, lookup, gauge, panicked>>
    BY <1>3 DEF Safe, NoPanic, SafeMaps, Agree, IdsDisjoint, NamesOf
  <1> QED
    BY <1>1, <1>2, <1>3 DEF OwnerStopShare

LEMMA EnableAllQuiets ==
    ASSUME TypeOK, Safe, NEW c \in DOMAIN connected, EnableAll(c)
    PROVE  Refuse(c) \/ Quiets(c)
  <1> DEFINE room  == CurrentRoom(c)
             users == [u \in DOMAIN room.users |->
                        IF u # c THEN [room.users[u] EXCEPT !.CanShare = TRUE]
                                 ELSE room.users[u]]
  <1>1. CASE ~OwnsRoom(c) /\ Refuse(c)
    BY <1>1
  <1>2. CASE /\ OwnsRoom(c)
             /\ CloseAndNotify(connected[c], [room EXCEPT !.users = users], {}, 0, Quiet)
             /\ UNCHANGED <<connected, panicked>>
    <2>1. HasRoom(c) /\ room \in Room /\ AtMostOnePresenter(room.users)
      BY <1>2, OwnerRoom, InCurrentRoom
    <2>2. DOMAIN users = DOMAIN room.users
      OBVIOUS
    <2>3. \A u \in DOMAIN room.users : /\ users[u] \in User
                                       /\ users[u].Owner = room.users[u].Owner
                                       /\ users[u].Streaming = room.users[u].Streaming
                                       /\ room.users[u].CanShare => users[u].CanShare
      BY <2>1, UserOf DEF User
    <2>4. users \in Users
      BY <2>1, <2>2, <2>3, RoomType, PartialFnIs DEF Users
    <2> HIDE DEF users
    <2>5. Presenters(users) = Presenters(room.users) \ {}
      BY <2>2, <2>3 DEF Presenters
    <2>6. \A u \in Presenters(users) : users[u].CanShare
      BY <2>1, <2>2, <2>3, <2>5, PresenterMayShare DEF Presenters
    <2>7. {} = {s \in DOMAIN room.sessions : room.sessions[s].host \in {}}
      OBVIOUS
    <2>8. Silences(room, users, {}, {})
      BY <2>2, <2>3, <2>4, <2>5, <2>6, <2>7 DEF Silences
    <2> QED
      BY <1>2, <2>1, <2>8 DEF Quiets
  <1> QED
    BY <1>1, <1>2 DEF EnableAll

LEMMA DisableAllQuiets ==
    ASSUME TypeOK, Safe, NEW c \in DOMAIN connected, DisableAll(c)
    PROVE  Refuse(c) \/ Quiets(c)
  <1> DEFINE room  == CurrentRoom(c)
             users == [u \in DOMAIN room.users |->
                        IF u # c
                          THEN [room.users[u] EXCEPT !.CanShare = FALSE, !.Streaming = FALSE]
                          ELSE room.users[u]]
             T     == Presenters(room.users) \ {c}
             ended == UNION {HostedBy(room, u) : u \in T}
  <1>1. CASE ~OwnsRoom(c) /\ Refuse(c)
    BY <1>1
  <1>2. CASE /\ OwnsRoom(c)
             /\ CloseAndNotify(connected[c], [room EXCEPT !.users = users], ended, 0, Quiet)
             /\ UNCHANGED <<connected, panicked>>
    <2>1. HasRoom(c) /\ room \in Room /\ AtMostOnePresenter(room.users)
      BY <1>2, OwnerRoom, InCurrentRoom
    <2>2. DOMAIN users = DOMAIN room.users
      OBVIOUS
    <2>3. \A u \in DOMAIN room.users : /\ users[u] \in User
                                       /\ users[u].Owner = room.users[u].Owner
                                       /\ u # c => ~users[u].Streaming
                                       /\ u = c => users[u] = room.users[u]
      BY <2>1, UserOf DEF User
    <2>4. users \in Users
      BY <2>1, <2>2, <2>3, RoomType, PartialFnIs DEF Users
    <2>5. ended = {s \in DOMAIN room.sessions : room.sessions[s].host \in T}
      BY DEF HostedBy
    <2> HIDE DEF users
    <2>6. Presenters(users) = Presenters(room.users) \ T
      BY <2>2, <2>3 DEF Presenters
    <2>7. \A u \in Presenters(users) : users[u].CanShare
      BY <2>1, <2>2, <2>3, <2>6, PresenterMayShare DEF Presenters
    <2> HIDE DEF T, ended
    <2>8. Silences(room, users, T, ended)
      BY <2>2, <2>3, <2>4, <2>5, <2>6, <2>7 DEF Silences
    <2> QED
      BY <1>2, <2>1, <2>8 DEF Quiets
  <1> QED
    BY <1>1, <1>2 DEF DisableAll

LEMMA ToggleQuiets ==
    ASSUME TypeOK, Safe, NEW c \in DOMAIN connected, NEW target,
           ToggleSharePermission(c, target)
    PROVE  Refuse(c) \/ Quiets(c)
  <1> DEFINE room  == CurrentRoom(c)
             user  == room.users[target]
             stops == user.CanShare /\ user.Streaming
             next  == [user EXCEPT !.CanShare = ~user.CanShare,
                                   !.Streaming = user.Streaming /\ ~stops]
             ended == IF stops THEN HostedBy(room, target) ELSE {}
             T     == IF stops THEN {target} ELSE {}
  <1>1. CASE ~MayTarget(c, target) /\ Refuse(c)
    BY <1>1
  <1>2. CASE /\ MayTarget(c, target)
             /\ CloseAndNotify(connected[c], [room EXCEPT !.users[target] = next], ended, 0, Quiet)
             /\ UNCHANGED <<connected, panicked>>
    <2>1. HasRoom(c) /\ target \in DOMAIN room.users /\ room \in Room
            /\ AtMostOnePresenter(room.users)
      BY <1>2, OwnerRoom, InCurrentRoom DEF MayTarget
    <2>2. user \in User /\ room.users \in Users
      BY <2>1, UserOf, RoomType
    <2>3. /\ next \in User /\ next.Owner = user.Owner
          /\ next.Streaming <=> user.Streaming /\ ~stops
          /\ next.CanShare <=> ~user.CanShare
      <3> HIDE DEF user
      <3>1. \A x, y \in BOOLEAN :
               LET n == [user EXCEPT !.CanShare = x, !.Streaming = y] IN
               n \in User /\ n.Owner = user.Owner /\ n.Streaming = y /\ n.CanShare = x
        BY <2>2 DEF User
      <3>2. (~user.CanShare) \in BOOLEAN /\ (user.Streaming /\ ~stops) \in BOOLEAN
        OBVIOUS
      <3> QED
        BY <3>1, <3>2
    <2> HIDE DEF next
    <2>4. PICK users : users = [room.users EXCEPT ![target] = next]
      OBVIOUS
    <2>5. users \in Users /\ DOMAIN users = DOMAIN room.users
      BY <2>1, <2>2, <2>3, <2>4, UpdateType DEF Users
    <2>6. users[target] = next /\ \A u \in DOMAIN users \ {target} : users[u] = room.users[u]
      BY <2>1, <2>4
    <2>7. \A u \in DOMAIN users : users[u].Owner = room.users[u].Owner
      BY <2>3, <2>6
    <2>8. Presenters(users) = Presenters(room.users) \ T
      BY <2>1, <2>3, <2>5, <2>6 DEF Presenters
    <2>9. \A u \in Presenters(users) : users[u].CanShare
      <3>1. \A u \in Presenters(room.users) : room.users[u].CanShare
        BY <2>1, PresenterMayShare
      <3>2. target \notin Presenters(users)
        BY <3>1, <2>1, <2>3, <2>5, <2>6 DEF Presenters
      <3> QED
        BY <3>1, <3>2, <2>5, <2>6 DEF Presenters
    <2>10. ended = {s \in DOMAIN room.sessions : room.sessions[s].host \in T}
      BY DEF HostedBy
    <2>11. CloseAndNotify(connected[c], [room EXCEPT !.users = users], ended, 0, Quiet)
      BY <1>2, <2>4
    <2> HIDE DEF T, ended
    <2>12. Silences(room, users, T, ended)
      BY <2>5, <2>7, <2>8, <2>9, <2>10 DEF Silences
    <2> QED
      BY <1>2, <2>1, <2>11, <2>12 DEF Quiets
  <1> QED
    BY <1>1, <1>2 DEF ToggleSharePermission

(* The owner is not the target, so taking the target out leaves one owner. *)
LEMMA EvictSafe ==
    ASSUME RoomIdsAreNames, TypeOK, Safe, NEW c \in DOMAIN connected, NEW target,
           MayTarget(c, target), NEW reason, NEW room \in Room,
           room.users = CurrentRoom(c).users, room.sessions = CurrentRoom(c).sessions,
           room.mode = CurrentRoom(c).mode,
           Evict(target, connected[c], room, reason)
    PROVE  Safe'
  <1> DEFINE old   == CurrentRoom(c)
             id    == connected[c]
             users == Without(room.users, {target})
             ended == Involving(room, target)
  <1>1. /\ id \in DOMAIN rooms /\ old = rooms[id] /\ old \in Room /\ id # NoRoom
        /\ HasOneOwner(old.users) /\ AtMostOnePresenter(old.users)
        /\ Range(old.sessions) = Views(old.users)
        /\ c \in DOMAIN old.users /\ old.users[c].Owner
        /\ target \in DOMAIN old.users \ {c}
    BY InCurrentRoom, OwnerRoom DEF MayTarget, OwnsRoom
  <1>2. /\ DOMAIN users = DOMAIN room.users \ {target}
        /\ \A u \in DOMAIN users : users[u] = room.users[u]
    BY DEF Without, Restrict
  <1>3. users \in Users
    BY RoomType, WithoutType DEF Users
  <1> HIDE DEF users
  <1>4. Presenters(users) = Presenters(room.users) \ {target}
    BY <1>2 DEF Presenters
  <1>5. HasOneOwner(users)
    <2>1. \A u \in DOMAIN old.users : old.users[u].Owner <=> u = c
      BY <1>1 DEF HasOneOwner
    <2>2. c \in DOMAIN users /\ \A u \in DOMAIN users : users[u].Owner <=> u = c
      BY <1>1, <1>2, <2>1
    <2> QED
      BY <2>2 DEF HasOneOwner
  <1>6. AtMostOnePresenter(users)
    BY <1>1, <1>2, <1>4 DEF AtMostOnePresenter, Presenters
  <1>7. Range(Without(room.sessions, ended)) = Views(users)
    BY <1>1, <1>2, <1>4, CoveredIsCoveredBut, CoveredAfterLeave
  <1>8. PICK after \in Room : after = [room EXCEPT !.users = users]
    BY <1>3, RoomType
  <1>9. after.users = users /\ after.sessions = room.sessions /\ after.mode = room.mode
    BY <1>8 DEF Room
  <1>10. ended \subseteq DOMAIN room.sessions
    BY DEF Involving
  <1>11. SafeChange(id, after, ended, {target})
    BY <1>1, <1>2, <1>5, <1>6, <1>7, <1>9, <1>10 DEF SafeChange
  <1>12. /\ connected' = Without(connected, {target}) /\ panicked' = panicked
         /\ CloseAndNotify(id, after, ended, 1, Write(Quiet, To(target, CloseWriter(reason))))
    BY <1>8 DEF Evict, users
  <1>13. SafeMaps(connected, rooms, lookup)'
    BY <1>11, <1>12, CloseAndNotifySafe
  <1> QED
    BY <1>12, <1>13 DEF Safe, NoPanic

LEMMA KickSafe ==
    ASSUME RoomIdsAreNames, TypeOK, Safe, NEW c \in DOMAIN connected, NEW target,
           Kick(c, target) \/ Ban(c, target)
    PROVE  Safe'
  <1>1. CASE ~MayTarget(c, target) /\ Refuse(c)
    BY <1>1, RefuseSafe DEF Refuse
  <1>2. CASE MayTarget(c, target)
    <2>1. CurrentRoom(c) \in Room /\ target \in Clients
      BY <1>2, OwnerRoom, CurrentRoomType, RoomType DEF MayTarget
    <2>2. CurrentRoom(c).banned \cup {Addr[target]} \in SUBSET Addrs
      BY <2>1, ConfigAssumption DEF Room
    <2>3. PICK room \in Room : room = [CurrentRoom(c) EXCEPT !.banned = @ \cup {Addr[target]}]
      BY <2>1, <2>2, RoomType
    <2>4. /\ room.users = CurrentRoom(c).users /\ room.sessions = CurrentRoom(c).sessions
          /\ room.mode = CurrentRoom(c).mode
      BY <2>1, <2>3 DEF Room
    <2>5. \/ Evict(target, connected[c], CurrentRoom(c), "kicked")
          \/ Evict(target, connected[c], room, "banned")
      BY <1>2, <2>3 DEF Kick, Ban
    <2> QED
      BY <1>2, <2>1, <2>4, <2>5, EvictSafe
  <1> QED
    BY <1>1, <1>2 DEF Kick, Ban

LEMMA DissolveSafe ==
    ASSUME RoomIdsAreNames, TypeOK, Safe, NEW c \in DOMAIN connected, Dissolve(c)
    PROVE  Safe'
  <1> DEFINE room    == CurrentRoom(c)
             id      == connected[c]
             members == DOMAIN room.users
  <1>1. CASE ~OwnsRoom(c) /\ Refuse(c)
    BY <1>1, RefuseSafe DEF Refuse
  <1>2. CASE OwnsRoom(c)
    <2>1. /\ connected' = Without(connected, members)
          /\ rooms' = Without(rooms, {id})
          /\ lookup' = lookup \ TurnNames(room.mode, DOMAIN room.sessions)
          /\ panicked' = panicked
      BY <1>2 DEF Dissolve
    <2>2. id \in DOMAIN rooms /\ id # NoRoom /\ room = rooms[id]
      BY <1>2, OwnerRoom, InCurrentRoom
    <2>3. DOMAIN rooms' = DOMAIN rooms \ {id} /\ \A r \in DOMAIN rooms' : rooms'[r] = rooms[r]
      BY <2>1 DEF Without, Restrict
    <2>4. /\ DOMAIN connected' = DOMAIN connected \ members
          /\ \A d \in DOMAIN connected' : connected'[d] = connected[d]
      BY <2>1 DEF Without, Restrict
    <2>5. Agree(connected', rooms')
      <3>1. Removal(connected, rooms, id, members, connected', rooms')
        BY <2>2, <2>3, <2>4 DEF Removal
      <3> QED
        BY <3>1, AgreeAfterRemoval DEF Safe, SafeMaps
    <2>6. IdsDisjoint(rooms') /\ lookup' = NamesOf(rooms')
      BY <2>1, <2>2, NamesAfterRemoval DEF Safe, SafeMaps
    <2> QED
      BY <2>1, <2>3, <2>5, <2>6 DEF Safe, SafeMaps, NoPanic
  <1> QED
    BY <1>1, <1>2 DEF Dissolve

(* A session of the room is between two users of the room, so the relays   *)
(* find the one they write to.                                             *)
LEMMA RelaySafe ==
    ASSUME RoomIdsAreNames, TypeOK, Safe, NEW c \in DOMAIN connected, NEW s,
           NEW from, NEW to \in {"host", "client"}, NEW msg, Relay(c, s, from, to, msg)
    PROVE  Safe'
  <1> DEFINE sessions == CurrentRoom(c).sessions
             users    == CurrentRoom(c).users
             denied   == HasRoom(c) => s \in DOMAIN sessions /\ sessions[s][from] # c
  <1>1. CASE denied /\ Refuse(c)
    BY <1>1, RefuseSafe DEF Refuse
  <1>2. CASE UNCHANGED <<connected, rooms, lookup, panicked>>
    BY <1>2 DEF Safe, NoPanic, SafeMaps, Agree, IdsDisjoint, NamesOf
  <1>3. CASE /\ ~denied /\ s \in DOMAIN sessions
             /\ Deref(sessions[s][to], CurrentRoom(c))
             /\ UNCHANGED <<connected, rooms, lookup, gauge>>
    <2>1. Range(sessions) = Views(users)
      BY <1>3, InCurrentRoom
    <2>2. sessions[s] \in Views(users)
      BY <1>3, <2>1 DEF Range
    <2>3. sessions[s].host \in DOMAIN users /\ sessions[s].client \in DOMAIN users
      BY <2>2 DEF Views, Presenters
    <2>4. ~panicked'
      BY <1>3, <2>3 DEF Deref
    <2> QED
      BY <1>3, <2>4 DEF Safe, NoPanic, SafeMaps, Agree, IdsDisjoint, NamesOf
  <1> QED
    BY <1>1, <1>2, <1>3 DEF Relay

LEMMA ConnectedSafe ==
    ASSUME RoomIdsAreNames, TypeOK, Safe, NEW c \in Clients, Connected(c)
    PROVE  Safe'
  <1>1. /\ DOMAIN connected' = DOMAIN connected \cup {c} /\ connected'[c] = NoRoom
        /\ \A d \in DOMAIN connected : connected'[d] = connected[d]
        /\ UNCHANGED <<rooms, lookup, panicked>> /\ c \notin DOMAIN connected
    BY DEF Connected, Assign, InUse
  <1>2. Agree(connected', rooms)
    <2>1. ASSUME NEW r \in DOMAIN rooms, NEW d \in DOMAIN rooms[r].users
          PROVE  d \in DOMAIN connected' /\ connected'[d] = r
      BY <1>1, <2>1 DEF Safe, SafeMaps, Agree
    <2>2. ASSUME NEW d \in DOMAIN connected', connected'[d] # NoRoom
          PROVE  connected'[d] \in DOMAIN rooms /\ d \in DOMAIN rooms[connected'[d]].users
      <3>1. d \in DOMAIN connected /\ connected[d] # NoRoom /\ connected'[d] = connected[d]
        BY <1>1, <2>2
      <3> QED
        BY <3>1 DEF Safe, SafeMaps, Agree
    <2> QED
      BY <2>1, <2>2 DEF Agree
  <1> QED
    BY <1>1, <1>2 DEF Safe, SafeMaps, NoPanic
-----------------------------------------------------------------------------
(* Rooms and sessions that are created *)

LEMMA SameSessions ==
    ASSUME NEW old, NEW rms, IdsDisjoint(old), DOMAIN rms = DOMAIN old,
           \A r \in DOMAIN old : /\ rms[r].mode = old[r].mode
                                 /\ rms[r].sessions = old[r].sessions
    PROVE  IdsDisjoint(rms) /\ NamesOf(rms) = NamesOf(old)
  BY DEF IdsDisjoint, NamesOf

(* All is well but that the sessions pairs of room id are still to be made. *)
Awaits(conn, rms, names, id, pairs) ==
    /\ Agree(conn, rms)
    /\ IdsDisjoint(rms)
    /\ names = NamesOf(rms)
    /\ \A r \in DOMAIN rms : HasOneOwner(rms[r].users) /\ AtMostOnePresenter(rms[r].users)
    /\ \A r \in DOMAIN rms \ {id} : Range(rms[r].sessions) = Views(rms[r].users)
    /\ pairs \in SUBSET Session
    /\ Views(rms[id].users) = Range(rms[id].sessions) \cup pairs

LEMMA RangeMerge ==
    ASSUME NEW f, NEW g, DOMAIN f \cap DOMAIN g = {}
    PROVE  /\ DOMAIN Merge(f, g) = DOMAIN f \cup DOMAIN g
           /\ Range(Merge(f, g)) = Range(f) \cup Range(g)
  BY DEF Merge, Range

LEMMA OpenSafe ==
    ASSUME NEW conn, NEW rms, IsRoomMap(rms), NEW names, NEW id \in DOMAIN rms, NEW pairs,
           Awaits(conn, rms, names, id, pairs), NEW new \in FreshSessions(rms, pairs),
           connected' = conn, rooms' = Open(rms, id, new),
           lookup' = names \cup TurnNames(rms[id].mode, DOMAIN new)
    PROVE  SafeMaps(connected, rooms, lookup)'
  <1> USE DEF Awaits
  <1>1. DOMAIN new \cap UsedIds(rms) = {} /\ Range(new) = pairs
    BY FreshType
  <1>2. DOMAIN rms[id].sessions \cap DOMAIN new = {}
    BY <1>1 DEF UsedIds
  <1>3. PICK sessions : sessions = Merge(rms[id].sessions, new)
    OBVIOUS
  <1>4. /\ DOMAIN sessions = DOMAIN rms[id].sessions \cup DOMAIN new
        /\ Range(sessions) = Range(rms[id].sessions) \cup pairs
    BY <1>1, <1>2, <1>3, RangeMerge
  <1>5. PICK room : room = [rms[id] EXCEPT !.sessions = sessions]
    OBVIOUS
  <1>6. room.users = rms[id].users /\ room.sessions = sessions /\ room.mode = rms[id].mode
    BY <1>5, RoomMapType DEF Room
  <1>7. rooms' = [rms EXCEPT ![id] = room]
    BY <1>3, <1>5 DEF Open
  <1>8. /\ DOMAIN rooms' = DOMAIN rms /\ rooms'[id] = room
        /\ \A r \in DOMAIN rms \ {id} : rooms'[r] = rms[r]
    BY <1>7
  <1>9. Agree(connected', rooms')
    BY <1>6, <1>8 DEF Agree
  <1>10. IdsDisjoint(rooms') /\ lookup' = NamesOf(rooms')
    <2> DEFINE ids == DOMAIN new
    <2>1. IdsDisjoint(rms) /\ Grown(rms, id, room, ids)
      BY <1>1, <1>4, <1>6 DEF Grown
    <2> HIDE DEF ids
    <2>2. /\ IdsDisjoint([rms EXCEPT ![id] = room])
          /\ NamesOf([rms EXCEPT ![id] = room]) = NamesOf(rms) \cup TurnNames(room.mode, ids)
      BY <2>1, NamesAfterOpen
    <2> QED
      BY <1>6, <1>7, <2>2 DEF ids
  <1>11. \A r \in DOMAIN rooms' : HasOneOwner(rooms'[r].users)
              /\ AtMostOnePresenter(rooms'[r].users)
              /\ Range(rooms'[r].sessions) = Views(rooms'[r].users)
    BY <1>4, <1>6, <1>8
  <1> QED
    BY <1>9, <1>10, <1>11 DEF SafeMaps

(* When the handler fails with the sessions not yet made, only those of    *)
(* the client that leaves are missing.                                     *)
LEMMA AwaitsSafeBut ==
    ASSUME NEW conn, NEW rms, NEW names, NEW pairs, NEW c,
           Awaits(conn, rms, names, conn[c], pairs),
           \A p \in pairs : c \in {p.host, p.client}
    PROVE  SafeBut(conn, rms, names, c)
  BY DEF Awaits, SafeBut, CoveredBut

(* rms is rooms with other users in room id.                               *)
Replaced(rms, id, users) == rms = [rooms EXCEPT ![id].users = users]

LEMMA UsersReplaced ==
    ASSUME TypeOK, NEW id \in DOMAIN rooms, NEW users \in Users, NEW rms,
           Replaced(rms, id, users)
    PROVE  /\ IsRoomMap(rms) /\ DOMAIN rms = DOMAIN rooms
           /\ rms[id].users = users /\ rms[id].sessions = rooms[id].sessions
           /\ rms[id].mode = rooms[id].mode /\ rms[id].banned = rooms[id].banned
           /\ rms[id].closeOnOwnerLeave = rooms[id].closeOnOwnerLeave
           /\ \A r \in DOMAIN rooms \ {id} : rms[r] = rooms[r]
  <1> USE DEF Replaced
  <1>1. IsRoomMap(rms) /\ rooms[id] \in Room
    BY UserChangeType, RoomMapType DEF TypeOK
  <1>2. DOMAIN rms = DOMAIN rooms /\ rms[id] = [rooms[id] EXCEPT !.users = users]
          /\ \A r \in DOMAIN rooms \ {id} : rms[r] = rooms[r]
    OBVIOUS
  <1> QED
    BY <1>1, <1>2 DEF Room

(* Whoever joins gets a session from each presenter.                       *)
Enters(c, old, users, pairs) ==
    /\ c \notin DOMAIN old /\ HasOneOwner(old) /\ AtMostOnePresenter(old)
    /\ users = Assign(old, c, NewUser(FALSE))
    /\ pairs = {[host |-> p, client |-> c] : p \in Presenters(users) \ {c}}

SafeEntry(c, old, users, pairs) ==
    /\ users \in Users /\ DOMAIN users = DOMAIN old \cup {c}
    /\ HasOneOwner(users) /\ AtMostOnePresenter(users)
    /\ pairs \in SUBSET Session
    /\ \A p \in pairs : p.client = c
    /\ Views(users) = Views(old) \cup pairs

LEMMA EntrySafe ==
    ASSUME NEW old \in Users, NEW c \in Clients, NEW users, NEW pairs,
           Enters(c, old, users, pairs)
    PROVE  SafeEntry(c, old, users, pairs)
  <1> USE DEF Enters
  <1>1. /\ DOMAIN users = DOMAIN old \cup {c} /\ users[c] = NewUser(FALSE)
        /\ \A u \in DOMAIN old : users[u] = old[u]
    BY DEF Assign
  <1>2. users \in Users /\ DOMAIN old \subseteq Clients
    BY NewUserType, AssignType, PartialFnIs DEF Users
  <1>3. ~users[c].Owner /\ ~users[c].Streaming
    BY <1>1 DEF NewUser
  <1>4. HasOneOwner(users)
    <2>1. PICK o \in DOMAIN old : \A u \in DOMAIN old : old[u].Owner <=> u = o
      BY DEF HasOneOwner
    <2>2. o \in DOMAIN users /\ \A u \in DOMAIN users : users[u].Owner <=> u = o
      BY <1>1, <1>3, <2>1
    <2> QED
      BY <2>2 DEF HasOneOwner
  <1>5. /\ Presenters(users) = Presenters(old) /\ Presenters(users) \ {c} = Presenters(old)
        /\ c \notin Presenters(old) /\ Presenters(old) \subseteq DOMAIN old
    BY <1>1, <1>3 DEF Presenters
  <1>6. AtMostOnePresenter(users)
    BY <1>1, <1>5 DEF AtMostOnePresenter
  <1>7. pairs = {[host |-> p, client |-> c] : p \in Presenters(old)}
    BY <1>5
  <1>8. /\ pairs \in SUBSET Session /\ \A p \in pairs : p.client = c
        /\ \A p \in Session : p \in pairs <=> p.host \in Presenters(old) /\ p.client = c
    <2> HIDE DEF Enters
    <2> QED
      BY <1>2, <1>5, <1>7 DEF Session
  <1>9. \A p \in Session : p \in Views(users) <=> p \in Views(old) \/ p \in pairs
    BY <1>1, <1>5, <1>8 DEF Views
  <1>10. Views(users) = Views(old) \cup pairs
    BY <1>8, <1>9 DEF Views
  <1> QED
    BY <1>1, <1>2, <1>4, <1>6, <1>8, <1>10 DEF SafeEntry

LEMMA JoinSafe ==
    ASSUME RoomIdsAreNames, TypeOK, Safe, NEW c \in DOMAIN connected, NEW id \in RoomIds,
           Join(c, id)
    PROVE  Safe'
  <1>1. CASE JoinRefused(c, id) /\ Refuse(c)
    BY <1>1, RefuseSafe DEF Refuse
  <1>2. CASE JoinRoom(c, id)
    <2>1. /\ id \in DOMAIN rooms /\ id # NoRoom /\ connected[c] = NoRoom /\ c \in Clients
          /\ rooms[id].users \in Users
      BY <1>2, ConnectedClient, RoomMapType, RoomType
         DEF JoinRoom, JoinRefused, RoomIdsAreNames, TypeOK
    <2>2. c \notin DOMAIN rooms[id].users
      BY <2>1 DEF Safe, SafeMaps, Agree
    <2>3. PICK users : users = Assign(rooms[id].users, c, NewUser(FALSE))
      OBVIOUS
    <2>4. PICK conn : conn = [connected EXCEPT ![c] = id]
      OBVIOUS
    <2>5. PICK rms : rms = [rooms EXCEPT ![id].users = users]
      OBVIOUS
    <2>6. PICK pairs : pairs = {[host |-> p, client |-> c] : p \in Presenters(users) \ {c}}
      OBVIOUS
    <2>7. HasOneOwner(rooms[id].users) /\ AtMostOnePresenter(rooms[id].users)
      BY <2>1 DEF Safe, SafeMaps
    <2>8. /\ users \in Users /\ DOMAIN users = DOMAIN rooms[id].users \cup {c}
          /\ HasOneOwner(users) /\ AtMostOnePresenter(users)
          /\ pairs \in SUBSET Session
          /\ \A p \in pairs : p.client = c
          /\ Views(users) = Views(rooms[id].users) \cup pairs
      <3>1. Enters(c, rooms[id].users, users, pairs)
        BY <2>2, <2>3, <2>6, <2>7 DEF Enters
      <3>2. SafeEntry(c, rooms[id].users, users, pairs)
        BY <3>1, <2>1, EntrySafe
      <3> QED
        BY <3>2 DEF SafeEntry
    <2>9. /\ IsRoomMap(rms) /\ DOMAIN rms = DOMAIN rooms
          /\ rms[id].users = users /\ rms[id].sessions = rooms[id].sessions
          /\ rms[id].mode = rooms[id].mode
          /\ \A r \in DOMAIN rooms \ {id} : rms[r] = rooms[r]
      <3>1. Replaced(rms, id, users)
        BY <2>5 DEF Replaced
      <3> QED
        BY <3>1, <2>1, <2>8, UsersReplaced
    <2>10. /\ DOMAIN conn = DOMAIN connected /\ conn[c] = id
           /\ \A d \in DOMAIN connected \ {c} : conn[d] = connected[d]
      BY <2>4
    <2>11. conn \in Conn
      BY <2>4, UpdateType DEF Conn, TypeOK
    <2>12. Agree(conn, rms)
      <3>1. ASSUME NEW r \in DOMAIN rms, NEW d \in DOMAIN rms[r].users
            PROVE  d \in DOMAIN conn /\ conn[d] = r
        <4>1. CASE d = c /\ r = id
          BY <4>1, <2>10
        <4>2. CASE ~(d = c /\ r = id)
          <5>1. d \in DOMAIN rooms[r].users
            BY <3>1, <4>2, <2>8, <2>9
          <5>2. d \in DOMAIN connected /\ connected[d] = r
            BY <5>1, <2>9 DEF Safe, SafeMaps, Agree
          <5>3. d # c
            BY <5>1, <5>2, <2>1, <2>2, <2>9 DEF TypeOK, IsRoomMap, RoomIdsAreNames
          <5> QED
            BY <5>2, <5>3, <2>10
        <4> QED
          BY <4>1, <4>2
      <3>2. ASSUME NEW d \in DOMAIN conn, conn[d] # NoRoom
            PROVE  conn[d] \in DOMAIN rms /\ d \in DOMAIN rms[conn[d]].users
        <4>1. CASE d = c
          BY <4>1, <2>1, <2>8, <2>9, <2>10
        <4>2. CASE d # c
          <5>1. conn[d] \in DOMAIN rooms /\ d \in DOMAIN rooms[conn[d]].users
            BY <3>2, <4>2, <2>10 DEF Safe, SafeMaps, Agree
          <5> QED
            BY <5>1, <2>8, <2>9
        <4> QED
          BY <4>1, <4>2
      <3> QED
        BY <3>1, <3>2 DEF Agree
    <2>13. Awaits(conn, rms, lookup, id, pairs)
      <3>1. \A r \in DOMAIN rooms : /\ rms[r].mode = rooms[r].mode
                                    /\ rms[r].sessions = rooms[r].sessions
        BY <2>9
      <3>2. IdsDisjoint(rms) /\ lookup = NamesOf(rms)
        BY <3>1, <2>9, SameSessions DEF Safe, SafeMaps
      <3>3. \A r \in DOMAIN rms : HasOneOwner(rms[r].users) /\ AtMostOnePresenter(rms[r].users)
        BY <2>8, <2>9 DEF Safe, SafeMaps
      <3>4. \A r \in DOMAIN rms \ {id} : Range(rms[r].sessions) = Views(rms[r].users)
        BY <2>9 DEF Safe, SafeMaps
      <3>5. Views(rms[id].users) = Range(rms[id].sessions) \cup pairs
        BY <2>1, <2>8, <2>9 DEF Safe, SafeMaps
      <3> QED
        BY <2>8, <2>12, <3>2, <3>3, <3>4, <3>5 DEF Awaits
    <2>14. PICK out : out = Write(Quiet, notifyInfoChanged(users))
      OBVIOUS
    <2>15. CASE executeNoError(c, "error", conn, rms, lookup, out, Count(gauge, 0, 1, 0))
      <3>1. SafeBut(conn, rms, lookup, c)
        BY <2>8, <2>10, <2>13, AwaitsSafeBut
      <3>2. SafeMaps(connected, rooms, lookup)' /\ panicked' = panicked
        BY <2>9, <2>10, <2>11, <2>15, <3>1, ExecuteNoErrorSafe
      <3> QED
        BY <3>2 DEF Safe, NoPanic
    <2>16. ASSUME NEW new \in FreshSessions(rms, pairs), connected' = conn,
                  rooms' = Open(rms, id, new), panicked' = panicked,
                  lookup' = lookup \cup TurnNames(rooms[id].mode, DOMAIN new)
           PROVE  Safe'
      <3>1. SafeMaps(connected, rooms, lookup)'
        BY <2>1, <2>9, <2>13, <2>16, OpenSafe
      <3> QED
        BY <3>1, <2>16 DEF Safe, NoPanic
    <2> QED
      BY <1>2, <2>3, <2>4, <2>5, <2>6, <2>14, <2>15, <2>16 DEF JoinRoom
  <1> QED
    BY <1>1, <1>2 DEF Join

(* A new room has one user, its owner, and no sessions.                    *)
LEMMA OpenRoomSafe ==
    ASSUME RoomIdsAreNames, TypeOK, Safe, NEW c \in DOMAIN connected, NEW id \in RoomIds,
           connected[c] = NoRoom, id \notin DOMAIN rooms,
           NEW mode, NEW leave, OpenRoom(c, id, mode, leave)
    PROVE  Safe'
  <1>1. PICK users : users = Assign(EmptyMap, c, NewUser(TRUE))
    OBVIOUS
  <1>2. PICK room : room = [mode |-> mode, closeOnOwnerLeave |-> leave, users |-> users,
                            sessions |-> EmptyMap, banned |-> {}]
    OBVIOUS
  <1>3. /\ connected' = [connected EXCEPT ![c] = id] /\ rooms' = Assign(rooms, id, room)
        /\ lookup' = lookup /\ panicked' = panicked
    BY <1>1, <1>2 DEF OpenRoom
  <1>4. room.users = users /\ room.sessions = EmptyMap
    BY <1>2
  <1>5. DOMAIN users = {c} /\ users[c] = NewUser(TRUE)
    BY <1>1 DEF Assign, EmptyMap
  <1>6. /\ HasOneOwner(users) /\ AtMostOnePresenter(users) /\ Views(users) = {}
    <2>1. users[c].Owner /\ ~users[c].Streaming
      BY <1>5 DEF NewUser
    <2>2. Presenters(users) = {}
      BY <1>5, <2>1 DEF Presenters
    <2> QED
      BY <1>5, <2>1, <2>2 DEF HasOneOwner, AtMostOnePresenter, Views
  <1>7. /\ DOMAIN rooms' = DOMAIN rooms \cup {id} /\ rooms'[id] = room
        /\ \A r \in DOMAIN rooms : rooms'[r] = rooms[r]
    BY <1>3 DEF Assign
  <1>8. id # NoRoom
    BY DEF RoomIdsAreNames
  <1>9. /\ DOMAIN connected' = DOMAIN connected /\ connected'[c] = id
        /\ \A d \in DOMAIN connected \ {c} : connected'[d] = connected[d]
    BY <1>3
  <1>10. DOMAIN room.sessions = {} /\ Range(room.sessions) = {}
    BY <1>4 DEF EmptyMap, Range
  <1>11. Agree(connected', rooms')
    <2>1. ASSUME NEW r \in DOMAIN rooms', NEW d \in DOMAIN rooms'[r].users
          PROVE  d \in DOMAIN connected' /\ connected'[d] = r
      <3>1. CASE r = id
        BY <3>1, <2>1, <1>4, <1>5, <1>7, <1>9
      <3>2. CASE r # id
        <4>1. r \in DOMAIN rooms /\ d \in DOMAIN rooms[r].users
          BY <3>2, <2>1, <1>7
        <4>2. d \in DOMAIN connected /\ connected[d] = r
          BY <4>1 DEF Safe, SafeMaps, Agree
        <4>3. r # NoRoom
          BY <4>1 DEF TypeOK, IsRoomMap, RoomIdsAreNames
        <4> QED
          BY <4>2, <4>3, <1>9
      <3> QED
        BY <3>1, <3>2
    <2>2. ASSUME NEW d \in DOMAIN connected', connected'[d] # NoRoom
          PROVE  connected'[d] \in DOMAIN rooms' /\ d \in DOMAIN rooms'[connected'[d]].users
      <3>1. CASE d = c
        BY <3>1, <1>4, <1>5, <1>7, <1>9
      <3>2. CASE d # c
        <4>1. connected'[d] \in DOMAIN rooms /\ d \in DOMAIN rooms[connected'[d]].users
          BY <3>2, <2>2, <1>9 DEF Safe, SafeMaps, Agree
        <4> QED
          BY <4>1, <1>7
      <3> QED
        BY <3>1, <3>2
    <2> QED
      BY <2>1, <2>2 DEF Agree
  <1>12. IdsDisjoint(rooms')
    BY <1>7, <1>10 DEF Safe, SafeMaps, IdsDisjoint
  <1>13. NamesOf(rooms') = NamesOf(rooms)
    <2> DEFINE N(r) == TurnNames(rooms[r].mode, DOMAIN rooms[r].sessions)
               M(r) == TurnNames(rooms'[r].mode, DOMAIN rooms'[r].sessions)
    <2>1. M(id) = {}
      BY <1>7, <1>10 DEF TurnNames
    <2>2. \A r \in DOMAIN rooms : M(r) = N(r)
      BY <1>7
    <2>3. NamesOf(rooms') = UNION {M(r) : r \in DOMAIN rooms \cup {id}}
      BY <1>7 DEF NamesOf
    <2>4. NamesOf(rooms) = UNION {N(r) : r \in DOMAIN rooms}
      BY DEF NamesOf
    <2> HIDE DEF M, N
    <2> QED
      BY <2>1, <2>2, <2>3, <2>4
  <1>14. \A r \in DOMAIN rooms' : HasOneOwner(rooms'[r].users)
              /\ AtMostOnePresenter(rooms'[r].users)
              /\ Range(rooms'[r].sessions) = Views(rooms'[r].users)
    BY <1>4, <1>6, <1>7, <1>10 DEF Safe, SafeMaps
  <1> QED
    BY <1>3, <1>11, <1>12, <1>13, <1>14 DEF Safe, SafeMaps, NoPanic

LEMMA CreateSafe ==
    ASSUME RoomIdsAreNames, TypeOK, Safe, NEW c \in DOMAIN connected, NEW id \in RoomIds,
           NEW mode, NEW leave, NEW join, Create(c, id, mode, leave, join)
    PROVE  Safe'
  <1>1. CASE Refuse(c)
    BY <1>1, RefuseSafe DEF Refuse
  <1>2. CASE Join(c, id)
    BY <1>2, JoinSafe
  <1>3. CASE connected[c] = NoRoom /\ id \notin DOMAIN rooms /\ OpenRoom(c, id, mode, leave)
    BY <1>3, OpenRoomSafe
  <1> QED
    BY <1>1, <1>2, <1>3 DEF Create

(* Whoever starts to share gets a session to every other user; when it is  *)
(* on the air already it gets them a second time.                          *)
Presents(c, old, users, pairs) ==
    /\ c \in DOMAIN old /\ old[c].CanShare /\ Presenters(old) \ {c} = {}
    /\ HasOneOwner(old)
    /\ users = [old EXCEPT ![c].Streaming = TRUE]
    /\ pairs = {[host |-> c, client |-> p] : p \in DOMAIN users \ {c}}

SafeStart(c, old, users, pairs) ==
    /\ users \in Users /\ DOMAIN users = DOMAIN old
    /\ HasOneOwner(users) /\ AtMostOnePresenter(users)
    /\ pairs \in SUBSET Session
    /\ \A p \in pairs : p.host = c
    /\ Views(users) = pairs /\ Views(old) \subseteq pairs

LEMMA StartSafe ==
    ASSUME NEW old \in Users, NEW c \in Clients, NEW users, NEW pairs,
           Presents(c, old, users, pairs)
    PROVE  SafeStart(c, old, users, pairs)
  <1> USE DEF Presents
  <1>1. old[c] \in User /\ DOMAIN old \subseteq Clients
    BY PartialFnIs DEF Users
  <1>2. /\ DOMAIN users = DOMAIN old
        /\ users[c] = [old[c] EXCEPT !.Streaming = TRUE]
        /\ \A u \in DOMAIN old \ {c} : users[u] = old[u]
    OBVIOUS
  <1>3. /\ users[c] \in User /\ users[c].Streaming
        /\ users[c].CanShare = old[c].CanShare /\ users[c].Owner = old[c].Owner
    BY <1>1, <1>2 DEF User
  <1>4. users \in Users
    <2>1. DOMAIN users \subseteq Clients /\ users \in [DOMAIN users -> User]
      BY <1>1, <1>2, <1>3, PartialFnIs DEF Users
    <2> QED
      BY <2>1, PartialFnIs DEF Users
  <1>5. HasOneOwner(users)
    BY <1>2, <1>3 DEF HasOneOwner
  <1>6. Presenters(users) = {c}
    BY <1>2, <1>3 DEF Presenters
  <1>7. AtMostOnePresenter(users)
    BY <1>3, <1>6 DEF AtMostOnePresenter
  <1>8. pairs = {[host |-> c, client |-> p] : p \in DOMAIN old \ {c}}
    BY <1>2
  <1>9. /\ pairs \in SUBSET Session /\ \A p \in pairs : p.host = c
        /\ \A p \in Session : p \in pairs <=> p.host = c /\ p.client \in DOMAIN old \ {c}
    <2> HIDE DEF Presents
    <2> QED
      BY <1>1, <1>8 DEF Session
  <1>10. Views(users) = pairs
    <2>1. \A p \in Session : p \in Views(users) <=> p \in pairs
      BY <1>2, <1>6, <1>9 DEF Views
    <2> QED
      BY <2>1, <1>9 DEF Views
  <1>11. Views(old) \subseteq pairs
    <2>1. Presenters(old) \subseteq {c}
      OBVIOUS
    <2>2. \A p \in Session : p \in Views(old) => p \in pairs
      BY <2>1, <1>9 DEF Views
    <2> QED
      BY <2>2 DEF Views
  <1> QED
    BY <1>2, <1>4, <1>5, <1>7, <1>9, <1>10, <1>11 DEF SafeStart

LEMMA ShareSafe ==
    ASSUME RoomIdsAreNames, TypeOK, Safe, NEW c \in DOMAIN connected, HasRoom(c),
           ~ShareDenied(c, CurrentRoom(c).users), Share(c, connected[c])
    PROVE  Safe'
  <1>1. PICK id : id = connected[c]
    OBVIOUS
  <1>2. /\ id \in DOMAIN rooms /\ c \in DOMAIN rooms[id].users /\ c \in Clients
        /\ HasOneOwner(rooms[id].users) /\ Range(rooms[id].sessions) = Views(rooms[id].users)
        /\ rooms[id].users \in Users
    BY <1>1, InCurrentRoom, ConnectedClient, RoomType
  <1>3. rooms[id].users[c].CanShare /\ Presenters(rooms[id].users) \ {c} = {}
    BY <1>1, <1>2 DEF ShareDenied, CurrentRoom
  <1>4. PICK users : users = [rooms[id].users EXCEPT ![c].Streaming = TRUE]
    OBVIOUS
  <1>5. PICK rms : rms = [rooms EXCEPT ![id].users = users]
    OBVIOUS
  <1>6. PICK pairs : pairs = {[host |-> c, client |-> p] : p \in DOMAIN users \ {c}}
    OBVIOUS
  <1>7. SafeStart(c, rooms[id].users, users, pairs)
    <2>1. Presents(c, rooms[id].users, users, pairs)
      BY <1>2, <1>3, <1>4, <1>6 DEF Presents
    <2> QED
      BY <2>1, <1>2, StartSafe
  <1>8. /\ IsRoomMap(rms) /\ DOMAIN rms = DOMAIN rooms
        /\ rms[id].users = users /\ rms[id].sessions = rooms[id].sessions
        /\ rms[id].mode = rooms[id].mode
        /\ \A r \in DOMAIN rooms \ {id} : rms[r] = rooms[r]
    <2>1. Replaced(rms, id, users) /\ users \in Users
      BY <1>5, <1>7 DEF Replaced, SafeStart
    <2> QED
      BY <2>1, <1>2, UsersReplaced
  <1>9. Awaits(connected, rms, lookup, id, pairs)
    <2>1. \A r \in DOMAIN rooms : /\ rms[r].mode = rooms[r].mode
                                  /\ rms[r].sessions = rooms[r].sessions
      BY <1>8
    <2>2. IdsDisjoint(rms) /\ lookup = NamesOf(rms)
      BY <2>1, <1>8, SameSessions DEF Safe, SafeMaps
    <2>3. \A r \in DOMAIN rms : HasOneOwner(rms[r].users) /\ AtMostOnePresenter(rms[r].users)
      BY <1>7, <1>8 DEF Safe, SafeMaps, SafeStart
    <2>4. \A r \in DOMAIN rms \ {id} : Range(rms[r].sessions) = Views(rms[r].users)
      BY <1>8 DEF Safe, SafeMaps
    <2>5. Views(rms[id].users) = Range(rms[id].sessions) \cup pairs /\ pairs \in SUBSET Session
      BY <1>2, <1>7, <1>8 DEF SafeStart
    <2>6. \A r \in DOMAIN rooms : DOMAIN rms[r].users = DOMAIN rooms[r].users
      BY <1>7, <1>8 DEF SafeStart
    <2>7. Agree(connected, rms)
      BY <2>6, <1>8 DEF Safe, SafeMaps, Agree
    <2> QED
      BY <2>2, <2>3, <2>4, <2>5, <2>7 DEF Awaits
  <1>10. CASE executeNoError(c, "error", connected, rms, lookup, Quiet, gauge)
    <2>1. SafeBut(connected, rms, lookup, c)
      BY <1>1, <1>7, <1>9, AwaitsSafeBut DEF SafeStart
    <2>2. connected \in Conn
      BY DEF TypeOK, Conn
    <2>3. SafeMaps(connected, rooms, lookup)' /\ panicked' = panicked
      BY <1>8, <1>10, <2>1, <2>2, ExecuteNoErrorSafe
    <2> QED
      BY <2>3 DEF Safe, NoPanic
  <1>11. ASSUME NEW new \in FreshSessions(rms, pairs), connected' = connected,
                rooms' = Open(rms, id, new), Deref(c, rooms[id]),
                lookup' = lookup \cup TurnNames(rooms[id].mode, DOMAIN new)
         PROVE  Safe'
    <2>1. SafeMaps(connected, rooms, lookup)'
      BY <1>2, <1>8, <1>9, <1>11, OpenSafe
    <2>2. ~panicked'
      BY <1>2, <1>11 DEF Deref
    <2> QED
      BY <2>1, <2>2 DEF Safe, NoPanic
  <1> QED
    BY <1>1, <1>4, <1>5, <1>6, <1>10, <1>11 DEF Share

LEMMA StartShareSafe ==
    ASSUME RoomIdsAreNames, TypeOK, Safe, NEW c \in DOMAIN connected, StartShare(c)
    PROVE  Safe'
  <1>1. CASE Refuse(c)
    BY <1>1, RefuseSafe DEF Refuse
  <1>2. CASE HasRoom(c) /\ ~ShareDenied(c, CurrentRoom(c).users) /\ Share(c, connected[c])
    BY <1>2, ShareSafe
  <1> QED
    BY <1>1, <1>2 DEF StartShare
-----------------------------------------------------------------------------
LEMMA InitSafe == Init => Safe
  <1> SUFFICES ASSUME Init PROVE Safe
    OBVIOUS
  <1>1. DOMAIN connected = {} /\ DOMAIN rooms = {} /\ lookup = {} /\ ~panicked
    BY DEF Init, EmptyMap
  <1>2. NamesOf(rooms) = {} /\ IdsDisjoint(rooms)
    BY <1>1 DEF NamesOf, IdsDisjoint
  <1> QED
    BY <1>1, <1>2 DEF Safe, SafeMaps, NoPanic, Agree

LEMMA ExecuteSafe ==
    ASSUME RoomIdsAreNames, TypeOK, Safe, NEW c \in DOMAIN connected, Execute(c)
    PROVE  Safe'
  <1>1. CASE \E id \in RoomIds, mode \in Modes, leave \in OwnerLeaveChoices, join \in BOOLEAN :
                Create(c, id, mode, leave, join)
    BY <1>1, CreateSafe
  <1>2. CASE \E id \in RoomIds : Join(c, id)
    BY <1>2, JoinSafe
  <1>3. CASE Name(c) \/ StartShare(c) \/ StopShare(c)
    BY <1>3, NameSafe, StartShareSafe, StopShareSafe
  <1>4. CASE \E s \in SessionIds : HostRelay(c, s) \/ ClientRelay(c, s)
    BY <1>4, RelaySafe DEF HostRelay, ClientRelay
  <1>5. CASE EnableAll(c) \/ DisableAll(c) \/ Dissolve(c)
    BY <1>5, EnableAllQuiets, DisableAllQuiets, QuietsSafe, RefuseSafe, DissolveSafe DEF Refuse
  <1>6. CASE \E target \in Clients : OwnerStopShare(c, target)
                                       \/ ToggleSharePermission(c, target)
    BY <1>6, OwnerStopShareSafe, ToggleQuiets, QuietsSafe, RefuseSafe DEF Refuse
  <1>7. CASE \E target \in Clients : Kick(c, target) \/ Ban(c, target)
    BY <1>7, KickSafe
  <1>8. CASE Unknown(c) \/ Exit(c) \/ Disconnected(c)
    BY <1>8, RefuseSafe DEF Unknown, Refuse, Exit, Disconnected
  <1> QED
    BY <1>1, <1>2, <1>3, <1>4, <1>5, <1>6, <1>7, <1>8 DEF Execute

(* Between any two messages the maps of the main loop are as Safe says,    *)
(* however clients, messages and failures of the IP provider interleave.   *)
THEOREM Safety == RoomIdsAreNames => (Spec => []Safe)
  <1> SUFFICES ASSUME RoomIdsAreNames PROVE Spec => []Safe
    OBVIOUS
  <1>1. Init => Safe
    BY InitSafe
  <1>2. TypeOK /\ Safe /\ [Next]_vars => Safe'
    <2> SUFFICES ASSUME TypeOK, Safe, [Next]_vars PROVE Safe'
      OBVIOUS
    <2>1. ASSUME NEW c \in Clients, Connected(c) PROVE Safe'
      BY <2>1, ConnectedSafe
    <2>2. ASSUME NEW c \in DOMAIN connected, Execute(c) PROVE Safe'
      BY <2>2, ExecuteSafe
    <2>3. CASE UNCHANGED vars
      BY <2>3 DEF vars, Safe, NoPanic, SafeMaps, Agree, IdsDisjoint, NamesOf
    <2> QED
      BY <2>1, <2>2, <2>3 DEF Next
  <1> QED
    BY <1>1, <1>2, TypeCorrect, PTL DEF Spec

(* The room each served client is in (ws/room.go Users, ClientInfo.RoomID) *)
(* is the room that lists it: no handler updates one without the other.    *)
THEOREM Membership == RoomIdsAreNames => (Spec => []MembershipAgrees)
  <1>1. Safe => MembershipAgrees
    BY DEF Safe, SafeMaps, MembershipAgrees
  <1> QED
    BY <1>1, Safety, PTL

(* Every open room has exactly one owner, also after the owner left and    *)
(* event_disconnected.go:61-76 chose the next.                             *)
THEOREM Ownership == RoomIdsAreNames => (Spec => []OneOwner)
  <1>1. Safe => OneOwner
    BY DEF Safe, SafeMaps, OneOwner
  <1> QED
    BY <1>1, Safety, PTL

(* event_share.go:20-35 and event_owner_action.go keep it to one presenter *)
(* in a room, and one that is allowed to share.                            *)
THEOREM Presenting == RoomIdsAreNames => (Spec => []OnePresenter)
  <1>1. Safe => OnePresenter
    BY DEF Safe, SafeMaps, OnePresenter
  <1> QED
    BY <1>1, Safety, PTL

(* Every user of a room has a session with its presenter and there are no  *)
(* others, whoever joined, left, was kicked or stopped last.               *)
THEOREM Coverage == RoomIdsAreNames => (Spec => []SessionsCoverViewers)
  <1>1. Safe => SessionsCoverViewers
    BY DEF Safe, SafeMaps, SessionsCoverViewers
  <1> QED
    BY <1>1, Safety, PTL

(* The TURN server accepts the user names of the live sessions and no      *)
(* others: Disallow is called on every path that ends a session.           *)
THEOREM Credentials == RoomIdsAreNames => (Spec => []CredentialsLive)
  <1>1. Safe => CredentialsLive
    BY DEF Safe, SafeMaps, CredentialsLive
  <1> QED
    BY <1>1, Safety, PTL

(* No handler dereferences a user that its room does not have, so the main *)
(* loop, which recovers from no panic, keeps running.                      *)
THEOREM NeverPanics == RoomIdsAreNames => (Spec => []NoPanic)
  <1>1. Safe => NoPanic
    BY DEF Safe
  <1> QED
    BY <1>1, Safety, PTL
-----------------------------------------------------------------------------
(* What is written to the channel of a client *)

Closing(q) == {i \in DOMAIN q : \E m \in q[i] : m.type = "closewriter"}

(* The channels of the clients S end with a CloseWriter, no other has one. *)
ClosesOnly(out, S) ==
    \A c \in Clients : Closing(out[c]) = IF c \in S THEN {Len(out[c])} ELSE {}

(* Nothing is written to a client outside S.                               *)
Reaches(out, S) == \A c \in Clients : out[c] # << >> => c \in S

(* The last that a user of a room hears of the room is who its users are.  *)
HearsLast(out, c, users) ==
    \E i \in RoomMsgs(out, c) :
        /\ out[c][i] = {RoomMsg(users)}
        /\ \A j \in RoomMsgs(out, c) : j <= i
AllHear(out, users) == \A c \in DOMAIN users : HearsLast(out, c, users)

HearsFirst(out, c, users) == out[c] # << >> /\ out[c][1] = {RoomMsg(users)}

(* Batches without messages of a type.                                     *)
Lacks(msgs, type) == \A c \in Clients : \A m \in msgs[c] : m.type # type

(* Writing one set of messages more to a channel.                          *)
LEMMA ClosingAppend ==
    ASSUME NEW q \in Seq(SUBSET Message), NEW msgs \in SUBSET Message
    PROVE  /\ Len(Append(q, msgs)) = Len(q) + 1
           /\ DOMAIN Append(q, msgs) = DOMAIN q \cup {Len(q) + 1}
           /\ Len(q) + 1 \notin DOMAIN q /\ \A i \in DOMAIN q : i <= Len(q) + 1
           /\ \A i \in DOMAIN q : Append(q, msgs)[i] = q[i]
           /\ Append(q, msgs)[Len(q) + 1] = msgs
           /\ (\A m \in msgs : m.type # "closewriter") => Closing(Append(q, msgs)) = Closing(q)
           /\ (\E m \in msgs : m.type = "closewriter")
                 => Closing(Append(q, msgs)) = Closing(q) \cup {Len(q) + 1}
  <1>1. /\ Len(Append(q, msgs)) = Len(q) + 1
        /\ DOMAIN Append(q, msgs) = DOMAIN q \cup {Len(q) + 1}
        /\ Len(q) + 1 \notin DOMAIN q /\ \A i \in DOMAIN q : i <= Len(q) + 1
        /\ \A i \in DOMAIN q : Append(q, msgs)[i] = q[i]
        /\ Append(q, msgs)[Len(q) + 1] = msgs
    OBVIOUS
  <1>2. PICK new : new = Append(q, msgs)
    OBVIOUS
  <1>3. PICK n : n = Len(q) + 1
    OBVIOUS
  <1>4. /\ DOMAIN new = DOMAIN q \cup {n} /\ n \notin DOMAIN q
        /\ \A i \in DOMAIN q : new[i] = q[i]
        /\ new[n] = msgs
    BY <1>1, <1>2, <1>3
  <1>5. /\ (\A m \in msgs : m.type # "closewriter") => Closing(new) = Closing(q)
        /\ (\E m \in msgs : m.type = "closewriter") => Closing(new) = Closing(q) \cup {n}
    BY <1>4 DEF Closing
  <1> QED
    BY <1>1, <1>2, <1>3, <1>5

LEMMA WriteAt ==
    ASSUME NEW out, NEW msgs, NEW c \in Clients
    PROVE  /\ msgs[c] = {} => Write(out, msgs)[c] = out[c]
           /\ msgs[c] # {} => Write(out, msgs)[c] = Append(out[c], msgs[c])
  BY DEF Write

LEMMA QuietIs == ClosesOnly(Quiet, {}) /\ \A S : Reaches(Quiet, S)
  BY DEF ClosesOnly, Reaches, Closing, Quiet

(* Whoever is told nothing more is told nothing after its CloseWriter.     *)
LEMMA WriteCloses ==
    ASSUME NEW out \in Outbox, NEW msgs \in Batch, NEW S, ClosesOnly(out, S),
           Lacks(msgs, "closewriter"), \A c \in S \cap Clients : msgs[c] = {}
    PROVE  ClosesOnly(Write(out, msgs), S)
  <1> SUFFICES ASSUME NEW c \in Clients
               PROVE  Closing(Write(out, msgs)[c])
                        = IF c \in S THEN {Len(Write(out, msgs)[c])} ELSE {}
    BY DEF ClosesOnly
  <1>1. out[c] \in Seq(SUBSET Message) /\ msgs[c] \in SUBSET Message
    BY DEF Outbox, Batch
  <1>2. Closing(out[c]) = IF c \in S THEN {Len(out[c])} ELSE {}
    BY DEF ClosesOnly
  <1>3. CASE msgs[c] = {}
    BY <1>2, <1>3, WriteAt
  <1>4. CASE msgs[c] # {}
    <2>1. c \notin S /\ ~\E m \in msgs[c] : m.type = "closewriter"
      BY <1>4 DEF Lacks
    <2>2. Closing(Append(out[c], msgs[c])) = Closing(out[c])
      BY <1>1, <2>1, ClosingAppend
    <2> QED
      BY <1>2, <1>4, <2>1, <2>2, WriteAt
  <1> QED
    BY <1>3, <1>4

(* Writing a CloseWriter to the clients S.                                 *)
LEMMA CloseCloses ==
    ASSUME NEW out \in Outbox, NEW msgs \in Batch, NEW S, ClosesOnly(out, {}),
           \A c \in Clients : IF c \in S THEN \E m \in msgs[c] : m.type = "closewriter"
                                          ELSE msgs[c] = {}
    PROVE  ClosesOnly(Write(out, msgs), S)
  <1> SUFFICES ASSUME NEW c \in Clients
               PROVE  Closing(Write(out, msgs)[c])
                        = IF c \in S THEN {Len(Write(out, msgs)[c])} ELSE {}
    BY DEF ClosesOnly
  <1>1. out[c] \in Seq(SUBSET Message) /\ msgs[c] \in SUBSET Message
    BY DEF Outbox, Batch
  <1>2. Closing(out[c]) = {}
    BY DEF ClosesOnly
  <1>3. CASE c \notin S
    BY <1>2, <1>3, WriteAt
  <1>4. CASE c \in S
    <2>1. msgs[c] # {} /\ \E m \in msgs[c] : m.type = "closewriter"
      BY <1>4
    <2>2. Closing(Append(out[c], msgs[c])) = {Len(Append(out[c], msgs[c]))}
      BY <1>1, <1>2, <2>1, ClosingAppend
    <2>3. Write(out, msgs)[c] = Append(out[c], msgs[c])
      BY <2>1, WriteAt
    <2> QED
      BY <1>4, <2>2, <2>3
  <1> QED
    BY <1>3, <1>4

LEMMA WriteReaches ==
    ASSUME NEW out, NEW msgs, NEW S, Reaches(out, S),
           \A c \in Clients \ S : msgs[c] = {}
    PROVE  Reaches(Write(out, msgs), S)
  BY WriteAt DEF Reaches

(* What notifyInfoChanged writes last is the last that its users hear.     *)
LEMMA NotifyIsLast ==
    ASSUME NEW out \in Outbox, NEW users \in Users
    PROVE  AllHear(Write(out, notifyInfoChanged(users)), users)
  <1> DEFINE msgs == notifyInfoChanged(users)
             new  == Write(out, msgs)
  <1> SUFFICES ASSUME NEW c \in DOMAIN users PROVE HearsLast(new, c, users)
    BY DEF AllHear
  <1>1. c \in Clients
    BY PartialFnIs DEF Users
  <1>2. msgs[c] = {RoomMsg(users)} /\ out[c] \in Seq(SUBSET Message)
          /\ {RoomMsg(users)} \in SUBSET Message
    BY <1>1, MessageType DEF notifyInfoChanged, Outbox
  <1>3. new[c] = Append(out[c], {RoomMsg(users)})
    <2> HIDE DEF msgs
    <2>1. msgs[c] # {}
      BY <1>2
    <2>2. new[c] = Append(out[c], msgs[c])
      BY <1>1, <2>1, WriteAt
    <2> QED
      BY <1>2, <2>2
  <1>4. PICK n : n = Len(out[c]) + 1
    OBVIOUS
  <1>5. /\ DOMAIN new[c] = DOMAIN out[c] \cup {n} /\ \A i \in DOMAIN out[c] : i <= n
        /\ new[c][n] = {RoomMsg(users)} /\ n <= n
    BY <1>2, <1>3, <1>4, ClosingAppend
  <1>6. RoomMsg(users).type = "room"
    BY DEF RoomMsg
  <1> HIDE DEF new
  <1>7. n \in RoomMsgs(new, c) /\ \A j \in RoomMsgs(new, c) : j <= n
    BY <1>5, <1>6 DEF RoomMsgs
  <1> QED
    BY <1>5, <1>7 DEF HearsLast

(* ... and still is when something else is written after it.               *)
LEMMA StillLast ==
    ASSUME NEW out \in Outbox, NEW msgs \in Batch, Lacks(msgs, "room"),
           NEW users \in Users, AllHear(out, users)
    PROVE  AllHear(Write(out, msgs), users)
  <1> DEFINE new == Write(out, msgs)
  <1> SUFFICES ASSUME NEW c \in DOMAIN users PROVE HearsLast(new, c, users)
    BY DEF AllHear
  <1>1. c \in Clients
    BY PartialFnIs DEF Users
  <1>2. HearsLast(out, c, users)
    BY DEF AllHear
  <1>3. out[c] \in Seq(SUBSET Message) /\ msgs[c] \in SUBSET Message
    BY <1>1 DEF Outbox, Batch
  <1>4. CASE msgs[c] = {}
    <2>1. new[c] = out[c]
      BY <1>1, <1>4, WriteAt
    <2> QED
      BY <2>1, <1>2 DEF HearsLast, RoomMsgs
  <1>5. CASE msgs[c] # {}
    <2>1. new[c] = Append(out[c], msgs[c])
      BY <1>1, <1>5, WriteAt
    <2>2. PICK n : n = Len(out[c]) + 1
      OBVIOUS
    <2>3. /\ DOMAIN new[c] = DOMAIN out[c] \cup {n}
          /\ \A i \in DOMAIN out[c] : new[c][i] = out[c][i]
          /\ new[c][n] = msgs[c]
      BY <1>3, <2>1, <2>2, ClosingAppend
    <2>4. ~\E m \in msgs[c] : m.type = "room"
      BY <1>1 DEF Lacks
    <2> HIDE DEF new
    <2>5. RoomMsgs(new, c) = RoomMsgs(out, c)
      BY <2>3, <2>4 DEF RoomMsgs
    <2> QED
      BY <1>2, <2>3, <2>5 DEF HearsLast, RoomMsgs
  <1> QED
    BY <1>4, <1>5

(* The first thing written to a channel stays the first.                   *)
Prolongs(new, out) ==
    \A c \in Clients : out[c] # << >> => new[c] # << >> /\ new[c][1] = out[c][1]

LEMMA WriteProlongs ==
    ASSUME NEW out \in Outbox, NEW msgs \in Batch
    PROVE  Prolongs(Write(out, msgs), out)
  <1> SUFFICES ASSUME NEW c \in Clients, out[c] # << >>
               PROVE  Write(out, msgs)[c] # << >> /\ Write(out, msgs)[c][1] = out[c][1]
    BY DEF Prolongs
  <1>1. out[c] \in Seq(SUBSET Message) /\ msgs[c] \in SUBSET Message
    BY DEF Outbox, Batch
  <1>2. Append(out[c], msgs[c]) # << >> /\ Append(out[c], msgs[c])[1] = out[c][1]
    <2>1. 1 \in DOMAIN out[c]
      BY <1>1
    <2> QED
      BY <1>1, <2>1, ClosingAppend
  <1>3. Write(out, msgs)[c] = out[c] \/ Write(out, msgs)[c] = Append(out[c], msgs[c])
    BY WriteAt
  <1> QED
    BY <1>2, <1>3

LEMMA ProlongsOn ==
    ASSUME NEW a, NEW b, NEW d, Prolongs(b, a), Prolongs(d, b)
    PROVE  Prolongs(d, a)
  BY DEF Prolongs

LEMMA StillFirst ==
    ASSUME NEW out, NEW new, Prolongs(new, out), NEW c \in Clients, NEW users,
           HearsFirst(out, c, users)
    PROVE  HearsFirst(new, c, users)
  BY DEF Prolongs, HearsFirst

LEMMA NotifyIsFirst ==
    ASSUME NEW users \in Users, NEW c \in DOMAIN users
    PROVE  HearsFirst(Write(Quiet, notifyInfoChanged(users)), c, users)
  <1>1. c \in Clients
    BY PartialFnIs DEF Users
  <1>2. Quiet[c] = << >> /\ notifyInfoChanged(users)[c] = {RoomMsg(users)}
    BY <1>1 DEF Quiet, notifyInfoChanged
  <1>3. Write(Quiet, notifyInfoChanged(users))[c] = Append(Quiet[c], notifyInfoChanged(users)[c])
    <2>1. notifyInfoChanged(users)[c] # {}
      BY <1>2
    <2> QED
      BY <1>1, <2>1, WriteAt
  <1>4. \A msgs : Append(<< >>, msgs) = <<msgs>>
    OBVIOUS
  <1>5. Write(Quiet, notifyInfoChanged(users))[c] = <<{RoomMsg(users)}>>
    BY <1>2, <1>3, <1>4
  <1> QED
    BY <1>5 DEF HearsFirst

(* What the handlers write but for the rooms and the CloseWriters.         *)
LEMMA Chatter ==
    /\ \A users : Lacks(notifyInfoChanged(users), "closewriter")
    /\ \A room, c, stay :
          Lacks(EndShares(room, c, stay), "closewriter")
            /\ \A d \in Clients \ stay : EndShares(room, c, stay)[d] = {}
    /\ \A new : /\ Lacks(HostSessions(new), "closewriter")
                /\ Lacks(HostSessions(new), "room")
                /\ Lacks(ClientSessions(new), "closewriter")
                /\ Lacks(ClientSessions(new), "room")
  BY DEF Lacks, notifyInfoChanged, EndShares, HostSessions, ClientSessions,
         RoomMsg, EndShare, HostSession, ClientSession
-----------------------------------------------------------------------------
(* The kinds of step *)

(* Room id becomes room and the others stay.                               *)
Changes(id, room) ==
    /\ id \in DOMAIN rooms /\ room \in Room
    /\ rooms' = [rooms EXCEPT ![id] = room]

(* Nobody comes, goes or changes.                                          *)
Idles == UNCHANGED <<connected, rooms, gauge>>

Arrives(c) ==
    /\ c \in Clients \ DOMAIN connected
    /\ connected' = Assign(connected, c, NoRoom)
    /\ UNCHANGED <<rooms, gauge>>

(* A client in no room goes, or one whose join failed half way.            *)
HangsUp(c) ==
    /\ c \in DOMAIN connected /\ connected[c] = NoRoom
    /\ connected' = Without(connected, {c})
    /\ UNCHANGED <<rooms, gauge>>

LastLeaves(c, id, rms, g) ==
    /\ DOMAIN rms[id].users = {c}
    /\ rooms' = Without(rms, {id})
    /\ gauge' = Count(g, -1, -1, -Cardinality(DOMAIN rms[id].sessions))
OneLeaves(c, id, rms, g) ==
    /\ DOMAIN rms[id].users # {c}
    /\ \E room \in Room :
          /\ rooms' = [rms EXCEPT ![id] = room]
          /\ room.users \in Successions(rms[id].users, c)
          /\ room.sessions = Without(rms[id].sessions, Involving(rms[id], c))
          /\ room.banned = rms[id].banned /\ room.mode = rms[id].mode
          /\ room.closeOnOwnerLeave = rms[id].closeOnOwnerLeave
    /\ gauge' = Count(g, 0, -1, -Cardinality(Involving(rms[id], c)))
Leaves(c, id, rms, g) == LastLeaves(c, id, rms, g) \/ OneLeaves(c, id, rms, g)

Departs(c, id) ==
    /\ c \in DOMAIN connected /\ connected[c] = id
    /\ id \in DOMAIN rooms /\ c \in DOMAIN rooms[id].users
    /\ connected' = Without(connected, {c})
    /\ Leaves(c, id, rooms, gauge)

Opens(c, id) ==
    /\ c \in DOMAIN connected /\ connected[c] = NoRoom
    /\ id \in RoomIds \ DOMAIN rooms
    /\ connected' = [connected EXCEPT ![c] = id]
    /\ \E room : /\ rooms' = Assign(rooms, id, room)
                 /\ room.users = Assign(EmptyMap, c, NewUser(TRUE))
                 /\ room.sessions = EmptyMap
    /\ gauge' = Count(gauge, 1, 1, 0)
    /\ HearsFirst(outbox', c, rooms'[id].users)

(* Room id gets sessions new.                                              *)
Extends(id, room, new) ==
    /\ Changes(id, room) /\ room.banned = rooms[id].banned
    /\ new \in SUBSET SessionIds /\ new \cap UsedIds(rooms) = {}
    /\ DOMAIN room.sessions = DOMAIN rooms[id].sessions \cup new

Joins(c, id) ==
    /\ c \in DOMAIN connected /\ connected[c] = NoRoom /\ ~Banned(c, id)
    /\ connected' = [connected EXCEPT ![c] = id]
    /\ \E room, new : /\ Extends(id, room, new)
                      /\ room.users = Assign(rooms[id].users, c, NewUser(FALSE))
                      /\ gauge' = Count(gauge, 0, 1, Cardinality(new))
    /\ HearsFirst(outbox', c, rooms'[id].users)

Starts(c, id) ==
    /\ connected' = connected
    /\ c \in DOMAIN connected /\ connected[c] = id
    /\ \E room, new : /\ Extends(id, room, new)
                      /\ ~ShareDenied(c, rooms[id].users)
                      /\ room.users = [rooms[id].users EXCEPT ![c].Streaming = TRUE]
                      /\ gauge' = Count(gauge, 0, 0, Cardinality(new))

(* Room id loses the users S and the sessions ended.                       *)
Shrinks(id, room, S, ended) ==
    /\ Changes(id, room) /\ rooms[id].banned \subseteq room.banned
    /\ ended \subseteq DOMAIN rooms[id].sessions
    /\ DOMAIN room.sessions = DOMAIN rooms[id].sessions \ ended
    /\ gauge' = Count(gauge, 0, -Cardinality(S), -Cardinality(ended))

(* Some stop to present, or are allowed or forbidden to, or nothing at all *)
(* about the users changes but everyone is told.                           *)
Resets(id) ==
    /\ connected' = connected
    /\ \E room, ended :
          /\ Shrinks(id, room, {}, ended)
          /\ DOMAIN room.users = DOMAIN rooms[id].users
          /\ \A u \in DOMAIN room.users : room.users[u].Owner = rooms[id].users[u].Owner
          /\ Presenters(room.users) \subseteq Presenters(rooms[id].users)

Expels(o, c, id) ==
    /\ o \in DOMAIN connected /\ connected[o] = id /\ MayTarget(o, c)
    /\ connected' = Without(connected, {c})
    /\ \E room : /\ Shrinks(id, room, {c}, Involving(rooms[id], c))
                 /\ room.users = Without(rooms[id].users, {c})

Dissolves(o, id) ==
    /\ o \in DOMAIN connected /\ connected[o] = id /\ OwnsRoom(o)
    /\ connected' = Without(connected, DOMAIN rooms[id].users)
    /\ rooms' = Without(rooms, {id})
    /\ gauge' = Count(gauge, -1, -Cardinality(DOMAIN rooms[id].users),
                             -Cardinality(DOMAIN rooms[id].sessions))

(* A message of c makes one of these; S is {c} if it may start to present. *)
Kind(c, S) ==
    \/ Idles \/ Arrives(c) \/ HangsUp(c)
    \/ \E id \in RoomIds : Departs(c, id) \/ Opens(c, id) \/ Joins(c, id) \/ Dissolves(c, id)
    \/ \E id \in RoomIds : c \in S /\ Starts(c, id)
    \/ \E id \in RoomIds : Resets(id)
    \/ \E d \in Clients, id \in RoomIds : Expels(c, d, id)

(* Those who may hear of a message of c: c and whoever is in a room.       *)
Hearers(c) ==
    {d \in DOMAIN connected : d = c \/ \E r \in DOMAIN rooms : d \in DOMAIN rooms[r].users}

(* The channels of those who go, and only they, end with a CloseWriter.    *)
Channels(c) ==
    /\ ClosesOnly(outbox', DOMAIN connected \ DOMAIN connected')
    /\ Reaches(outbox', Hearers(c))

(* The users of a room are told, or nothing has changed and nobody is.     *)
Unheard(out, users) == \A c \in DOMAIN users : RoomMsgs(out, c) = {}
Told ==
    \A r \in DOMAIN rooms' :
        \/ AllHear(outbox', rooms'[r].users)
        \/ /\ r \in DOMAIN rooms /\ rooms'[r].users = rooms[r].users
           /\ Unheard(outbox', rooms'[r].users)

(* A client in no room is let into one or goes, and hears so first.        *)
Answer(out, c) == out[c] # << >> /\ \A m \in out[c][1] : m.type \in {"room", "closewriter"}
AnswersFirst(c) ==
    (c \in DOMAIN connected /\ connected[c] = NoRoom) =>
        Answer(outbox', c) /\ (c \in DOMAIN connected' => connected'[c] # NoRoom)

Orderly(c, S) == Kind(c, S) /\ Channels(c) /\ Told /\ AnswersFirst(c)

(* A step that is about room id writes to the clients D at most.           *)
Nearby(c, id, D) ==
    /\ D \subseteq Hearers(c)
    /\ \A r \in DOMAIN rooms \ {id} : D \cap DOMAIN rooms[r].users = {}
OthersStay(id) ==
    \A r \in DOMAIN rooms' \ {id} : r \in DOMAIN rooms /\ rooms'[r].users = rooms[r].users
Closes == ClosesOnly(outbox', DOMAIN connected \ DOMAIN connected')

LEMMA ReachesMore ==
    ASSUME NEW out, NEW S, NEW T, Reaches(out, S), S \subseteq T
    PROVE  Reaches(out, T)
  BY DEF Reaches

LEMMA Announced ==
    ASSUME NEW c, NEW S, Kind(c, S), Closes, AnswersFirst(c), TypeOK,
           NEW id, NEW D, Nearby(c, id, D), Reaches(outbox', D), OthersStay(id),
           \A r \in DOMAIN rooms' \cap {id} : AllHear(outbox', rooms'[r].users)
    PROVE  Orderly(c, S)
  <1>1. Channels(c)
    BY ReachesMore DEF Channels, Closes, Nearby
  <1>2. ASSUME NEW r \in DOMAIN rooms' \ {id}
        PROVE  /\ r \in DOMAIN rooms /\ rooms'[r].users = rooms[r].users
               /\ Unheard(outbox', rooms'[r].users)
    <2>1. r \in DOMAIN rooms /\ rooms'[r].users = rooms[r].users
      BY DEF OthersStay
    <2>2. ASSUME NEW d \in DOMAIN rooms[r].users
          PROVE  RoomMsgs(outbox', d) = {}
      <3>1. d \in Clients /\ d \notin D
        BY <1>2, <2>1, RoomMapType, RoomType DEF Nearby, TypeOK
      <3>2. outbox'[d] = << >>
        BY <3>1 DEF Reaches
      <3> QED
        BY <3>2 DEF RoomMsgs
    <2> QED
      BY <2>1, <2>2 DEF Unheard
  <1>3. Told
    BY <1>2 DEF Told
  <1> QED
    BY <1>1, <1>3 DEF Orderly

Roomless(out) == \A d \in Clients : RoomMsgs(out, d) = {}

LEMMA Unannounced ==
    ASSUME NEW c, NEW S, Kind(c, S), Closes, AnswersFirst(c), TypeOK,
           NEW D, D \subseteq Hearers(c), Reaches(outbox', D), Roomless(outbox'),
           \A r \in DOMAIN rooms' : r \in DOMAIN rooms /\ rooms'[r].users = rooms[r].users
    PROVE  Orderly(c, S)
  <1>1. Channels(c)
    BY ReachesMore DEF Channels, Closes
  <1>2. \A r \in DOMAIN rooms : DOMAIN rooms[r].users \subseteq Clients
    BY RoomMapType, RoomType DEF TypeOK
  <1>3. Told
    BY <1>2 DEF Told, Unheard, Roomless
  <1> QED
    BY <1>1, <1>3 DEF Orderly

LEMMA WriteRoomless ==
    ASSUME NEW out \in Outbox, NEW msgs \in Batch, Lacks(msgs, "room"), Roomless(out)
    PROVE  Roomless(Write(out, msgs))
  <1> SUFFICES ASSUME NEW d \in Clients PROVE RoomMsgs(Write(out, msgs), d) = {}
    BY DEF Roomless
  <1>1. out[d] \in Seq(SUBSET Message) /\ msgs[d] \in SUBSET Message
    BY DEF Outbox, Batch
  <1>2. PICK new : new = Write(out, msgs)[d]
    OBVIOUS
  <1>3. \A i \in DOMAIN new : new[i] = msgs[d] \/ (i \in DOMAIN out[d] /\ new[i] = out[d][i])
    <2>1. new = out[d] \/ new = Append(out[d], msgs[d])
      BY <1>2, WriteAt
    <2> QED
      BY <1>1, <2>1, ClosingAppend
  <1>4. \A i \in DOMAIN out[d] : \A m \in out[d][i] : m.type # "room"
    BY DEF Roomless, RoomMsgs
  <1>5. \A m \in msgs[d] : m.type # "room"
    BY DEF Lacks
  <1> QED
    BY <1>2, <1>3, <1>4, <1>5 DEF RoomMsgs

LEMMA QuietRoomless == Roomless(Quiet)
  BY DEF Roomless, Quiet, RoomMsgs
-----------------------------------------------------------------------------
(* Leaving *)

LEMMA LeaveRoomKind ==
    ASSUME NEW rms, IsRoomMap(rms), NEW id \in DOMAIN rms, NEW c \in DOMAIN rms[id].users,
           NEW names, NEW out \in Outbox, NEW g, LeaveRoom(c, id, rms, names, out, g),
           NEW D, ClosesOnly(out, {c}), Reaches(out, D), DOMAIN rms[id].users \subseteq D
    PROVE  /\ Leaves(c, id, rms, g)
           /\ ClosesOnly(outbox', {c}) /\ Reaches(outbox', D) /\ Prolongs(outbox', out)
           /\ \A r \in DOMAIN rooms' \cap {id} : AllHear(outbox', rooms'[r].users)
           /\ \A r \in DOMAIN rooms' \ {id} : r \in DOMAIN rms /\ rooms'[r] = rms[r]
  <1> DEFINE room  == rms[id]
             stay  == DOMAIN room.users \ {c}
             ended == Involving(room, c)
             told  == Write(out, EndShares(room, c, stay))
  <1>1. room \in Room /\ room.users \in Users /\ DOMAIN room.users \subseteq Clients
    BY RoomMapType, RoomType
  <1>2. told \in Outbox /\ EndShares(room, c, stay) \in Batch /\ Prolongs(told, out)
    BY <1>1, EndSharesType, WriteType, WriteProlongs
  <1>3. \A d \in Clients \ stay : EndShares(room, c, stay)[d] = {}
    BY Chatter
  <1>4. ClosesOnly(told, {c})
    BY <1>2, <1>3, Chatter, WriteCloses
  <1>5. Reaches(told, D)
    BY <1>3, WriteReaches
  <1>6. CASE stay = {}
    <2>1. /\ rooms' = Without(rms, {id}) /\ outbox' = told
          /\ gauge' = Count(g, -1, -1, -Cardinality(DOMAIN room.sessions))
      BY <1>6 DEF LeaveRoom
    <2>2. DOMAIN room.users = {c}
      BY <1>6
    <2>3. Leaves(c, id, rms, g)
      BY <2>1, <2>2 DEF Leaves, LastLeaves
    <2>4. DOMAIN rooms' = DOMAIN rms \ {id} /\ \A r \in DOMAIN rooms' : rooms'[r] = rms[r]
      BY <2>1 DEF Without, Restrict
    <2> QED
      BY <1>2, <1>4, <1>5, <2>1, <2>3, <2>4
  <1>7. CASE stay # {}
    <2>1. PICK users \in Successions(room.users, c) :
             /\ rooms' = [rms EXCEPT ![id] = [room EXCEPT !.users = users,
                                                          !.sessions = Without(@, ended)]]
             /\ outbox' = Write(told, notifyInfoChanged(users))
             /\ gauge' = Count(g, 0, -1, -Cardinality(ended))
      BY <1>7 DEF LeaveRoom
    <2>2. users \in Users /\ DOMAIN users = stay
      BY <1>1, SuccessionsType
    <2>3. Without(room.sessions, ended) \in Sessions
      BY <1>1, RoomType, WithoutType DEF Sessions
    <2>4. PICK new \in Room : new = [room EXCEPT !.users = users, !.sessions = Without(@, ended)]
      BY <1>1, <2>2, <2>3, RoomType
    <2>5. /\ new.users = users /\ new.sessions = Without(room.sessions, ended)
          /\ new.banned = room.banned /\ new.mode = room.mode
          /\ new.closeOnOwnerLeave = room.closeOnOwnerLeave
      BY <1>1, <2>4 DEF Room
    <2>6. rooms' = [rms EXCEPT ![id] = new] /\ DOMAIN room.users # {c}
      BY <1>7, <2>1, <2>4
    <2>7. Leaves(c, id, rms, g)
      BY <2>1, <2>5, <2>6 DEF Leaves, OneLeaves
    <2>8. /\ DOMAIN rooms' = DOMAIN rms /\ rooms'[id].users = users
          /\ \A r \in DOMAIN rms \ {id} : rooms'[r] = rms[r]
      BY <2>5, <2>6
    <2>9. /\ notifyInfoChanged(users) \in Batch
          /\ \A d \in Clients \ stay : notifyInfoChanged(users)[d] = {}
      BY <2>2, BatchType DEF notifyInfoChanged
    <2>10. ClosesOnly(outbox', {c})
      BY <1>2, <1>4, <2>1, <2>9, Chatter, WriteCloses
    <2>11. Reaches(outbox', D)
      BY <1>5, <2>1, <2>9, WriteReaches
    <2>12. AllHear(outbox', users)
      BY <1>2, <2>1, <2>2, NotifyIsLast
    <2>13. Prolongs(outbox', out)
      <3>1. Prolongs(outbox', told)
        BY <1>2, <2>1, <2>9, WriteProlongs
      <3> QED
        BY <1>2, <3>1, ProlongsOn
    <2> QED
      BY <2>7, <2>8, <2>10, <2>11, <2>12, <2>13
  <1> QED
    BY <1>6, <1>7

(* The CloseWriter that executeNoError writes first.                       *)
LEMMA ByeCloses ==
    ASSUME NEW out \in Outbox, ClosesOnly(out, {}), NEW D, Reaches(out, D),
           NEW c \in Clients \cap D, NEW reason \in Reasons
    PROVE  LET bye == Write(out, To(c, CloseWriter(reason))) IN
           /\ bye \in Outbox /\ ClosesOnly(bye, {c}) /\ Reaches(bye, D)
           /\ Prolongs(bye, out) /\ (Roomless(out) => Roomless(bye))
           /\ out[c] = << >> => Answer(bye, c)
  <1> DEFINE msgs == To(c, CloseWriter(reason))
  <1>1. msgs \in Batch
    BY MessageType, BatchType
  <1>2. /\ \A d \in Clients : IF d \in {c} THEN \E m \in msgs[d] : m.type = "closewriter"
                                           ELSE msgs[d] = {}
        /\ msgs[c] # {} /\ \A m \in msgs[c] : m.type = "closewriter"
        /\ Lacks(msgs, "room")
    <2>0. CloseWriter(reason).type = "closewriter"
      BY DEF CloseWriter
    <2>1. PICK bye : bye = CloseWriter(reason) /\ bye.type = "closewriter"
      BY <2>0
    <2>2. msgs[c] = {bye} /\ \A d \in Clients \ {c} : msgs[d] = {}
      BY <2>1 DEF To
    <2> QED
      BY <2>1, <2>2 DEF Lacks
  <1> HIDE DEF msgs
  <1>3. ClosesOnly(Write(out, msgs), {c})
    BY <1>1, <1>2, CloseCloses
  <1>4. Reaches(Write(out, msgs), D)
    BY <1>2, WriteReaches
  <1>5. ASSUME out[c] = << >> PROVE Answer(Write(out, msgs), c)
    <2>1. Write(out, msgs)[c] = Append(<< >>, msgs[c])
      BY <1>2, <1>5, WriteAt
    <2>2. Append(<< >>, msgs[c]) # << >> /\ Append(<< >>, msgs[c])[1] = msgs[c]
      OBVIOUS
    <2> QED
      BY <1>2, <2>1, <2>2 DEF Answer
  <1> QED
    BY <1>1, <1>2, <1>3, <1>4, <1>5, WriteType, WriteProlongs, WriteRoomless DEF msgs

(* Whoever is in a room is connected.                                      *)
LEMMA UsersConnected ==
    ASSUME TypeOK, Safe, NEW r \in DOMAIN rooms
    PROVE  /\ DOMAIN rooms[r].users \subseteq DOMAIN connected
           /\ \A d \in DOMAIN rooms[r].users : connected[d] = r
           /\ r \in RoomIds /\ rooms[r] \in Room /\ rooms[r].users \in Users
  <1>1. r \in RoomIds /\ rooms[r] \in Room
    BY DEF TypeOK, IsRoomMap
  <1> QED
    BY <1>1, RoomType DEF Safe, SafeMaps, Agree

(* The users of a room are near it, and so is whoever has no room.         *)
LEMMA UsersNearby ==
    ASSUME TypeOK, Safe, NEW c, NEW id \in DOMAIN rooms
    PROVE  Nearby(c, id, DOMAIN rooms[id].users)
  <1>1. \A r \in DOMAIN rooms : \A d \in DOMAIN rooms[r].users :
            d \in DOMAIN connected /\ connected[d] = r
    BY UsersConnected
  <1> QED
    BY <1>1 DEF Nearby, Hearers

LEMMA HomelessNearby ==
    ASSUME RoomIdsAreNames, TypeOK, Safe, NEW c \in DOMAIN connected, connected[c] = NoRoom,
           NEW id
    PROVE  /\ Nearby(c, id, {c}) /\ \A r \in DOMAIN rooms : c \notin DOMAIN rooms[r].users
           /\ id \in DOMAIN rooms => Nearby(c, id, DOMAIN rooms[id].users \cup {c})
  <1>1. \A r \in DOMAIN rooms : c \notin DOMAIN rooms[r].users
    BY UsersConnected DEF RoomIdsAreNames
  <1>2. Nearby(c, id, {c})
    BY <1>1 DEF Nearby, Hearers
  <1>3. id \in DOMAIN rooms => Nearby(c, id, DOMAIN rooms[id].users)
    BY UsersNearby
  <1>4. id \in DOMAIN rooms => Nearby(c, id, DOMAIN rooms[id].users \cup {c})
    BY <1>2, <1>3 DEF Nearby
  <1> QED
    BY <1>1, <1>2, <1>4

LEMMA GoneIs ==
    ASSUME NEW f, NEW S
    PROVE  /\ DOMAIN Without(f, S) = DOMAIN f \ S
           /\ \A x \in DOMAIN Without(f, S) : Without(f, S)[x] = f[x]
  BY DEF Without, Restrict

(* Leaving is hanging up or departing.                                     *)
LEMMA LeaveStep ==
    ASSUME TypeOK, Safe, NEW c \in DOMAIN connected, NEW reason \in Reasons,
           Leave(c, reason), NEW S
    PROVE  Orderly(c, S)
  <1> DEFINE id  == connected[c]
             bye == Write(Quiet, To(c, CloseWriter(reason)))
  <1>1. c \in Clients /\ id \in RoomIds \cup {NoRoom}
    BY ConnectedClient
  <1>2. /\ \A D : c \in D => bye \in Outbox /\ ClosesOnly(bye, {c}) /\ Reaches(bye, D)
        /\ Roomless(bye) /\ Answer(bye, c)
    <2>1. Quiet[c] = << >>
      BY <1>1 DEF Quiet
    <2>2. ASSUME NEW D, c \in D
          PROVE  /\ bye \in Outbox /\ ClosesOnly(bye, {c}) /\ Reaches(bye, D)
                 /\ Roomless(bye) /\ Answer(bye, c)
      BY <1>1, <2>1, <2>2, QuietIs, QuietType, QuietRoomless, ByeCloses
    <2> QED
      BY <2>2
  <1>3. connected' = Without(connected, {c}) /\ DOMAIN connected \ DOMAIN connected' = {c}
    <2>1. connected' = Without(connected, {c})
      BY DEF Leave, executeNoError
    <2>2. DOMAIN connected' = DOMAIN connected \ {c}
      BY <2>1, GoneIs
    <2> QED
      BY <2>1, <2>2
  <1>4. CASE id = NoRoom
    <2>1. rooms' = rooms /\ outbox' = bye /\ gauge' = gauge
      BY <1>4 DEF Leave, executeNoError
    <2>2. Kind(c, S)
      BY <1>3, <1>4, <2>1 DEF HangsUp, Kind
    <2>3. Closes /\ AnswersFirst(c) /\ Roomless(outbox') /\ Reaches(outbox', {c})
      BY <1>2, <1>3, <2>1 DEF Closes, AnswersFirst
    <2>4. {c} \subseteq Hearers(c)
      BY DEF Hearers
    <2> QED
      BY <2>1, <2>2, <2>3, <2>4, Unannounced
  <1>5. CASE id # NoRoom
    <2>1. id \in DOMAIN rooms /\ c \in DOMAIN rooms[id].users /\ IsRoomMap(rooms)
      BY <1>5 DEF Safe, SafeMaps, Agree, TypeOK
    <2>2. LeaveRoom(c, id, rooms, lookup, bye, gauge)
      BY <1>5, <2>1 DEF Leave, executeNoError
    <2>3. PICK D : D = DOMAIN rooms[id].users
      OBVIOUS
    <2>4. Nearby(c, id, D) /\ DOMAIN rooms[id].users \subseteq D
      BY <2>1, <2>3, UsersNearby
    <2> HIDE DEF bye
    <2>5. bye \in Outbox /\ ClosesOnly(bye, {c}) /\ Reaches(bye, D)
      BY <1>2, <2>1, <2>3
    <2>6. /\ Leaves(c, id, rooms, gauge)
          /\ ClosesOnly(outbox', {c}) /\ Reaches(outbox', D)
          /\ \A r \in DOMAIN rooms' \cap {id} : AllHear(outbox', rooms'[r].users)
          /\ \A r \in DOMAIN rooms' \ {id} : r \in DOMAIN rooms /\ rooms'[r] = rooms[r]
      BY <2>1, <2>2, <2>4, <2>5, LeaveRoomKind
    <2>7. Kind(c, S)
      BY <1>1, <1>3, <1>5, <2>1, <2>6 DEF Departs, Kind
    <2>8. Closes /\ AnswersFirst(c) /\ OthersStay(id)
      BY <1>3, <1>5, <2>6 DEF Closes, AnswersFirst, OthersStay
    <2> QED
      BY <2>4, <2>6, <2>7, <2>8, Announced
  <1> QED
    BY <1>4, <1>5

LEMMA RefuseStep ==
    ASSUME TypeOK, Safe, NEW c \in DOMAIN connected, Refuse(c), NEW S
    PROVE  Orderly(c, S)
  BY LeaveStep DEF Refuse, Reasons
-----------------------------------------------------------------------------
(* Handlers that end with CloseAndNotify *)

(* The room changes as CloseAndNotify says, and everyone left hears of it. *)
LEMMA CloseStep ==
    ASSUME TypeOK, NEW id \in DOMAIN rooms, NEW room \in Room, NEW ended, NEW gone,
           NEW out \in Outbox, CloseAndNotify(id, room, ended, gone, out),
           NEW S, ClosesOnly(out, S), NEW D, Reaches(out, D),
           DOMAIN room.users \subseteq D \ S
    PROVE  /\ \E after : /\ Changes(id, after) /\ after.users = room.users
                         /\ after.banned = room.banned
                         /\ DOMAIN after.sessions = DOMAIN room.sessions \ ended
           /\ gauge' = Count(gauge, 0, -gone, -Cardinality(ended))
           /\ ClosesOnly(outbox', S) /\ Reaches(outbox', D) /\ OthersStay(id)
           /\ \A r \in DOMAIN rooms' \cap {id} : AllHear(outbox', rooms'[r].users)
  <1>1. room.users \in Users /\ Without(room.sessions, ended) \in Sessions
    BY RoomType, WithoutType DEF Sessions
  <1>2. PICK after \in Room : after = [room EXCEPT !.sessions = Without(@, ended)]
    BY <1>1, RoomType
  <1>3. /\ after.users = room.users /\ after.banned = room.banned
        /\ after.sessions = Without(room.sessions, ended)
    BY <1>2 DEF Room
  <1>4. /\ rooms' = [rooms EXCEPT ![id] = after]
        /\ outbox' = Write(out, notifyInfoChanged(room.users))
        /\ gauge' = Count(gauge, 0, -gone, -Cardinality(ended))
    BY <1>2 DEF CloseAndNotify
  <1>5. Changes(id, after) /\ DOMAIN after.sessions = DOMAIN room.sessions \ ended
    BY <1>3, <1>4, GoneIs DEF Changes
  <1>6. notifyInfoChanged(room.users) \in Batch
    BY <1>1, BatchType
  <1>7. \A d \in Clients \ DOMAIN room.users : notifyInfoChanged(room.users)[d] = {}
    BY DEF notifyInfoChanged
  <1>8. ClosesOnly(outbox', S)
    BY <1>4, <1>6, <1>7, Chatter, WriteCloses
  <1>9. Reaches(outbox', D)
    BY <1>4, <1>7, WriteReaches
  <1>10. AllHear(outbox', room.users)
    BY <1>1, <1>4, NotifyIsLast
  <1>11. OthersStay(id) /\ \A r \in DOMAIN rooms' \cap {id} : AllHear(outbox', rooms'[r].users)
    BY <1>3, <1>4, <1>10 DEF OthersStay
  <1> QED
    BY <1>3, <1>4, <1>5, <1>8, <1>9, <1>11

(* A handler that keeps the users of the current room and their owner.     *)
LEMMA ResetStep ==
    ASSUME TypeOK, Safe, NEW c \in DOMAIN connected, HasRoom(c), NEW users \in Users,
           DOMAIN users = DOMAIN CurrentRoom(c).users,
           \A u \in DOMAIN users : users[u].Owner = CurrentRoom(c).users[u].Owner,
           Presenters(users) \subseteq Presenters(CurrentRoom(c).users),
           NEW ended \in SUBSET DOMAIN CurrentRoom(c).sessions,
           NEW out \in Outbox, ClosesOnly(out, {}), Reaches(out, DOMAIN users),
           CloseAndNotify(connected[c], [CurrentRoom(c) EXCEPT !.users = users], ended, 0, out),
           connected' = connected, NEW S
    PROVE  Orderly(c, S)
  <1> DEFINE id  == connected[c]
             old == CurrentRoom(c)
  <1>1. id \in DOMAIN rooms /\ id \in RoomIds /\ old = rooms[id] /\ old \in Room
    BY InCurrentRoom, UsersConnected
  <1>2. Nearby(c, id, DOMAIN users)
    BY <1>1, UsersNearby
  <1>3. PICK room \in Room : room = [old EXCEPT !.users = users]
    BY <1>1, RoomType
  <1>4. room.users = users /\ room.sessions = old.sessions /\ room.banned = old.banned
    BY <1>1, <1>3 DEF Room
  <1>5. CloseAndNotify(id, room, ended, 0, out)
    BY <1>3
  <1>6. DOMAIN room.users \subseteq (DOMAIN users) \ {}
    BY <1>4
  <1>7. /\ \E after : /\ Changes(id, after) /\ after.users = room.users
                      /\ after.banned = room.banned
                      /\ DOMAIN after.sessions = DOMAIN room.sessions \ ended
        /\ gauge' = Count(gauge, 0, -0, -Cardinality(ended))
        /\ ClosesOnly(outbox', {}) /\ Reaches(outbox', DOMAIN users) /\ OthersStay(id)
        /\ \A r \in DOMAIN rooms' \cap {id} : AllHear(outbox', rooms'[r].users)
    BY <1>1, <1>5, <1>6, CloseStep
  <1>8. gauge' = Count(gauge, 0, -Cardinality({}), -Cardinality(ended))
    BY <1>7, FS_EmptySet
  <1>9. Resets(id)
    <2>1. PICK after : /\ Changes(id, after) /\ after.users = users
                       /\ after.banned = old.banned
                       /\ DOMAIN after.sessions = DOMAIN old.sessions \ ended
      BY <1>4, <1>7
    <2>2. Shrinks(id, after, {}, ended)
      BY <1>1, <1>8, <2>1 DEF Shrinks
    <2> QED
      BY <1>1, <2>1, <2>2 DEF Resets
  <1>10. Kind(c, S) /\ AnswersFirst(c)
    BY <1>1, <1>9 DEF Kind, AnswersFirst, HasRoom
  <1>11. Closes
    <2>1. DOMAIN connected \ DOMAIN connected' = {}
      OBVIOUS
    <2> QED
      BY <1>7, <2>1 DEF Closes
  <1> QED
    BY <1>2, <1>7, <1>10, <1>11, Announced

LEMMA NameStep ==
    ASSUME TypeOK, Safe, NEW c \in DOMAIN connected, Name(c)
    PROVE  Orderly(c, {})
  <1>1. CASE ~HasRoom(c) /\ Refuse(c)
    BY <1>1, RefuseStep
  <1>2. CASE HasRoom(c) /\ CloseAndNotify(connected[c], CurrentRoom(c), {}, 0, Quiet)
               /\ UNCHANGED connected
    <2> DEFINE users == CurrentRoom(c).users
    <2>1. CurrentRoom(c) \in Room
      BY <1>2, InCurrentRoom
    <2>2. users \in Users /\ CurrentRoom(c) = [CurrentRoom(c) EXCEPT !.users = users]
      BY <2>1, RoomType DEF Room
    <2>3. CloseAndNotify(connected[c], [CurrentRoom(c) EXCEPT !.users = users], {}, 0, Quiet)
      BY <1>2, <2>2
    <2> QED
      BY <1>2, <2>2, <2>3, QuietIs, QuietType, ResetStep
  <1> QED
    BY <1>1, <1>2 DEF Name

(* Whoever stops the stream of target.                                     *)
LEMMA StopStep ==
    ASSUME TypeOK, Safe, NEW c \in DOMAIN connected, HasRoom(c),
           NEW target \in DOMAIN CurrentRoom(c).users,
           NEW out \in Outbox, ClosesOnly(out, {}),
           Reaches(out, DOMAIN CurrentRoom(c).users),
           CloseAndNotify(connected[c], StopStreaming(CurrentRoom(c), target),
                          HostedBy(CurrentRoom(c), target), 0, out),
           connected' = connected
    PROVE  Orderly(c, {})
  <1>1. CurrentRoom(c) \in Room
    BY InCurrentRoom
  <1>2. PICK users \in Users :
              /\ StopStreaming(CurrentRoom(c), target) = [CurrentRoom(c) EXCEPT !.users = users]
              /\ DOMAIN users = DOMAIN CurrentRoom(c).users
              /\ \A u \in DOMAIN users : users[u].Owner = CurrentRoom(c).users[u].Owner
              /\ Presenters(users) = Presenters(CurrentRoom(c).users) \ {target}
    <2>1. \E users \in Users :
              /\ StopStreaming(CurrentRoom(c), target) = [CurrentRoom(c) EXCEPT !.users = users]
              /\ DOMAIN users = DOMAIN CurrentRoom(c).users
              /\ \A u \in DOMAIN users : /\ users[u].Owner = CurrentRoom(c).users[u].Owner
                                         /\ users[u].CanShare = CurrentRoom(c).users[u].CanShare
              /\ Presenters(users) = Presenters(CurrentRoom(c).users) \ {target}
      BY <1>1, StopStreamingIs, Zenon
    <2> QED
      BY <2>1, ZenonT(60)
  <1>3. HostedBy(CurrentRoom(c), target) \in SUBSET DOMAIN CurrentRoom(c).sessions
    BY DEF HostedBy
  <1>4. Presenters(users) \subseteq Presenters(CurrentRoom(c).users)
    BY <1>2
  <1>5. CloseAndNotify(connected[c], [CurrentRoom(c) EXCEPT !.users = users],
                       HostedBy(CurrentRoom(c), target), 0, out)
    <2>1. StopStreaming(CurrentRoom(c), target) = [CurrentRoom(c) EXCEPT !.users = users]
      BY <1>2
    <2> QED
      BY <2>1
  <1> QED
    BY <1>2, <1>3, <1>4, <1>5, ResetStep

LEMMA StopShareStep ==
    ASSUME TypeOK, Safe, NEW c \in DOMAIN connected, StopShare(c)
    PROVE  Orderly(c, {})
  <1> DEFINE room  == CurrentRoom(c)
             ended == HostedBy(room, c)
             told  == [p \in Clients |->
                        IF p \in DOMAIN room.users
                          THEN {EndShare(s) : s \in {t \in ended : room.sessions[t].client = p}}
                          ELSE {}]
  <1>1. CASE ~HasRoom(c) /\ Refuse(c)
    BY <1>1, RefuseStep
  <1>2. CASE /\ HasRoom(c)
             /\ CloseAndNotify(connected[c], StopStreaming(room, c), ended, 0,
                               Write(Quiet, told))
             /\ UNCHANGED connected
    <2>1. room \in Room /\ c \in DOMAIN room.users
      BY <1>2, InCurrentRoom
    <2>2. ended \subseteq SessionIds
      BY <2>1, RoomType DEF HostedBy
    <2>3. told \in Batch
      BY <2>2, MessageType DEF Batch
    <2>4. Lacks(told, "closewriter")
      BY DEF Lacks, EndShare
    <2>5. \A p \in Clients \ DOMAIN room.users : told[p] = {}
      OBVIOUS
    <2> HIDE DEF told
    <2>6. Write(Quiet, told) \in Outbox /\ ClosesOnly(Write(Quiet, told), {})
      BY <2>3, <2>4, QuietIs, QuietType, WriteType, WriteCloses
    <2>7. Reaches(Write(Quiet, told), DOMAIN room.users)
      BY <2>5, QuietIs, WriteReaches
    <2> HIDE DEF room, ended
    <2> QED
      BY <1>2, <2>1, <2>6, <2>7, StopStep DEF room, ended
  <1> QED
    BY <1>1, <1>2 DEF StopShare

(* A handler that does nothing for a client in a room.                     *)
LEMMA SilentStep ==
    ASSUME TypeOK, NEW c \in DOMAIN connected, HasRoom(c), outbox' = Quiet,
           UNCHANGED <<connected, rooms, gauge>>
    PROVE  Orderly(c, {})
  <1>1. Kind(c, {}) /\ AnswersFirst(c)
    BY DEF Kind, Idles, AnswersFirst, HasRoom
  <1>2. DOMAIN connected \ DOMAIN connected' = {}
    OBVIOUS
  <1>3. Closes /\ Roomless(outbox') /\ Reaches(outbox', {})
    BY <1>2, QuietIs, QuietRoomless DEF Closes
  <1> QED
    BY <1>1, <1>3, Unannounced

LEMMA OwnerStopShareStep ==
    ASSUME TypeOK, Safe, NEW c \in DOMAIN connected, NEW target, OwnerStopShare(c, target)
    PROVE  Orderly(c, {})
  <1>1. CASE ~MayTarget(c, target) /\ Refuse(c)
    BY <1>1, RefuseStep
  <1>2. CASE /\ MayTarget(c, target)
             /\ CloseAndNotify(connected[c], StopStreaming(CurrentRoom(c), target),
                               HostedBy(CurrentRoom(c), target), 0, Quiet)
             /\ UNCHANGED <<connected, panicked>>
    <2>1. HasRoom(c) /\ target \in DOMAIN CurrentRoom(c).users
      BY <1>2, OwnerRoom DEF MayTarget
    <2> QED
      BY <1>2, <2>1, QuietIs, QuietType, StopStep
  <1>3. CASE /\ MayTarget(c, target) /\ outbox' = Quiet
             /\ UNCHANGED <<connected, rooms, lookup, gauge, panicked>>
    <2>1. HasRoom(c)
      BY <1>3, OwnerRoom DEF MayTarget
    <2> QED
      BY <1>3, <2>1, SilentStep
  <1> QED
    BY <1>1, <1>2, <1>3 DEF OwnerStopShare

(* enableAll, disableAll and toggleSharePermission.                        *)
LEMMA QuietsStep ==
    ASSUME TypeOK, Safe, NEW c \in DOMAIN connected, Refuse(c) \/ Quiets(c)
    PROVE  Orderly(c, {})
  <1>1. CASE Quiets(c)
    <2>1. PICK T, users, ended :
            /\ Silences(CurrentRoom(c), users, T, ended)
            /\ CloseAndNotify(connected[c], [CurrentRoom(c) EXCEPT !.users = users],
                              ended, 0, Quiet)
      BY <1>1 DEF Quiets
    <2>2. /\ users \in Users /\ DOMAIN users = DOMAIN CurrentRoom(c).users
          /\ \A u \in DOMAIN users : users[u].Owner = CurrentRoom(c).users[u].Owner
          /\ Presenters(users) \subseteq Presenters(CurrentRoom(c).users)
          /\ ended \in SUBSET DOMAIN CurrentRoom(c).sessions
      BY <2>1 DEF Silences
    <2>3. HasRoom(c) /\ connected' = connected
      BY <1>1 DEF Quiets
    <2> QED
      BY <2>1, <2>2, <2>3, QuietIs, QuietType, ResetStep
  <1> QED
    BY <1>1, RefuseStep

LEMMA UsersWithout ==
    ASSUME NEW users \in Users, NEW S
    PROVE  Without(users, S) \in Users /\ DOMAIN Without(users, S) = DOMAIN users \ S
  BY WithoutType DEF Users

(* kick and ban.                                                           *)
LEMMA EvictStep ==
    ASSUME TypeOK, Safe, NEW c \in DOMAIN connected, NEW target, MayTarget(c, target),
           NEW reason \in Reasons, NEW room \in Room,
           room.users = CurrentRoom(c).users, room.sessions = CurrentRoom(c).sessions,
           CurrentRoom(c).banned \subseteq room.banned,
           Evict(target, connected[c], room, reason)
    PROVE  Orderly(c, {})
  <1> DEFINE id    == connected[c]
             users == Without(room.users, {target})
             ended == Involving(room, target)
             bye   == Write(Quiet, To(target, CloseWriter(reason)))
  <1>1. /\ id \in DOMAIN rooms /\ id \in RoomIds /\ CurrentRoom(c) = rooms[id]
        /\ target \in DOMAIN rooms[id].users
    BY OwnerRoom, InCurrentRoom, UsersConnected DEF MayTarget
  <1> DEFINE D == DOMAIN rooms[id].users
  <1>2. D \subseteq DOMAIN connected /\ target \in Clients \cap D /\ Nearby(c, id, D)
    BY <1>1, UsersConnected, ConnectedClient, UsersNearby
  <1>3. bye \in Outbox /\ ClosesOnly(bye, {target}) /\ Reaches(bye, D)
    BY <1>2, QuietIs, QuietType, ByeCloses
  <1>4. users \in Users /\ DOMAIN users = DOMAIN room.users \ {target}
    <2>1. room.users \in Users
      BY RoomType
    <2> QED
      BY <2>1, UsersWithout
  <1>5. PICK after \in Room : after = [room EXCEPT !.users = Without(@, {target})]
    BY <1>4, RoomType
  <1>6. after.users = users /\ after.sessions = room.sessions /\ after.banned = room.banned
    BY <1>5 DEF Room
  <1>7. CloseAndNotify(id, after, ended, 1, bye) /\ connected' = Without(connected, {target})
    BY <1>5 DEF Evict
  <1>8. DOMAIN after.users \subseteq D \ {target}
    BY <1>1, <1>2, <1>4, <1>6
  <1>9. ended = Involving(rooms[id], target) /\ ended \subseteq DOMAIN rooms[id].sessions
    BY <1>1 DEF Involving
  <1> HIDE DEF bye, users, ended
  <1>10. /\ \E last : /\ Changes(id, last) /\ last.users = after.users
                      /\ last.banned = after.banned
                      /\ DOMAIN last.sessions = DOMAIN after.sessions \ ended
         /\ gauge' = Count(gauge, 0, -1, -Cardinality(ended))
         /\ ClosesOnly(outbox', {target}) /\ Reaches(outbox', D) /\ OthersStay(id)
         /\ \A r \in DOMAIN rooms' \cap {id} : AllHear(outbox', rooms'[r].users)
    BY <1>1, <1>3, <1>7, <1>8, CloseStep
  <1>11. gauge' = Count(gauge, 0, -Cardinality({target}), -Cardinality(ended))
    <2>1. Cardinality({target}) = 1
      BY FS_Singleton
    <2> QED
      BY <1>10, <2>1
  <1>12. Expels(c, target, id)
    <2>1. PICK last : /\ Changes(id, last) /\ last.users = users
                      /\ last.banned = room.banned
                      /\ DOMAIN last.sessions = DOMAIN rooms[id].sessions \ ended
      BY <1>1, <1>6, <1>10
    <2>2. Shrinks(id, last, {target}, Involving(rooms[id], target))
      BY <1>1, <1>9, <1>11, <2>1 DEF Shrinks
    <2>3. last.users = Without(rooms[id].users, {target})
      BY <1>1, <2>1 DEF users
    <2> QED
      BY <1>7, <2>2, <2>3 DEF Expels
  <1>13. DOMAIN connected \ DOMAIN connected' = {target}
    <2>1. DOMAIN connected' = DOMAIN connected \ {target}
      BY <1>7, GoneIs
    <2> QED
      BY <1>2, <2>1
  <1>14. Closes /\ AnswersFirst(c) /\ Kind(c, {})
    <2>1. HasRoom(c)
      BY OwnerRoom DEF MayTarget
    <2> QED
      BY <1>1, <1>2, <1>10, <1>12, <1>13, <2>1 DEF Closes, AnswersFirst, HasRoom, Kind
  <1> QED
    BY <1>2, <1>10, <1>14, Announced

LEMMA KickStep ==
    ASSUME TypeOK, Safe, NEW c \in DOMAIN connected, NEW target,
           Kick(c, target) \/ Ban(c, target)
    PROVE  Orderly(c, {})
  <1>1. CASE ~MayTarget(c, target) /\ Refuse(c)
    BY <1>1, RefuseStep
  <1>2. CASE MayTarget(c, target)
    <2>1. CurrentRoom(c) \in Room /\ target \in Clients
      BY <1>2, OwnerRoom, CurrentRoomType, RoomType DEF MayTarget
    <2>2. CurrentRoom(c).banned \cup {Addr[target]} \in SUBSET Addrs
      BY <2>1, ConfigAssumption DEF Room
    <2>3. PICK room \in Room : room = [CurrentRoom(c) EXCEPT !.banned = @ \cup {Addr[target]}]
      BY <2>1, <2>2, RoomType
    <2>4. /\ room.users = CurrentRoom(c).users /\ room.sessions = CurrentRoom(c).sessions
          /\ CurrentRoom(c).banned \subseteq room.banned
      BY <2>1, <2>3 DEF Room
    <2>5. "kicked" \in Reasons /\ "banned" \in Reasons
      BY DEF Reasons
    <2>6. \/ Evict(target, connected[c], CurrentRoom(c), "kicked")
          \/ Evict(target, connected[c], room, "banned")
      BY <1>2, <2>3 DEF Kick, Ban
    <2> QED
      BY <1>2, <2>1, <2>4, <2>5, <2>6, EvictStep
  <1> QED
    BY <1>1, <1>2 DEF Kick, Ban

LEMMA DissolveStep ==
    ASSUME TypeOK, Safe, NEW c \in DOMAIN connected, Dissolve(c)
    PROVE  Orderly(c, {})
  <1> DEFINE room    == CurrentRoom(c)
             id      == connected[c]
             members == DOMAIN room.users
             byes    == [p \in Clients |->
                            IF p \in members THEN {CloseWriter("dissolved")} ELSE {}]
  <1>1. CASE ~OwnsRoom(c) /\ Refuse(c)
    BY <1>1, RefuseStep
  <1>2. CASE OwnsRoom(c)
    <2>1. /\ connected' = Without(connected, members)
          /\ rooms' = Without(rooms, {id})
          /\ outbox' = Write(Quiet, byes)
          /\ gauge' = Count(gauge, -1, -Cardinality(members), -Cardinality(DOMAIN room.sessions))
      BY <1>2 DEF Dissolve
    <2>2. id \in DOMAIN rooms /\ id \in RoomIds /\ room = rooms[id] /\ c \in Clients
      BY <1>2, OwnerRoom, InCurrentRoom, UsersConnected, ConnectedClient
    <2>3. members \subseteq DOMAIN connected /\ Nearby(c, id, members)
      BY <2>2, UsersConnected, UsersNearby
    <2>4. byes \in Batch
      BY MessageType DEF Batch, Reasons
    <2>5. \A p \in Clients : IF p \in members THEN \E m \in byes[p] : m.type = "closewriter"
                                              ELSE byes[p] = {}
      BY DEF CloseWriter
    <2>12. Lacks(byes, "room")
      BY DEF CloseWriter, Lacks
    <2>6. DOMAIN connected \ DOMAIN connected' = members
      <3>1. DOMAIN connected' = DOMAIN connected \ members
        BY <2>1, GoneIs
      <3> QED
        BY <2>3, <3>1
    <2> HIDE DEF byes
    <2>7. ClosesOnly(outbox', members)
      BY <2>1, <2>4, <2>5, QuietIs, QuietType, CloseCloses
    <2>8. Reaches(outbox', members) /\ Roomless(outbox')
      BY <2>1, <2>4, <2>5, <2>12, QuietIs, QuietType, QuietRoomless, WriteReaches, WriteRoomless
    <2>9. Closes /\ AnswersFirst(c)
      <3>1. HasRoom(c)
        BY <1>2, OwnerRoom
      <3> QED
        BY <2>6, <2>7, <3>1 DEF Closes, AnswersFirst, HasRoom
    <2>10. \A r \in DOMAIN rooms' : r \in DOMAIN rooms /\ rooms'[r] = rooms[r]
      BY <2>1 DEF Without, Restrict
    <2>11. Kind(c, {})
      BY <1>2, <2>1, <2>2 DEF Dissolves, Kind
    <2> QED
      BY <2>3, <2>8, <2>9, <2>10, <2>11, Unannounced DEF Nearby
  <1> QED
    BY <1>1, <1>2 DEF Dissolve

LEMMA RelayStep ==
    ASSUME TypeOK, Safe, NEW c \in DOMAIN connected, NEW s \in SessionIds,
           HostRelay(c, s) \/ ClientRelay(c, s)
    PROVE  Orderly(c, {})
  <1> SUFFICES ASSUME NEW from, NEW to \in {"host", "client"},
                      NEW msg \in {HostMsg(s), ClientMsg(s)}, Relay(c, s, from, to, msg)
               PROVE  Orderly(c, {})
    BY DEF HostRelay, ClientRelay
  <1> DEFINE sessions == CurrentRoom(c).sessions
             users    == CurrentRoom(c).users
             denied   == HasRoom(c) => s \in DOMAIN sessions /\ sessions[s][from] # c
  <1>1. CASE denied /\ Refuse(c)
    BY <1>1, RefuseStep
  <1>2. CASE ~denied /\ outbox' = Quiet /\ UNCHANGED <<connected, rooms, lookup, gauge, panicked>>
    BY <1>2, SilentStep
  <1>3. CASE /\ ~denied /\ s \in DOMAIN sessions
             /\ outbox' = Write(Quiet, To(sessions[s][to], msg))
             /\ UNCHANGED <<connected, rooms, lookup, gauge>>
    <2>1. /\ Range(sessions) = Views(users) /\ connected[c] \in DOMAIN rooms
          /\ CurrentRoom(c) = rooms[connected[c]]
      BY <1>3, InCurrentRoom
    <2>2. sessions[s] \in Views(users)
      BY <1>3, <2>1 DEF Range
    <2>3. PICK p : p = sessions[s][to]
      OBVIOUS
    <2>4. p \in DOMAIN users
      BY <2>2, <2>3 DEF Views, Presenters
    <2>5. p \in Clients /\ {p} \subseteq Hearers(c)
      BY <2>1, <2>4, UsersConnected, ConnectedClient DEF Hearers
    <2>6. To(p, msg) \in Batch
      BY <2>5, MessageType, BatchType
    <2>7. /\ Lacks(To(p, msg), "closewriter") /\ Lacks(To(p, msg), "room")
          /\ \A d \in Clients \ {p} : To(p, msg)[d] = {}
      BY DEF Lacks, To, HostMsg, ClientMsg
    <2>8. outbox' = Write(Quiet, To(p, msg)) /\ DOMAIN connected \ DOMAIN connected' = {}
      BY <1>3, <2>3
    <2>9. ClosesOnly(outbox', {}) /\ Roomless(outbox')
      BY <2>6, <2>7, <2>8, QuietIs, QuietType, QuietRoomless, WriteType, WriteCloses, WriteRoomless
    <2>10. Reaches(outbox', {p})
      BY <2>7, <2>8, QuietIs, WriteReaches
    <2>11. Closes /\ AnswersFirst(c) /\ Kind(c, {})
      BY <1>3, <2>8, <2>9 DEF Closes, AnswersFirst, HasRoom, Kind, Idles
    <2> QED
      BY <1>3, <2>5, <2>9, <2>10, <2>11, Unannounced
  <1> QED
    BY <1>1, <1>2, <1>3 DEF Relay
-----------------------------------------------------------------------------
(* Connecting, creating, joining and sharing *)

LEMMA ConnectedStep ==
    ASSUME TypeOK, NEW c \in Clients, Connected(c)
    PROVE  Orderly(c, {})
  <1>1. Arrives(c) /\ rooms' = rooms /\ outbox' = Quiet
    BY DEF Connected, Arrives, InUse
  <1>2. DOMAIN connected \ DOMAIN connected' = {} /\ c \notin DOMAIN connected
    BY DEF Connected, Assign, InUse
  <1>3. Closes /\ Roomless(outbox') /\ Reaches(outbox', {})
    BY <1>1, <1>2, QuietIs, QuietRoomless DEF Closes
  <1>4. Kind(c, {}) /\ AnswersFirst(c)
    BY <1>1, <1>2 DEF Kind, AnswersFirst
  <1> QED
    BY <1>1, <1>3, <1>4, Unannounced

(* notifyInfoChanged to users that are connected.                          *)
LEMMA NotifyReaches ==
    ASSUME NEW users \in Users, NEW out \in Outbox, NEW D, DOMAIN users \subseteq D,
           NEW S, ClosesOnly(out, S), Reaches(out, D), DOMAIN users \cap S = {}
    PROVE  LET new == Write(out, notifyInfoChanged(users)) IN
           /\ new \in Outbox /\ ClosesOnly(new, S) /\ Reaches(new, D)
           /\ AllHear(new, users)
  <1> DEFINE msgs == notifyInfoChanged(users)
  <1>1. msgs \in Batch /\ Lacks(msgs, "closewriter")
    BY BatchType, Chatter
  <1>2. \A d \in Clients \ DOMAIN users : msgs[d] = {}
    BY DEF notifyInfoChanged
  <1> HIDE DEF msgs
  <1>3. \A d \in S \cap Clients : msgs[d] = {}
    BY <1>2
  <1>4. ClosesOnly(Write(out, msgs), S)
    BY <1>1, <1>3, WriteCloses
  <1>5. Reaches(Write(out, msgs), D)
    BY <1>2, WriteReaches
  <1>6. Write(out, msgs) \in Outbox
    BY <1>1, WriteType
  <1> QED
    BY <1>4, <1>5, <1>6, NotifyIsLast DEF msgs

LEMMA HeardAnswers ==
    ASSUME NEW out, NEW c, NEW users, HearsFirst(out, c, users)
    PROVE  Answer(out, c)
  BY DEF HearsFirst, Answer, RoomMsg

LEMMA OpenRoomStep ==
    ASSUME RoomIdsAreNames, TypeOK, Safe, NEW c \in DOMAIN connected, NEW id \in RoomIds,
           connected[c] = NoRoom, id \notin DOMAIN rooms,
           NEW mode, NEW leave, OpenRoom(c, id, mode, leave)
    PROVE  Orderly(c, {})
  <1>1. PICK users : users = Assign(EmptyMap, c, NewUser(TRUE))
    OBVIOUS
  <1>2. PICK room : room = [mode |-> mode, closeOnOwnerLeave |-> leave, users |-> users,
                            sessions |-> EmptyMap, banned |-> {}]
    OBVIOUS
  <1>3. /\ connected' = [connected EXCEPT ![c] = id] /\ rooms' = Assign(rooms, id, room)
        /\ outbox' = Write(Quiet, notifyInfoChanged(users)) /\ gauge' = Count(gauge, 1, 1, 0)
    BY <1>1, <1>2 DEF OpenRoom
  <1>4. room.users = users /\ room.sessions = EmptyMap
    BY <1>2
  <1>5. c \in Clients /\ users \in Users /\ DOMAIN users = {c}
    <2>1. c \in Clients
      BY ConnectedClient
    <2>2. EmptyMap \in PartialFn(Clients, User) /\ DOMAIN EmptyMap = {}
      BY EmptyType
    <2>3. users \in Users
      BY <1>1, <2>1, <2>2, NewUserType, AssignType DEF Users
    <2>4. DOMAIN users = {c}
      BY <1>1, <2>2 DEF Assign
    <2> QED
      BY <2>1, <2>3, <2>4
  <1>6. /\ rooms'[id].users = users /\ \A r \in DOMAIN rooms' \ {id} : r \in DOMAIN rooms /\ rooms'[r] = rooms[r]
    BY <1>3, <1>4 DEF Assign
  <1>7. ClosesOnly(outbox', {}) /\ Reaches(outbox', {c}) /\ AllHear(outbox', users)
    <2>1. DOMAIN users \subseteq {c} /\ DOMAIN users \cap {} = {}
      BY <1>5
    <2> QED
      BY <2>1, <1>3, <1>5, QuietIs, QuietType, NotifyReaches
  <1>8. HearsFirst(outbox', c, rooms'[id].users)
    BY <1>3, <1>5, <1>6, NotifyIsFirst
  <1>9. Kind(c, {})
    <2>1. Opens(c, id)
      BY <1>1, <1>3, <1>4, <1>8 DEF Opens
    <2> QED
      BY <2>1 DEF Kind
  <1>10. Closes
    <2>1. DOMAIN connected \ DOMAIN connected' = {}
      BY <1>3
    <2> QED
      BY <1>7, <2>1 DEF Closes
  <1>11. AnswersFirst(c)
    <2>1. connected'[c] = id /\ id # NoRoom
      BY <1>3 DEF RoomIdsAreNames
    <2> QED
      BY <1>8, <2>1, HeardAnswers DEF AnswersFirst
  <1>12. OthersStay(id) /\ Nearby(c, id, {c})
    BY <1>6, HomelessNearby DEF OthersStay
  <1> QED
    BY <1>6, <1>7, <1>9, <1>10, <1>11, <1>12, Announced

LEMMA SessionsMerge ==
    ASSUME NEW f \in Sessions, NEW g \in Sessions
    PROVE  Merge(f, g) \in Sessions /\ DOMAIN Merge(f, g) = DOMAIN f \cup DOMAIN g
  BY PartialFnIs DEF Merge, Sessions

(* The sessions that join and share open, and what they announce.          *)
LEMMA OpenKind ==
    ASSUME TypeOK, NEW id \in DOMAIN rooms, NEW users \in Users, NEW rms,
           Replaced(rms, id, users), NEW pairs \in SUBSET Session,
           NEW new \in FreshSessions(rms, pairs), rooms' = Open(rms, id, new)
    PROVE  /\ \E room : Extends(id, room, DOMAIN new) /\ room.users = users
           /\ rooms'[id].users = users /\ DOMAIN rooms' = DOMAIN rooms
           /\ \A r \in DOMAIN rooms \ {id} : rooms'[r] = rooms[r]
           /\ new \in Sessions
           /\ \A s \in DOMAIN new : new[s] \in pairs
  <1>1. /\ new \in Sessions /\ DOMAIN new \subseteq SessionIds \ UsedIds(rms)
        /\ Range(new) = pairs
    BY FreshType
  <1>2. /\ IsRoomMap(rms) /\ DOMAIN rms = DOMAIN rooms
        /\ rms[id].users = users /\ rms[id].sessions = rooms[id].sessions
        /\ rms[id].banned = rooms[id].banned
        /\ \A r \in DOMAIN rooms \ {id} : rms[r] = rooms[r]
    BY UsersReplaced
  <1>3. rms[id] \in Room /\ rms[id].sessions \in Sessions
    BY <1>2, RoomMapType, RoomType
  <1>4. /\ Merge(rms[id].sessions, new) \in Sessions
        /\ DOMAIN Merge(rms[id].sessions, new) = DOMAIN rms[id].sessions \cup DOMAIN new
    BY <1>1, <1>3, SessionsMerge
  <1>5. PICK room \in Room : room = [rms[id] EXCEPT !.sessions = Merge(rms[id].sessions, new)]
    <2>1. [rms[id] EXCEPT !.sessions = Merge(rms[id].sessions, new)] \in Room
      BY <1>3, <1>4, RoomType
    <2> QED
      BY <2>1
  <1>6. /\ room.users = users /\ room.banned = rooms[id].banned
        /\ room.sessions = Merge(rms[id].sessions, new)
    BY <1>2, <1>3, <1>5 DEF Room
  <1>7. rooms' = [rms EXCEPT ![id] = room]
    BY <1>5 DEF Open
  <1>8. rooms' = [rooms EXCEPT ![id] = room]
    BY <1>2, <1>7 DEF TypeOK, IsRoomMap
  <1>9. UsedIds(rms) = UsedIds(rooms)
    BY <1>2 DEF UsedIds
  <1>10. Extends(id, room, DOMAIN new)
    BY <1>1, <1>2, <1>4, <1>6, <1>8, <1>9 DEF Extends, Changes
  <1>11. \A s \in DOMAIN new : new[s] \in pairs
    BY <1>1 DEF Range
  <1> QED
    BY <1>1, <1>6, <1>8, <1>10, <1>11

LEMMA AnnounceKeeps ==
    ASSUME NEW out \in Outbox, ClosesOnly(out, {}), NEW D, Reaches(out, D),
           NEW new \in Sessions,
           \A s \in DOMAIN new : new[s].host \in D /\ new[s].client \in D
    PROVE  /\ Announce(out, new) \in Outbox
           /\ ClosesOnly(Announce(out, new), {}) /\ Reaches(Announce(out, new), D)
           /\ \A users \in Users : AllHear(out, users) => AllHear(Announce(out, new), users)
           /\ Prolongs(Announce(out, new), out)
  <1> DEFINE hosts   == HostSessions(new)
             clients == ClientSessions(new)
             half    == Write(out, hosts)
  <1>1. hosts \in Batch /\ clients \in Batch
    BY SessionMessagesType
  <1>2. /\ Lacks(hosts, "closewriter") /\ Lacks(hosts, "room")
        /\ Lacks(clients, "closewriter") /\ Lacks(clients, "room")
    BY Chatter
  <1>3. \A d \in Clients \ D : hosts[d] = {} /\ clients[d] = {}
    BY DEF HostSessions, ClientSessions
  <1> HIDE DEF hosts, clients
  <1>4. half \in Outbox /\ Write(half, clients) \in Outbox
    BY <1>1, WriteType
  <1>5. ClosesOnly(half, {})
    BY <1>1, <1>2, WriteCloses
  <1>6. Reaches(half, D)
    BY <1>3, WriteReaches
  <1> HIDE DEF half
  <1>7. ClosesOnly(Write(half, clients), {})
    BY <1>1, <1>2, <1>4, <1>5, WriteCloses
  <1>8. Reaches(Write(half, clients), D)
    BY <1>3, <1>6, WriteReaches
  <1>9. ASSUME NEW users \in Users, AllHear(out, users)
        PROVE  AllHear(Write(half, clients), users)
    <2>1. AllHear(half, users)
      BY <1>1, <1>2, <1>9, StillLast DEF half
    <2> QED
      BY <1>1, <1>2, <1>4, <2>1, StillLast
  <1>10. Prolongs(Write(half, clients), out)
    <2>1. Prolongs(half, out)
      BY <1>1, WriteProlongs DEF half
    <2>2. Prolongs(Write(half, clients), half)
      BY <1>1, <1>4, WriteProlongs
    <2> QED
      BY <2>1, <2>2, ProlongsOn
  <1>11. Announce(out, new) = Write(half, clients)
    BY DEF Announce, half, hosts, clients
  <1> QED
    BY <1>4, <1>7, <1>8, <1>9, <1>10, <1>11

(* Record equality of rooms, and removing what is not there.               *)
LEMMA SameRoom ==
    ASSUME NEW r \in Room, NEW q \in Room, r.mode = q.mode,
           r.closeOnOwnerLeave = q.closeOnOwnerLeave, r.users = q.users,
           r.sessions = q.sessions, r.banned = q.banned
    PROVE  r = q
  BY DEF Room

LEMMA WithoutNothing ==
    ASSUME NEW X, NEW Y, NEW f \in PartialFn(X, Y), NEW S, DOMAIN f \cap S = {}
    PROVE  Without(f, S) = f
  <1>1. f = [x \in DOMAIN f |-> f[x]]
    BY PartialFnIs
  <1>2. DOMAIN f \ S = DOMAIN f
    OBVIOUS
  <1> QED
    BY <1>1, <1>2 DEF Without, Restrict

(* A join that fails after everyone was told leaves the maps as they were: *)
(* the client that comes in last is neither owner nor end of a session.    *)
Entered(c, old, users) == users = Assign(old, c, NewUser(FALSE))

LEMMA JoinUndone ==
    ASSUME TypeOK, Safe, NEW id \in DOMAIN rooms, NEW c \in Clients,
           c \notin DOMAIN rooms[id].users, NEW users \in Users,
           Entered(c, rooms[id].users, users),
           NEW rms, Replaced(rms, id, users), Leaves(c, id, rms, Count(gauge, 0, 1, 0))
    PROVE  rooms' = rooms /\ gauge' = gauge
  <1> DEFINE old      == rooms[id].users
             sessions == rooms[id].sessions
  <1>1. /\ rooms[id] \in Room /\ old \in Users /\ sessions \in Sessions
        /\ DOMAIN old # {} /\ Range(sessions) = Views(old)
    BY UsersConnected, RoomType DEF Safe, SafeMaps, HasOneOwner
  <1>2. /\ DOMAIN rms = DOMAIN rooms /\ rms[id].users = users
        /\ rms[id].sessions = sessions /\ rms[id].mode = rooms[id].mode
        /\ rms[id].banned = rooms[id].banned
        /\ rms[id].closeOnOwnerLeave = rooms[id].closeOnOwnerLeave
        /\ \A r \in DOMAIN rooms \ {id} : rms[r] = rooms[r]
        /\ IsRoomMap(rms)
    BY UsersReplaced
  <1>3. Involving(rms[id], c) = {}
    <2> SUFFICES ASSUME NEW s \in DOMAIN sessions
                 PROVE  c \notin {sessions[s].host, sessions[s].client}
      BY <1>2 DEF Involving
    <2>1. sessions[s] \in Views(old)
      BY <1>1 DEF Range
    <2> QED
      BY <2>1 DEF Views, Presenters
  <1>4. Successions(users, c) = {old}
    <2>1. /\ DOMAIN users = DOMAIN old \cup {c} /\ users[c] = NewUser(FALSE)
          /\ \A u \in DOMAIN old : users[u] = old[u]
      BY DEF Entered, Assign
    <2>2. DOMAIN users \ {c} = DOMAIN old /\ ~users[c].Owner
      BY <2>1 DEF NewUser
    <2>3. Without(users, {c}) = [u \in DOMAIN old |-> old[u]]
      BY <2>1, <2>2 DEF Without, Restrict
    <2>4. old = [u \in DOMAIN old |-> old[u]]
      BY <1>1, PartialFnIs DEF Users
    <2> QED
      BY <2>2, <2>3, <2>4 DEF Successions
  <1>5. DOMAIN rms[id].users # {c}
    BY <1>1, <1>2 DEF Entered, Assign
  <1>6. OneLeaves(c, id, rms, Count(gauge, 0, 1, 0))
    BY <1>5 DEF Leaves, LastLeaves
  <1>7. PICK room \in Room :
          /\ rooms' = [rms EXCEPT ![id] = room]
          /\ room.users \in Successions(rms[id].users, c)
          /\ room.sessions = Without(rms[id].sessions, Involving(rms[id], c))
          /\ room.banned = rms[id].banned /\ room.mode = rms[id].mode
          /\ room.closeOnOwnerLeave = rms[id].closeOnOwnerLeave
    BY <1>6 DEF OneLeaves
  <1>8. Without(sessions, {}) = sessions
    BY <1>1, WithoutNothing DEF Sessions
  <1>9. room.users = old /\ room.sessions = sessions
    BY <1>2, <1>3, <1>4, <1>7, <1>8
  <1>10. room = rooms[id]
    BY <1>1, <1>2, <1>7, <1>9, SameRoom
  <1>11. rooms' = rooms
    BY <1>2, <1>7, <1>10 DEF TypeOK, IsRoomMap
  <1>12. gauge' = gauge
    <2>1. gauge' = Count(Count(gauge, 0, 1, 0), 0, -1, -Cardinality({}))
      BY <1>3, <1>6 DEF OneLeaves
    <2>2. Cardinality({}) = 0
      BY FS_EmptySet
    <2>3. gauge' = Count(Count(gauge, 0, 1, 0), 0, -1, -0)
      BY <2>1, <2>2
    <2>4. gauge \in Gauge
      BY DEF TypeOK
    <2> QED
      BY <2>3, <2>4 DEF Count, Gauge
  <1> QED
    BY <1>11, <1>12

LEMMA JoinStep ==
    ASSUME RoomIdsAreNames, TypeOK, Safe, NEW c \in DOMAIN connected, NEW id \in RoomIds,
           Join(c, id)
    PROVE  Orderly(c, {})
  <1>1. CASE Refuse(c)
    BY <1>1, RefuseStep
  <1>2. CASE JoinRoom(c, id)
    <2> DEFINE D == DOMAIN rooms[id].users \cup {c}
    <2>1. /\ id \in DOMAIN rooms /\ id # NoRoom /\ connected[c] = NoRoom /\ c \in Clients
          /\ ~Banned(c, id)
      BY <1>2, ConnectedClient DEF JoinRoom, JoinRefused, RoomIdsAreNames
    <2>2. /\ rooms[id].users \in Users /\ c \notin DOMAIN rooms[id].users
          /\ Nearby(c, id, D)
      BY <2>1, UsersConnected, HomelessNearby
    <2>3. PICK users : users = Assign(rooms[id].users, c, NewUser(FALSE))
      OBVIOUS
    <2>4. PICK conn : conn = [connected EXCEPT ![c] = id]
      OBVIOUS
    <2>5. PICK rms : rms = [rooms EXCEPT ![id].users = users]
      OBVIOUS
    <2>6. PICK pairs : pairs = {[host |-> p, client |-> c] : p \in Presenters(users) \ {c}}
      OBVIOUS
    <2>7. PICK out : out = Write(Quiet, notifyInfoChanged(users))
      OBVIOUS
    <2>8. /\ users \in Users /\ DOMAIN users = DOMAIN rooms[id].users \cup {c}
          /\ pairs \in SUBSET Session
      <3>1. HasOneOwner(rooms[id].users) /\ AtMostOnePresenter(rooms[id].users)
        BY <2>1 DEF Safe, SafeMaps
      <3>2. Enters(c, rooms[id].users, users, pairs)
        BY <2>2, <2>3, <2>6, <3>1 DEF Enters
      <3>3. SafeEntry(c, rooms[id].users, users, pairs)
        BY <3>2, <2>1, <2>2, EntrySafe
      <3> QED
        BY <3>3 DEF SafeEntry
    <2>9. DOMAIN users \subseteq D /\ DOMAIN users \cap {} = {}
      BY <2>2, <2>8
    <2>10. /\ out \in Outbox /\ ClosesOnly(out, {}) /\ Reaches(out, D) /\ AllHear(out, users)
      BY <2>7, <2>8, <2>9, QuietIs, QuietType, NotifyReaches
    <2>11. HearsFirst(out, c, users)
      BY <2>7, <2>8, NotifyIsFirst
    <2>12. Replaced(rms, id, users)
      BY <2>5 DEF Replaced
    <2>13. /\ IsRoomMap(rms) /\ DOMAIN rms = DOMAIN rooms /\ rms[id].users = users
           /\ \A r \in DOMAIN rooms \ {id} : rms[r] = rooms[r]
      BY <2>1, <2>8, <2>12, UsersReplaced
    <2>14. CASE executeNoError(c, "error", conn, rms, lookup, out, Count(gauge, 0, 1, 0))
      <3> DEFINE bye == Write(out, To(c, CloseWriter("error")))
                 g   == Count(gauge, 0, 1, 0)
      <3>1. conn[c] = id /\ c \in DOMAIN users
        BY <2>4, <2>8
      <3>2. /\ connected' = Without(conn, {c})
            /\ LeaveRoom(c, id, rms, lookup, bye, g)
        BY <2>1, <2>13, <2>14, <3>1 DEF executeNoError
      <3>3. bye \in Outbox /\ ClosesOnly(bye, {c}) /\ Reaches(bye, D) /\ Prolongs(bye, out)
        BY <2>1, <2>10, ByeCloses DEF Reasons
      <3> HIDE DEF bye, g
      <3>4. /\ Leaves(c, id, rms, g)
            /\ ClosesOnly(outbox', {c}) /\ Reaches(outbox', D) /\ Prolongs(outbox', bye)
            /\ \A r \in DOMAIN rooms' \cap {id} : AllHear(outbox', rooms'[r].users)
            /\ \A r \in DOMAIN rooms' \ {id} : r \in DOMAIN rms /\ rooms'[r] = rms[r]
        <4>1. DOMAIN rms[id].users \subseteq D
          BY <2>9, <2>13
        <4> HIDE DEF D
        <4> QED
          BY <2>1, <2>13, <3>1, <3>2, <3>3, <4>1, LeaveRoomKind
      <3>5. rooms' = rooms /\ gauge' = gauge
        BY <2>1, <2>2, <2>3, <2>8, <2>12, <3>4, JoinUndone DEF g, Entered
      <3>6. connected' = Without(connected, {c})
        BY <2>4, <3>2 DEF Without, Restrict
      <3>7. DOMAIN connected \ DOMAIN connected' = {c}
        <4>1. DOMAIN connected' = DOMAIN connected \ {c}
          BY <3>6, GoneIs
        <4> QED
          BY <4>1
      <3>8. Kind(c, {})
        BY <2>1, <3>5, <3>6 DEF HangsUp, Kind
      <3>9. Closes /\ OthersStay(id)
        BY <3>4, <3>5, <3>7 DEF Closes, OthersStay
      <3>10. AnswersFirst(c)
        <4>1. HearsFirst(outbox', c, users)
          BY <2>1, <2>11, <3>3, <3>4, ProlongsOn, StillFirst
        <4> QED
          BY <3>7, <4>1, HeardAnswers DEF AnswersFirst
      <3> QED
        BY <2>2, <3>4, <3>8, <3>9, <3>10, Announced
    <2>15. ASSUME NEW new \in FreshSessions(rms, pairs), connected' = conn,
                  rooms' = Open(rms, id, new), outbox' = Announce(out, new),
                  gauge' = Count(gauge, 0, 1, Cardinality(DOMAIN new))
           PROVE  Orderly(c, {})
      <3>1. /\ \E room : Extends(id, room, DOMAIN new) /\ room.users = users
            /\ rooms'[id].users = users /\ DOMAIN rooms' = DOMAIN rooms
            /\ \A r \in DOMAIN rooms \ {id} : rooms'[r] = rooms[r]
            /\ new \in Sessions
            /\ \A s \in DOMAIN new : new[s] \in pairs
        BY <2>1, <2>8, <2>12, <2>15, OpenKind
      <3>2. \A s \in DOMAIN new : new[s].host \in D /\ new[s].client \in D
        <4>1. \A p \in pairs : p.host \in D /\ p.client \in D
          BY <2>6, <2>9 DEF Presenters
        <4> QED
          BY <3>1, <4>1
      <3>3. /\ ClosesOnly(outbox', {}) /\ Reaches(outbox', D)
            /\ AllHear(outbox', users) /\ Prolongs(outbox', out)
        BY <2>8, <2>10, <2>15, <3>1, <3>2, AnnounceKeeps
      <3>7. HearsFirst(outbox', c, users)
        BY <2>1, <2>11, <3>3, StillFirst
      <3>4. Kind(c, {})
        <4>1. Joins(c, id)
          BY <2>1, <2>3, <2>4, <2>15, <3>1, <3>7 DEF Joins
        <4> QED
          BY <4>1 DEF Kind
      <3>5. Closes
        <4>1. DOMAIN connected \ DOMAIN connected' = {}
          BY <2>4, <2>15
        <4> QED
          BY <3>3, <4>1 DEF Closes
      <3>6. AnswersFirst(c) /\ OthersStay(id)
        <4>1. connected'[c] # NoRoom
          BY <2>1, <2>4, <2>15
        <4> QED
          BY <2>1, <3>1, <3>7, <4>1, HeardAnswers DEF AnswersFirst, OthersStay
      <3> QED
        BY <2>2, <3>1, <3>3, <3>4, <3>5, <3>6, Announced
    <2> QED
      BY <1>2, <2>3, <2>4, <2>5, <2>6, <2>7, <2>14, <2>15 DEF JoinRoom
  <1> QED
    BY <1>1, <1>2 DEF Join

LEMMA CreateStep ==
    ASSUME RoomIdsAreNames, TypeOK, Safe, NEW c \in DOMAIN connected, NEW id \in RoomIds,
           NEW mode, NEW leave, NEW join, Create(c, id, mode, leave, join)
    PROVE  Orderly(c, {})
  <1>1. CASE Refuse(c)
    BY <1>1, RefuseStep
  <1>2. CASE Join(c, id)
    BY <1>2, JoinStep
  <1>3. CASE connected[c] = NoRoom /\ id \notin DOMAIN rooms /\ OpenRoom(c, id, mode, leave)
    BY <1>3, OpenRoomStep
  <1> QED
    BY <1>1, <1>2, <1>3 DEF Create

(* A share that fails half way makes its client leave as it would have     *)
(* left before: it takes the mark of its stream with it.                   *)
Started(c, old, users) ==
    /\ c \in DOMAIN old /\ users = [old EXCEPT ![c].Streaming = TRUE]

LEMMA ShareUndone ==
    ASSUME TypeOK, Safe, NEW id \in DOMAIN rooms, NEW c \in DOMAIN rooms[id].users,
           NEW users \in Users, Started(c, rooms[id].users, users),
           NEW rms, Replaced(rms, id, users), Leaves(c, id, rms, gauge)
    PROVE  Leaves(c, id, rooms, gauge)
  <1> DEFINE old == rooms[id].users
  <1>1. /\ DOMAIN rms = DOMAIN rooms /\ rms[id].users = users
        /\ rms[id].sessions = rooms[id].sessions /\ rms[id].mode = rooms[id].mode
        /\ rms[id].banned = rooms[id].banned
        /\ rms[id].closeOnOwnerLeave = rooms[id].closeOnOwnerLeave
        /\ \A r \in DOMAIN rooms \ {id} : rms[r] = rooms[r]
        /\ IsRoomMap(rms)
    BY UsersReplaced
  <1>2. old \in Users /\ old[c] \in User
    BY UsersConnected, PartialFnIs DEF Users
  <1>3. /\ DOMAIN users = DOMAIN old /\ users[c].Owner = old[c].Owner
        /\ \A u \in DOMAIN old \ {c} : users[u] = old[u]
    BY <1>2 DEF Started, User
  <1>4. Without(users, {c}) = Without(old, {c})
    BY <1>3 DEF Without, Restrict
  <1>5. Successions(users, c) = Successions(old, c)
    BY <1>3, <1>4 DEF Successions
  <1>6. Involving(rms[id], c) = Involving(rooms[id], c)
    BY <1>1 DEF Involving
  <1>7. ASSUME LastLeaves(c, id, rms, gauge)
        PROVE  LastLeaves(c, id, rooms, gauge)
    <2>1. Without(rms, {id}) = Without(rooms, {id})
      BY <1>1 DEF Without, Restrict
    <2> QED
      BY <1>1, <1>3, <1>7, <2>1 DEF LastLeaves
  <1>8. ASSUME OneLeaves(c, id, rms, gauge)
        PROVE  OneLeaves(c, id, rooms, gauge)
    <2>1. PICK room \in Room :
            /\ rooms' = [rms EXCEPT ![id] = room]
            /\ room.users \in Successions(rms[id].users, c)
            /\ room.sessions = Without(rms[id].sessions, Involving(rms[id], c))
            /\ room.banned = rms[id].banned /\ room.mode = rms[id].mode
            /\ room.closeOnOwnerLeave = rms[id].closeOnOwnerLeave
      BY <1>8 DEF OneLeaves
    <2>2. [rms EXCEPT ![id] = room] = [rooms EXCEPT ![id] = room]
      BY <1>1 DEF IsRoomMap, TypeOK
    <2>3. /\ rooms' = [rooms EXCEPT ![id] = room]
          /\ room.users \in Successions(old, c)
          /\ room.sessions = Without(rooms[id].sessions, Involving(rooms[id], c))
          /\ room.banned = rooms[id].banned /\ room.mode = rooms[id].mode
          /\ room.closeOnOwnerLeave = rooms[id].closeOnOwnerLeave
      BY <1>1, <1>5, <1>6, <2>1, <2>2
    <2>4. /\ DOMAIN old # {c}
          /\ gauge' = Count(gauge, 0, -1, -Cardinality(Involving(rooms[id], c)))
      BY <1>1, <1>3, <1>6, <1>8 DEF OneLeaves
    <2> QED
      BY <2>3, <2>4 DEF OneLeaves
  <1> QED
    BY <1>7, <1>8 DEF Leaves

LEMMA ShareStep ==
    ASSUME TypeOK, Safe, NEW c \in DOMAIN connected, HasRoom(c),
           ~ShareDenied(c, CurrentRoom(c).users), Share(c, connected[c])
    PROVE  Orderly(c, {c})
  <1>1. PICK id : id = connected[c]
    OBVIOUS
  <1> DEFINE D == DOMAIN rooms[id].users
  <1>2. /\ id \in DOMAIN rooms /\ c \in DOMAIN rooms[id].users /\ c \in Clients
        /\ id \in RoomIds /\ rooms[id].users \in Users /\ Nearby(c, id, D)
        /\ HasOneOwner(rooms[id].users) /\ CurrentRoom(c) = rooms[id]
    <2>1. /\ id \in DOMAIN rooms /\ c \in DOMAIN rooms[id].users
          /\ HasOneOwner(rooms[id].users) /\ CurrentRoom(c) = rooms[id]
      BY <1>1, InCurrentRoom
    <2> QED
      BY <2>1, UsersConnected, ConnectedClient, UsersNearby
  <1>13. AnswersFirst(c)
    BY DEF AnswersFirst, HasRoom
  <1>3. rooms[id].users[c].CanShare /\ Presenters(rooms[id].users) \ {c} = {}
    BY <1>2 DEF ShareDenied
  <1>4. PICK users : users = [rooms[id].users EXCEPT ![c].Streaming = TRUE]
    OBVIOUS
  <1>5. PICK rms : rms = [rooms EXCEPT ![id].users = users]
    OBVIOUS
  <1>6. PICK pairs : pairs = {[host |-> c, client |-> p] : p \in DOMAIN users \ {c}}
    OBVIOUS
  <1>7. /\ users \in Users /\ DOMAIN users = DOMAIN rooms[id].users
        /\ pairs \in SUBSET Session
    <2>1. Presents(c, rooms[id].users, users, pairs)
      BY <1>2, <1>3, <1>4, <1>6 DEF Presents
    <2>2. SafeStart(c, rooms[id].users, users, pairs)
      BY <2>1, <1>2, StartSafe
    <2> QED
      BY <2>2 DEF SafeStart
  <1>8. Replaced(rms, id, users) /\ Started(c, rooms[id].users, users)
    BY <1>2, <1>4, <1>5 DEF Replaced, Started
  <1>9. /\ IsRoomMap(rms) /\ DOMAIN rms = DOMAIN rooms /\ rms[id].users = users
        /\ \A r \in DOMAIN rooms \ {id} : rms[r] = rooms[r]
    BY <1>2, <1>7, <1>8, UsersReplaced
  <1>10. DOMAIN users \subseteq D /\ DOMAIN users \cap {} = {}
    BY <1>2, <1>7
  <1>11. CASE executeNoError(c, "error", connected, rms, lookup, Quiet, gauge)
    <2> DEFINE bye == Write(Quiet, To(c, CloseWriter("error")))
    <2>1. id # NoRoom /\ c \in DOMAIN users
      BY <1>1, <1>2, <1>7 DEF HasRoom
    <2>2. connected' = Without(connected, {c}) /\ LeaveRoom(c, id, rms, lookup, bye, gauge)
      BY <1>1, <1>2, <1>9, <1>11, <2>1 DEF executeNoError
    <2>3. bye \in Outbox /\ ClosesOnly(bye, {c}) /\ Reaches(bye, D)
      BY <1>2, QuietIs, QuietType, ByeCloses DEF Reasons
    <2> HIDE DEF bye
    <2>4. /\ Leaves(c, id, rms, gauge)
          /\ ClosesOnly(outbox', {c}) /\ Reaches(outbox', D)
          /\ \A r \in DOMAIN rooms' \cap {id} : AllHear(outbox', rooms'[r].users)
          /\ \A r \in DOMAIN rooms' \ {id} : r \in DOMAIN rms /\ rooms'[r] = rms[r]
      <3>1. DOMAIN rms[id].users \subseteq D
        BY <1>9, <1>10
      <3> HIDE DEF D
      <3> QED
        BY <1>2, <1>9, <2>1, <2>2, <2>3, <3>1, LeaveRoomKind
    <2>5. Leaves(c, id, rooms, gauge)
      BY <1>2, <1>7, <1>8, <2>4, ShareUndone
    <2>6. Kind(c, {c})
      BY <1>1, <1>2, <2>2, <2>5 DEF Departs, Kind
    <2>7. Closes /\ OthersStay(id)
      <3>1. DOMAIN connected' = DOMAIN connected \ {c}
        BY <2>2, GoneIs
      <3>2. DOMAIN connected \ DOMAIN connected' = {c}
        BY <3>1
      <3> QED
        BY <1>9, <2>4, <3>2 DEF Closes, OthersStay
    <2> QED
      BY <1>2, <1>13, <2>4, <2>6, <2>7, Announced
  <1>12. ASSUME NEW new \in FreshSessions(rms, pairs), connected' = connected,
                rooms' = Open(rms, id, new),
                outbox' = Write(Announce(Quiet, new), notifyInfoChanged(users)),
                gauge' = Count(gauge, 0, 0, Cardinality(DOMAIN new))
         PROVE  Orderly(c, {c})
    <2>1. /\ \E room : Extends(id, room, DOMAIN new) /\ room.users = users
          /\ rooms'[id].users = users /\ DOMAIN rooms' = DOMAIN rooms
          /\ \A r \in DOMAIN rooms \ {id} : rooms'[r] = rooms[r]
          /\ new \in Sessions
          /\ \A s \in DOMAIN new : new[s] \in pairs
      BY <1>2, <1>7, <1>8, <1>12, OpenKind
    <2>2. \A s \in DOMAIN new : new[s].host \in D /\ new[s].client \in D
      <3>1. \A p \in pairs : p.host \in D /\ p.client \in D
        BY <1>2, <1>6, <1>7
      <3> QED
        BY <2>1, <3>1
    <2>3. PICK out : out = Announce(Quiet, new)
      OBVIOUS
    <2>4. out \in Outbox /\ ClosesOnly(out, {}) /\ Reaches(out, D)
      BY <2>1, <2>2, <2>3, QuietIs, QuietType, AnnounceKeeps
    <2>5. outbox' = Write(out, notifyInfoChanged(users))
      BY <1>12, <2>3
    <2>6. ClosesOnly(outbox', {}) /\ Reaches(outbox', D) /\ AllHear(outbox', users)
      BY <1>7, <1>10, <2>4, <2>5, NotifyReaches
    <2>7. Kind(c, {c})
      <3>1. ~ShareDenied(c, rooms[id].users)
        BY <1>2
      <3>2. Starts(c, id)
        BY <1>1, <1>4, <1>12, <2>1, <3>1 DEF Starts
      <3> QED
        BY <1>2, <3>2 DEF Kind
    <2>8. Closes
      <3>1. DOMAIN connected \ DOMAIN connected' = {}
        BY <1>12
      <3> QED
        BY <2>6, <3>1 DEF Closes
    <2>9. OthersStay(id)
      BY <1>2, <2>1 DEF OthersStay
    <2> QED
      BY <1>2, <1>13, <2>1, <2>6, <2>7, <2>8, <2>9, Announced
  <1> QED
    BY <1>1, <1>4, <1>5, <1>6, <1>11, <1>12 DEF Share

LEMMA StartShareStep ==
    ASSUME TypeOK, Safe, NEW c \in DOMAIN connected, StartShare(c)
    PROVE  Orderly(c, {c})
  <1>1. CASE Refuse(c)
    BY <1>1, RefuseStep
  <1>2. CASE HasRoom(c) /\ ~ShareDenied(c, CurrentRoom(c).users) /\ Share(c, connected[c])
    BY <1>2, ShareStep
  <1> QED
    BY <1>1, <1>2 DEF StartShare
-----------------------------------------------------------------------------
(* The main loop does nothing else.                                        *)
LEMMA MoreKinds ==
    ASSUME NEW c, Orderly(c, {})
    PROVE  Orderly(c, {c})
  BY DEF Orderly, Kind

(* What a client may ask for besides sharing its screen.                   *)
Chore(c) ==
    \/ \E id \in RoomIds, mode \in Modes, leave \in OwnerLeaveChoices, join \in BOOLEAN :
          Create(c, id, mode, leave, join)
    \/ \E id \in RoomIds : Join(c, id)
    \/ Name(c) \/ StopShare(c)
    \/ \E s \in SessionIds : HostRelay(c, s) \/ ClientRelay(c, s)
    \/ EnableAll(c) \/ DisableAll(c) \/ Dissolve(c)
    \/ \E target \in Clients :
          \/ OwnerStopShare(c, target) \/ ToggleSharePermission(c, target)
          \/ Kick(c, target) \/ Ban(c, target)
    \/ Unknown(c) \/ Exit(c) \/ Disconnected(c)

LEMMA ExecuteIs ==
    ASSUME NEW c
    PROVE  Execute(c) <=> StartShare(c) \/ Chore(c)
  BY DEF Execute, Chore

LEMMA ChoreStep ==
    ASSUME RoomIdsAreNames, TypeOK, Safe, NEW c \in DOMAIN connected, Chore(c)
    PROVE  Orderly(c, {})
  <1>1. CASE \E id \in RoomIds, mode \in Modes, leave \in OwnerLeaveChoices, join \in BOOLEAN :
                Create(c, id, mode, leave, join)
    BY <1>1, CreateStep
  <1>2. CASE \E id \in RoomIds : Join(c, id)
    BY <1>2, JoinStep
  <1>3. CASE Name(c) \/ StopShare(c)
    BY <1>3, NameStep, StopShareStep
  <1>4. CASE \E s \in SessionIds : HostRelay(c, s) \/ ClientRelay(c, s)
    BY <1>4, RelayStep
  <1>5. CASE EnableAll(c) \/ DisableAll(c)
    BY <1>5, EnableAllQuiets, DisableAllQuiets, QuietsStep
  <1>6. CASE \E target \in Clients : ToggleSharePermission(c, target)
    BY <1>6, ToggleQuiets, QuietsStep
  <1>7. CASE \E target \in Clients : OwnerStopShare(c, target)
    BY <1>7, OwnerStopShareStep
  <1>8. CASE \E target \in Clients : Kick(c, target) \/ Ban(c, target)
    BY <1>8, KickStep
  <1>9. CASE Dissolve(c)
    BY <1>9, DissolveStep
  <1>10. CASE Unknown(c) \/ Exit(c) \/ Disconnected(c)
    BY <1>10, LeaveStep DEF Unknown, Refuse, Exit, Disconnected, Reasons
  <1> QED
    BY <1>1, <1>2, <1>3, <1>4, <1>5, <1>6, <1>7, <1>8, <1>9, <1>10 DEF Chore

LEMMA ExecuteStep ==
    ASSUME RoomIdsAreNames, TypeOK, Safe, NEW c \in DOMAIN connected, Execute(c)
    PROVE  Orderly(c, {c})
  BY ExecuteIs, ChoreStep, StartShareStep, MoreKinds

LEMMA StepKinds ==
    ASSUME RoomIdsAreNames, TypeOK, Safe, Next
    PROVE  \E c \in Clients : Orderly(c, {c})
  <1>1. ASSUME NEW c \in Clients, Connected(c) PROVE Orderly(c, {c})
    BY <1>1, ConnectedStep, MoreKinds
  <1>2. ASSUME NEW c \in DOMAIN connected, Execute(c) PROVE Orderly(c, {c})
    BY <1>2, ExecuteStep
  <1> QED
    BY <1>1, <1>2, ConnectedClient DEF Next
-----------------------------------------------------------------------------
(* What a step may not do *)

OwnersStay(r) ==
    \A c \in DOMAIN rooms[r].users \cap DOMAIN rooms'[r].users :
        rooms[r].users[c].Owner => rooms'[r].users[c].Owner
BansStay(r) ==
    /\ rooms[r].banned \subseteq rooms'[r].banned
    /\ \A c \in DOMAIN rooms'[r].users \ DOMAIN rooms[r].users :
          Addr[c] \notin rooms'[r].banned

(* Whoever takes over, no other user of the room loses or gains a flag.    *)
LEMMA SuccessionKeeps ==
    ASSUME NEW users \in Users, NEW c \in DOMAIN users, NEW heirs \in Successions(users, c)
    PROVE  /\ DOMAIN heirs = DOMAIN users \ {c}
           /\ \A u \in DOMAIN heirs : /\ users[u].Owner => heirs[u].Owner
                                      /\ heirs[u].Streaming = users[u].Streaming
  <1> DEFINE rest == Without(users, {c})
  <1>1. /\ DOMAIN rest = DOMAIN users \ {c}
        /\ \A u \in DOMAIN rest : rest[u] = users[u]
    BY GoneIs
  <1>2. CASE users[c].Owner
    <2>1. PICK next \in DOMAIN rest : heirs = [rest EXCEPT ![next].Owner = TRUE]
      BY <1>2 DEF Successions
    <2>2. rest[next] \in User
      BY <1>1, PartialFnIs DEF Users
    <2>3. PICK heir : heir = [rest[next] EXCEPT !.Owner = TRUE]
      OBVIOUS
    <2>4. heir.Owner /\ heir.Streaming = rest[next].Streaming
      BY <2>2, <2>3 DEF User
    <2> HIDE DEF rest
    <2>5. heirs = [rest EXCEPT ![next] = heir]
      BY <2>1, <2>3
    <2> QED
      BY <1>1, <2>4, <2>5
  <1>3. CASE ~users[c].Owner
    <2>1. heirs = rest
      BY <1>3 DEF Successions
    <2> QED
      BY <1>1, <2>1
  <1> QED
    BY <1>2, <1>3

LEMMA RoomStays ==
    ASSUME RoomIdsAreNames, TypeOK, Safe, NEW a \in Clients, NEW S, Kind(a, S),
           NEW r \in DOMAIN rooms \cap DOMAIN rooms'
    PROVE  OwnersStay(r) /\ BansStay(r)
  <1> DEFINE old == rooms[r].users
  <1>1. rooms[r] \in Room /\ old \in Users /\ \A u \in DOMAIN old : old[u] \in User
    BY UsersConnected, PartialFnIs DEF Users
  <1>2. CASE rooms'[r] = rooms[r]
    BY <1>2 DEF OwnersStay, BansStay
  <1>3. ASSUME NEW c, Departs(c, r) PROVE OwnersStay(r) /\ BansStay(r)
    <2>1. ~LastLeaves(c, r, rooms, gauge)
      BY DEF LastLeaves, Without, Restrict
    <2>2. PICK room \in Room : /\ rooms' = [rooms EXCEPT ![r] = room]
                               /\ room.users \in Successions(old, c)
                               /\ room.banned = rooms[r].banned
      BY <1>3, <2>1 DEF Departs, Leaves, OneLeaves
    <2>3. rooms'[r] = room
      BY <2>2
    <2>4. /\ DOMAIN room.users = DOMAIN old \ {c}
          /\ \A u \in DOMAIN room.users : old[u].Owner => room.users[u].Owner
      BY <1>1, <1>3, <2>2, SuccessionKeeps DEF Departs
    <2> QED
      BY <2>2, <2>3, <2>4 DEF OwnersStay, BansStay
  <1>4. ASSUME NEW c, Joins(c, r) PROVE OwnersStay(r) /\ BansStay(r)
    <2>1. PICK room, new : Extends(r, room, new) /\ room.users = Assign(old, c, NewUser(FALSE))
      BY <1>4 DEF Joins
    <2>2. rooms'[r] = room /\ room.banned = rooms[r].banned
      BY <2>1 DEF Extends, Changes
    <2>3. c \notin DOMAIN old
      BY <1>4, UsersConnected DEF Joins, RoomIdsAreNames
    <2>4. DOMAIN room.users = DOMAIN old \cup {c} /\ \A u \in DOMAIN old : room.users[u] = old[u]
      BY <2>1, <2>3 DEF Assign
    <2>5. Addr[c] \notin rooms[r].banned
      BY <1>4 DEF Joins, Banned
    <2> QED
      BY <2>2, <2>3, <2>4, <2>5 DEF OwnersStay, BansStay
  <1>5. ASSUME NEW c, Starts(c, r) PROVE OwnersStay(r) /\ BansStay(r)
    <2>1. PICK room, new : Extends(r, room, new)
                             /\ room.users = [old EXCEPT ![c].Streaming = TRUE]
      BY <1>5 DEF Starts
    <2>2. rooms'[r] = room /\ room.banned = rooms[r].banned
      BY <2>1 DEF Extends, Changes
    <2>3. /\ DOMAIN room.users = DOMAIN old
          /\ \A u \in DOMAIN old : room.users[u].Owner = old[u].Owner
      BY <1>1, <2>1 DEF User
    <2> QED
      BY <2>2, <2>3 DEF OwnersStay, BansStay
  <1>6. CASE Resets(r)
    <2>1. PICK room, ended : /\ Shrinks(r, room, {}, ended)
                             /\ DOMAIN room.users = DOMAIN old
                             /\ \A u \in DOMAIN room.users : room.users[u].Owner = old[u].Owner
      BY <1>6 DEF Resets
    <2>2. rooms'[r] = room /\ rooms[r].banned \subseteq room.banned
      BY <2>1 DEF Shrinks, Changes
    <2> QED
      BY <2>1, <2>2 DEF OwnersStay, BansStay
  <1>7. ASSUME NEW o, NEW c, Expels(o, c, r) PROVE OwnersStay(r) /\ BansStay(r)
    <2>1. PICK room : /\ Shrinks(r, room, {c}, Involving(rooms[r], c))
                      /\ room.users = Without(old, {c})
      BY <1>7 DEF Expels
    <2>2. rooms'[r] = room /\ rooms[r].banned \subseteq room.banned
      BY <2>1 DEF Shrinks, Changes
    <2>3. /\ DOMAIN room.users = DOMAIN old \ {c}
          /\ \A u \in DOMAIN room.users : room.users[u] = old[u]
      <3>1. /\ DOMAIN Without(old, {c}) = DOMAIN old \ {c}
            /\ \A u \in DOMAIN Without(old, {c}) : Without(old, {c})[u] = old[u]
        BY GoneIs
      <3> QED
        BY <2>1, <3>1
    <2> QED
      BY <2>2, <2>3 DEF OwnersStay, BansStay
  <1>8. ASSUME NEW c, NEW id, id # r \/ Opens(c, id) \/ Dissolves(c, id),
               Departs(c, id) \/ Opens(c, id) \/ Joins(c, id) \/ Starts(c, id)
                  \/ Dissolves(c, id)
        PROVE  rooms'[r] = rooms[r]
    BY <1>8 DEF Departs, Leaves, LastLeaves, OneLeaves, Opens, Joins, Starts, Dissolves,
                Extends, Changes, Without, Restrict, Assign
  <1>9. ASSUME NEW o, NEW c, NEW id, id # r, Resets(id) \/ Expels(o, c, id)
        PROVE  rooms'[r] = rooms[r]
    BY <1>9 DEF Resets, Expels, Shrinks, Changes
  <1>10. CASE \/ Idles \/ \E c \in Clients : Arrives(c) \/ HangsUp(c)
    BY <1>2, <1>10 DEF Idles, Arrives, HangsUp
  <1>11. CASE \E c \in Clients, id \in RoomIds :
                  \/ Departs(c, id) \/ Opens(c, id) \/ Joins(c, id)
                  \/ Starts(c, id) \/ Dissolves(c, id)
    BY <1>2, <1>3, <1>4, <1>5, <1>8, <1>11
  <1>12. CASE \/ \E id \in RoomIds : Resets(id)
              \/ \E o, c \in Clients, id \in RoomIds : Expels(o, c, id)
    BY <1>2, <1>6, <1>7, <1>9, <1>12
  <1> QED
    BY <1>10, <1>11, <1>12 DEF Kind

(* A client that is in no room and then is in one opened it or joined it.  *)
LEMMA EntryIsHeard ==
    ASSUME NEW a \in Clients, NEW S, Kind(a, S),
           NEW c \in DOMAIN connected \cap DOMAIN connected',
           connected[c] = NoRoom, connected'[c] # NoRoom
    PROVE  HearsFirst(outbox', c, rooms'[connected'[c]].users)
  <1>1. ASSUME NEW d, NEW id, Opens(d, id) \/ Joins(d, id)
        PROVE  HearsFirst(outbox', c, rooms'[connected'[c]].users)
    <2>1. /\ connected' = [connected EXCEPT ![d] = id]
          /\ HearsFirst(outbox', d, rooms'[id].users)
      BY <1>1 DEF Opens, Joins
    <2>2. d = c /\ connected'[d] = id
      BY <2>1
    <2> QED
      BY <2>1, <2>2
  <1>2. ASSUME NEW T, connected' = Without(connected, T)
        PROVE  FALSE
    <2>1. PICK rest : rest = Without(connected, T)
      OBVIOUS
    <2>2. \A d \in DOMAIN rest : rest[d] = connected[d]
      BY <2>1 DEF Without, Restrict
    <2> QED
      BY <1>2, <2>1, <2>2
  <1>3. ASSUME NEW d, connected' = Assign(connected, d, NoRoom)
        PROVE  FALSE
    BY <1>3 DEF Assign
  <1>4. connected' # connected
    OBVIOUS
  <1>5. ASSUME NEW d, NEW id,
               Arrives(d) \/ HangsUp(d) \/ Departs(d, id) \/ Starts(d, id) \/ Dissolves(d, id)
        PROVE  FALSE
    BY <1>2, <1>3, <1>4, <1>5 DEF Arrives, HangsUp, Departs, Starts, Dissolves
  <1>6. ASSUME NEW o, NEW d, NEW id, Idles \/ Resets(id) \/ Expels(o, d, id)
        PROVE  FALSE
    BY <1>2, <1>4, <1>6 DEF Idles, Resets, Expels
  <1> QED
    BY <1>1, <1>5, <1>6 DEF Kind

(* While a room stays open nobody comes into it from a banned address, and *)
(* no ban is lifted: join, create with joinIfExist, and every handler that *)
(* writes a room (ws/event_join.go, ws/event_owner_action.go).             *)
THEOREM BansHold == RoomIdsAreNames => (Spec => BanHolds)
  <1> SUFFICES ASSUME RoomIdsAreNames PROVE Spec => BanHolds
    OBVIOUS
  <1> DEFINE A == \A r \in DOMAIN rooms \cap DOMAIN rooms' :
                     /\ rooms[r].banned \subseteq rooms'[r].banned
                     /\ \A c \in DOMAIN rooms'[r].users \ DOMAIN rooms[r].users :
                           Addr[c] \notin rooms'[r].banned
  <1>1. TypeOK /\ Safe /\ [Next]_vars => [A]_vars
    BY StepKinds, RoomStays DEF Orderly, BansStay
  <1>2. BanHolds <=> [][A]_vars
    BY DEF BanHolds
  <1> HIDE DEF A
  <1> QED
    BY <1>1, <1>2, TypeCorrect, Safety, PTL DEF Spec

(* A room keeps its owner for as long as the owner is in it: only          *)
(* Disconnected.executeNoError passes ownership on, and only of whoever    *)
(* goes (ws/event_disconnected.go).                                        *)
THEOREM OwnersKeepRooms == RoomIdsAreNames => (Spec => OwnerKeepsRoom)
  <1> SUFFICES ASSUME RoomIdsAreNames PROVE Spec => OwnerKeepsRoom
    OBVIOUS
  <1> DEFINE A == \A r \in DOMAIN rooms \cap DOMAIN rooms' :
                     \A c \in DOMAIN rooms[r].users \cap DOMAIN rooms'[r].users :
                         rooms[r].users[c].Owner => rooms'[r].users[c].Owner
  <1>1. TypeOK /\ Safe /\ [Next]_vars => [A]_vars
    BY StepKinds, RoomStays DEF Orderly, OwnersStay
  <1>2. OwnerKeepsRoom <=> [][A]_vars
    BY DEF OwnerKeepsRoom
  <1> HIDE DEF A
  <1> QED
    BY <1>1, <1>2, TypeCorrect, Safety, PTL DEF Spec

(* The main loop forgets a connection in the step that ends its write      *)
(* loop: a CloseWriter is the last thing written to it, is written once,   *)
(* goes to nobody the loop still serves, and nothing is written to a       *)
(* client that is gone.                                                    *)
THEOREM WritersCloseOnce == RoomIdsAreNames => (Spec => ClosedOnce)
  <1> SUFFICES ASSUME RoomIdsAreNames PROVE Spec => ClosedOnce
    OBVIOUS
  <1> DEFINE A == \A c \in Clients :
                    LET out == outbox'[c]
                        closing == {i \in DOMAIN out : \E m \in out[i] : m.type = "closewriter"}
                    IN  /\ outbox'[c] # << >> => c \in DOMAIN connected
                        /\ closing = IF c \in DOMAIN connected \ DOMAIN connected'
                                       THEN {Len(out)} ELSE {}
  <1>1. TypeOK /\ Safe /\ [Next]_vars => [A]_vars
    <2>1. ASSUME NEW a, Channels(a) PROVE A
      BY <2>1 DEF Channels, ClosesOnly, Reaches, Closing, Hearers
    <2> HIDE DEF A
    <2> QED
      BY <2>1, StepKinds DEF Orderly
  <1>2. ClosedOnce <=> [][A]_vars
    BY DEF ClosedOnce
  <1> HIDE DEF A
  <1> QED
    BY <1>1, <1>2, TypeCorrect, Safety, PTL DEF Spec

(* A client that enters a room hears of the room before anything else, the *)
(* sessions that are opened for it included: the page treats any other     *)
(* first message as a failure to join (ui/src/useRoom.ts).                 *)
THEOREM RoomIsHeardFirst == RoomIdsAreNames => (Spec => RoomComesFirst)
  <1> SUFFICES ASSUME RoomIdsAreNames PROVE Spec => RoomComesFirst
    OBVIOUS
  <1> DEFINE A == \A c \in DOMAIN connected \cap DOMAIN connected' :
                    connected[c] = NoRoom /\ connected'[c] # NoRoom =>
                        outbox'[c] # << >> /\ \E u \in {rooms'[connected'[c]].users} :
                                                 outbox'[c][1] = {RoomMsg(u)}
  <1>1. TypeOK /\ Safe /\ [Next]_vars => [A]_vars
    BY StepKinds, EntryIsHeard DEF Orderly, HearsFirst
  <1>2. RoomComesFirst <=> [][A]_vars
    BY DEF RoomComesFirst
  <1> HIDE DEF A
  <1> QED
    BY <1>1, <1>2, TypeCorrect, Safety, PTL DEF Spec

(* Whenever the users of a room change, each user of it is told all of     *)
(* them, and the last it hears of the room in that step is the new state:  *)
(* no handler changes a room after its last notifyInfoChanged.             *)
THEOREM ChangesAreHeard == RoomIdsAreNames => (Spec => EveryChangeIsTold)
  <1> SUFFICES ASSUME RoomIdsAreNames PROVE Spec => EveryChangeIsTold
    OBVIOUS
  <1> DEFINE A == \A r \in DOMAIN rooms' :
                    (r \in DOMAIN rooms => rooms[r].users # rooms'[r].users) =>
                        \A c \in DOMAIN rooms'[r].users :
                           \E i \in RoomMsgs(outbox', c) :
                              /\ outbox'[c][i] = {RoomMsg(rooms'[r].users)}
                              /\ \A j \in RoomMsgs(outbox', c) : j <= i
  <1>1. TypeOK /\ Safe /\ [Next]_vars => [A]_vars
    BY StepKinds DEF Orderly, Told, AllHear, HearsLast
  <1>2. EveryChangeIsTold <=> [][A]_vars
    BY DEF EveryChangeIsTold
  <1> HIDE DEF A
  <1> QED
    BY <1>1, <1>2, TypeCorrect, Safety, PTL DEF Spec
-----------------------------------------------------------------------------
(* The main loop implements RoomService *)

LEMMA PlacesApart ==
    /\ RoomIdsAreNames /\ Away # NoRoom /\ Away \notin RoomIds /\ Nobody \notin Clients
  BY ServiceAssumption DEF Service!PlacesAssumption, RoomIdsAreNames

LEMMA HolderIs == Holder({}) = Nobody /\ \A x : Holder({x}) = x
  BY DEF Holder

LEMMA NobodyThere ==
    OwnerOf(EmptyMap) = Nobody /\ PresenterOf(EmptyMap) = Nobody /\ DOMAIN EmptyMap = {}
  <1>1. DOMAIN EmptyMap = {}
    BY DEF EmptyMap
  <1>2. {c \in DOMAIN EmptyMap : EmptyMap[c].Owner} = {} /\ Presenters(EmptyMap) = {}
    BY <1>1 DEF Presenters
  <1> QED
    BY <1>1, <1>2, HolderIs DEF OwnerOf, PresenterOf

LEMMA OwnerIs ==
    ASSUME NEW users, HasOneOwner(users)
    PROVE  /\ OwnerOf(users) \in DOMAIN users /\ users[OwnerOf(users)].Owner
           /\ \A o \in DOMAIN users : users[o].Owner => OwnerOf(users) = o
  <1>1. PICK o \in DOMAIN users : \A c \in DOMAIN users : users[c].Owner <=> c = o
    BY DEF HasOneOwner
  <1>2. {c \in DOMAIN users : users[c].Owner} = {o}
    BY <1>1
  <1>3. OwnerOf(users) = o
    BY <1>2, HolderIs DEF OwnerOf
  <1> QED
    BY <1>1, <1>3

LEMMA PresenterIs ==
    ASSUME NEW users, AtMostOnePresenter(users)
    PROVE  /\ Presenters(users) = {} => PresenterOf(users) = Nobody
           /\ \A p \in Presenters(users) :
                 Presenters(users) = {p} /\ PresenterOf(users) = p
  <1>1. Presenters(users) = {} => PresenterOf(users) = Nobody
    BY HolderIs DEF PresenterOf
  <1>2. \A p \in Presenters(users) : Presenters(users) = {p}
    BY DEF AtMostOnePresenter
  <1> QED
    BY <1>1, <1>2, HolderIs DEF PresenterOf

(* A step that changes the users of one room.                              *)
Only(id) == \A r \in RoomIds \ {id} : UsersIn(rooms', r) = UsersIn(rooms, r)

LEMMA BarsBut ==
    ASSUME NEW id \in RoomIds, Only(id)
    PROVE  /\ ownerBar' = [ownerBar EXCEPT ![id] = OwnerOf(UsersIn(rooms', id))]
           /\ presenterBar' = [presenterBar EXCEPT ![id] = PresenterOf(UsersIn(rooms', id))]
           /\ ownerBar[id] = OwnerOf(UsersIn(rooms, id))
           /\ presenterBar[id] = PresenterOf(UsersIn(rooms, id))
  BY DEF Only, ownerBar, presenterBar

LEMMA BarsStay ==
    ASSUME NEW id \in RoomIds, Only(id),
           OwnerOf(UsersIn(rooms', id)) = OwnerOf(UsersIn(rooms, id))
    PROVE  ownerBar' = ownerBar
  BY DEF Only, ownerBar

LEMMA PresenterStays ==
    ASSUME NEW id \in RoomIds, Only(id),
           PresenterOf(UsersIn(rooms', id)) = PresenterOf(UsersIn(rooms, id))
    PROVE  presenterBar' = presenterBar
  BY DEF Only, presenterBar

LEMMA PlaceIs ==
    ASSUME NEW c \in Clients
    PROVE  /\ c \in DOMAIN connected => placeBar[c] = connected[c]
           /\ c \notin DOMAIN connected => placeBar[c] = Away
  BY DEF placeBar

LEMMA Placed ==
    ASSUME NEW c \in Clients, c \in DOMAIN connected, NEW id,
           connected' = [connected EXCEPT ![c] = id]
    PROVE  placeBar' = [placeBar EXCEPT ![c] = id]
  BY DEF placeBar

LEMMA PlacedAway ==
    ASSUME NEW c \in Clients, connected' = Without(connected, {c})
    PROVE  placeBar' = [placeBar EXCEPT ![c] = Away]
  BY DEF placeBar, Without, Restrict

LEMMA MembersAre ==
    ASSUME TypeOK, Safe, NEW id \in RoomIds
    PROVE  Service!Members(id) = DOMAIN UsersIn(rooms, id)
  <1>1. DOMAIN UsersIn(rooms, id) \subseteq Clients
    BY UsersConnected, RoomType, NobodyThere DEF UsersIn
  <1>2. ASSUME NEW c \in Clients, placeBar[c] = id
        PROVE  c \in DOMAIN UsersIn(rooms, id)
    BY <1>2, PlaceIs, PlacesApart DEF Safe, SafeMaps, Agree, UsersIn, RoomIdsAreNames
  <1>3. ASSUME NEW c \in DOMAIN UsersIn(rooms, id)
        PROVE  placeBar[c] = id
    <2>1. id \in DOMAIN rooms /\ c \in DOMAIN rooms[id].users
      BY NobodyThere DEF UsersIn
    <2> QED
      BY <1>1, <2>1, PlaceIs, UsersConnected
  <1> QED
    BY <1>1, <1>2, <1>3 DEF Service!Members

(* What is known of the users of an open room.                             *)
LEMMA UsersInIs ==
    ASSUME TypeOK, Safe, NEW id \in DOMAIN rooms
    PROVE  /\ UsersIn(rooms, id) = rooms[id].users /\ rooms[id].users \in Users
           /\ HasOneOwner(rooms[id].users) /\ AtMostOnePresenter(rooms[id].users)
           /\ \A u \in DOMAIN rooms[id].users : rooms[id].users[u] \in User /\ u \in Clients
  <1>1. rooms[id].users \in Users
    BY UsersConnected
  <1> QED
    BY <1>1, PartialFnIs DEF UsersIn, Users, Safe, SafeMaps

(* ... and of those of the room a step changes.                            *)
LEMMA UsersAfter ==
    ASSUME Safe', NEW id, NEW room, Changes(id, room)
    PROVE  /\ Only(id) /\ UsersIn(rooms', id) = room.users
           /\ HasOneOwner(room.users) /\ AtMostOnePresenter(room.users)
  <1>1. /\ DOMAIN rooms' = DOMAIN rooms /\ id \in DOMAIN rooms' /\ rooms'[id] = room
        /\ \A r \in DOMAIN rooms \ {id} : rooms'[r] = rooms[r]
    BY DEF Changes
  <1> QED
    BY <1>1 DEF Only, UsersIn, Safe, SafeMaps

LEMMA ArriveImplements ==
    ASSUME NEW c \in Clients, Arrives(c)
    PROVE  Service!Arrive(c)
  <1>1. placeBar[c] = Away
    BY PlaceIs DEF Arrives
  <1>2. placeBar' = [placeBar EXCEPT ![c] = NoRoom]
    BY DEF Arrives, placeBar, Assign
  <1>3. ownerBar' = ownerBar /\ presenterBar' = presenterBar
    BY DEF Arrives, ownerBar, presenterBar
  <1> QED
    BY <1>1, <1>2, <1>3 DEF Service!Arrive

LEMMA HangupImplements ==
    ASSUME NEW c \in Clients, HangsUp(c)
    PROVE  Service!Hangup(c)
  <1>1. placeBar[c] = NoRoom
    BY PlaceIs DEF HangsUp
  <1>2. placeBar' = [placeBar EXCEPT ![c] = Away]
    BY PlacedAway DEF HangsUp
  <1>3. ownerBar' = ownerBar /\ presenterBar' = presenterBar
    BY DEF HangsUp, ownerBar, presenterBar
  <1> QED
    BY <1>1, <1>2, <1>3 DEF Service!Hangup

LEMMA OpenImplements ==
    ASSUME Safe', NEW c \in Clients, NEW id \in RoomIds, Opens(c, id)
    PROVE  Service!Open(c, id)
  <1>1. PICK room : /\ rooms' = Assign(rooms, id, room)
                    /\ room.users = Assign(EmptyMap, c, NewUser(TRUE))
    BY DEF Opens
  <1>2. /\ DOMAIN room.users = {c} /\ room.users[c].Owner
        /\ ~room.users[c].Streaming
    BY <1>1 DEF Assign, EmptyMap, NewUser
  <1>3. id \notin DOMAIN rooms
    BY DEF Opens
  <1>4. /\ id \in DOMAIN rooms' /\ rooms'[id] = room
        /\ \A r \in RoomIds \ {id} : /\ r \in DOMAIN rooms' <=> r \in DOMAIN rooms
                                     /\ r \in DOMAIN rooms => rooms'[r] = rooms[r]
    BY <1>1, <1>3 DEF Assign
  <1>5. Only(id) /\ UsersIn(rooms', id) = room.users /\ UsersIn(rooms, id) = EmptyMap
    BY <1>3, <1>4 DEF Only, UsersIn
  <1>6. HasOneOwner(room.users) /\ Presenters(room.users) = {}
    BY <1>2 DEF HasOneOwner, Presenters
  <1>7. OwnerOf(room.users) = c /\ PresenterOf(room.users) = Nobody
    BY <1>2, <1>6, OwnerIs, HolderIs DEF PresenterOf
  <1>8. ownerBar[id] = Nobody /\ ownerBar' = [ownerBar EXCEPT ![id] = c]
    BY <1>5, <1>7, BarsBut, NobodyThere
  <1>9. presenterBar' = presenterBar
    BY <1>5, <1>7, NobodyThere, PresenterStays
  <1>10. placeBar[c] = NoRoom /\ placeBar' = [placeBar EXCEPT ![c] = id]
    BY PlaceIs, Placed DEF Opens
  <1> QED
    BY <1>8, <1>9, <1>10 DEF Service!Open

LEMMA EnterImplements ==
    ASSUME TypeOK, Safe, Safe', NEW c \in Clients, NEW id \in RoomIds, Joins(c, id)
    PROVE  Service!Enter(c, id)
  <1>1. PICK room, new : /\ Extends(id, room, new)
                         /\ room.users = Assign(rooms[id].users, c, NewUser(FALSE))
    BY DEF Joins
  <1>2. Changes(id, room) /\ id \in DOMAIN rooms
    BY <1>1 DEF Extends, Changes
  <1>3. PICK old : old = rooms[id].users
    OBVIOUS
  <1>4. /\ UsersIn(rooms, id) = old /\ HasOneOwner(old) /\ AtMostOnePresenter(old)
        /\ \A u \in DOMAIN old : u \in Clients
    BY <1>2, <1>3, UsersInIs
  <1>5. /\ Only(id) /\ UsersIn(rooms', id) = room.users
        /\ HasOneOwner(room.users) /\ AtMostOnePresenter(room.users)
    BY <1>2, UsersAfter
  <1>6. c \notin DOMAIN old
    BY <1>2, <1>3, UsersConnected, PlacesApart DEF Joins, RoomIdsAreNames
  <1>7. /\ DOMAIN room.users = DOMAIN old \cup {c} /\ ~room.users[c].Streaming
        /\ \A u \in DOMAIN old : room.users[u] = old[u]
    BY <1>1, <1>3, <1>6 DEF Assign, NewUser
  <1>8. OwnerOf(room.users) = OwnerOf(old) /\ OwnerOf(old) \in Clients
    BY <1>4, <1>5, <1>7, OwnerIs
  <1>9. PresenterOf(room.users) = PresenterOf(old)
    <2>1. Presenters(room.users) = Presenters(old)
      BY <1>6, <1>7 DEF Presenters
    <2> QED
      BY <2>1 DEF PresenterOf
  <1>10. ownerBar[id] # Nobody /\ ownerBar' = ownerBar /\ presenterBar' = presenterBar
    BY <1>4, <1>5, <1>8, <1>9, BarsBut, BarsStay, PresenterStays, PlacesApart
  <1>11. placeBar[c] = NoRoom /\ placeBar' = [placeBar EXCEPT ![c] = id]
    BY PlaceIs, Placed DEF Joins
  <1> QED
    BY <1>10, <1>11 DEF Service!Enter

(* Whoever goes from a room takes its presentation along and leaves the    *)
(* room to the others.                                                     *)
LEMMA StopsIs ==
    ASSUME NEW old, AtMostOnePresenter(old), NEW users, AtMostOnePresenter(users), NEW c,
           Presenters(users) = Presenters(old) \ {c}, c # Nobody,
           NEW id \in RoomIds, Only(id), UsersIn(rooms, id) = old, UsersIn(rooms', id) = users
    PROVE  Service!Stops(c, id)
  <1>1. /\ presenterBar' = [presenterBar EXCEPT ![id] = PresenterOf(users)]
        /\ presenterBar[id] = PresenterOf(old)
    BY BarsBut
  <1>2. CASE c \in Presenters(old)
    <2>1. Presenters(old) = {c} /\ PresenterOf(old) = c
      BY <1>2, PresenterIs
    <2>2. PresenterOf(users) = Nobody
      BY <2>1, PresenterIs
    <2> QED
      BY <1>1, <2>1, <2>2 DEF Service!Stops
  <1>3. CASE c \notin Presenters(old)
    <2>1. Presenters(users) = Presenters(old)
      BY <1>3
    <2>2. PresenterOf(users) = PresenterOf(old)
      BY <2>1 DEF PresenterOf
    <2>3. PresenterOf(old) # c
      BY <1>3, PresenterIs
    <2> QED
      BY <1>1, <2>2, <2>3 DEF Service!Stops
  <1> QED
    BY <1>2, <1>3

LEMMA DepartImplements ==
    ASSUME TypeOK, Safe, Safe', NEW c \in Clients, NEW id \in RoomIds, Departs(c, id)
    PROVE  Service!Depart(c, id)
  <1>1. PICK old : old = rooms[id].users
    OBVIOUS
  <1>2. /\ id \in DOMAIN rooms /\ c \in DOMAIN old
        /\ c \in DOMAIN connected /\ connected[c] = id
    BY <1>1 DEF Departs
  <1>3. /\ UsersIn(rooms, id) = old /\ old \in Users /\ HasOneOwner(old)
        /\ AtMostOnePresenter(old) /\ \A u \in DOMAIN old : u \in Clients
    BY <1>1, <1>2, UsersInIs
  <1>4. Service!Members(id) = DOMAIN old
    BY <1>3, MembersAre
  <1>5. placeBar[c] = id /\ placeBar' = [placeBar EXCEPT ![c] = Away]
    BY <1>2, PlaceIs, PlacedAway DEF Departs
  <1>6. c # Nobody /\ OwnerOf(old) \in DOMAIN old
    BY <1>3, OwnerIs, PlacesApart
  <1>7. CASE LastLeaves(c, id, rooms, gauge)
    <2>1. DOMAIN old = {c} /\ rooms' = Without(rooms, {id})
      BY <1>1, <1>7 DEF LastLeaves
    <2>2. Only(id) /\ UsersIn(rooms', id) = EmptyMap
      BY <2>1 DEF Only, UsersIn, Without, Restrict
    <2>3. AtMostOnePresenter(EmptyMap) /\ Presenters(EmptyMap) = Presenters(old) \ {c}
      BY <2>1, NobodyThere DEF Presenters, AtMostOnePresenter
    <2>4. Service!Stops(c, id)
      BY <1>3, <1>6, <2>2, <2>3, StopsIs
    <2>5. ownerBar' = [ownerBar EXCEPT ![id] = Nobody] /\ ownerBar[id] = c
      BY <1>3, <1>6, <2>1, <2>2, BarsBut, NobodyThere
    <2>6. \E heir \in (Service!Members(id) \ {c}) \cup {Nobody} :
             /\ heir = Nobody <=> Service!Members(id) = {c}
             /\ ownerBar' = [ownerBar EXCEPT ![id] =
                                IF ownerBar[id] = c THEN heir ELSE ownerBar[id]]
      BY <1>4, <2>1, <2>5
    <2> QED
      BY <1>5, <2>4, <2>6 DEF Service!Depart
  <1>8. CASE OneLeaves(c, id, rooms, gauge)
    <2>1. PICK room \in Room : /\ rooms' = [rooms EXCEPT ![id] = room]
                               /\ room.users \in Successions(old, c)
      BY <1>1, <1>8 DEF OneLeaves
    <2>2. PICK users \in Successions(old, c) : users = room.users
      BY <2>1
    <2>3. /\ DOMAIN users = DOMAIN old \ {c}
          /\ \A u \in DOMAIN users : /\ old[u].Owner => users[u].Owner
                                     /\ users[u].Streaming = old[u].Streaming
      <3>1. old \in Users /\ c \in DOMAIN old
        BY <1>2, <1>3
      <3> QED
        BY <3>1, SuccessionKeeps
    <2>4. DOMAIN old # {c}
      BY <1>1, <1>8 DEF OneLeaves
    <2>5. /\ Only(id) /\ UsersIn(rooms', id) = users
          /\ HasOneOwner(users) /\ AtMostOnePresenter(users)
      BY <1>2, <2>1, <2>2, UsersAfter DEF Changes
    <2>6. Presenters(users) = Presenters(old) \ {c}
      BY <2>3 DEF Presenters
    <2>7. Service!Stops(c, id)
      BY <1>3, <1>6, <2>5, <2>6, StopsIs
    <2>8. PICK heir : heir = OwnerOf(users)
      OBVIOUS
    <2>9. heir \in DOMAIN old \ {c} /\ heir # Nobody
      BY <1>3, <2>3, <2>5, <2>8, OwnerIs, PlacesApart
    <2>10. OwnerOf(old) # c => OwnerOf(old) = heir
      BY <1>3, <2>3, <2>5, <2>8, OwnerIs
    <2>11. /\ ownerBar' = [ownerBar EXCEPT ![id] = heir] /\ ownerBar[id] = OwnerOf(old)
      BY <1>3, <2>5, <2>8, BarsBut
    <2>12. ownerBar' = [ownerBar EXCEPT ![id] =
                           IF ownerBar[id] = c THEN heir ELSE ownerBar[id]]
      BY <2>10, <2>11
    <2>13. \E h \in (Service!Members(id) \ {c}) \cup {Nobody} :
              /\ h = Nobody <=> Service!Members(id) = {c}
              /\ ownerBar' = [ownerBar EXCEPT ![id] =
                                 IF ownerBar[id] = c THEN h ELSE ownerBar[id]]
      BY <1>4, <2>4, <2>9, <2>12
    <2> QED
      BY <1>5, <2>7, <2>13 DEF Service!Depart
  <1> QED
    BY <1>7, <1>8 DEF Departs, Leaves

(* share again while on the air changes no more than the sessions.         *)
LEMMA PresentImplements ==
    ASSUME TypeOK, Safe, Safe', NEW c \in Clients, NEW id \in RoomIds, Starts(c, id)
    PROVE  Service!Present(c, id) \/ UNCHANGED <<placeBar, ownerBar, presenterBar>>
  <1>1. PICK old : old = rooms[id].users
    OBVIOUS
  <1>2. PICK room, new : /\ Extends(id, room, new) /\ ~ShareDenied(c, old)
                         /\ room.users = [old EXCEPT ![c].Streaming = TRUE]
    BY <1>1 DEF Starts
  <1>3. PICK users : users = room.users
    OBVIOUS
  <1>4. Changes(id, room) /\ id \in DOMAIN rooms
    BY <1>2 DEF Extends, Changes
  <1>5. c \in DOMAIN connected /\ connected[c] = id /\ connected' = connected
    BY DEF Starts
  <1>6. c \in DOMAIN old
    BY <1>1, <1>5, PlacesApart DEF Safe, SafeMaps, Agree, RoomIdsAreNames
  <1>7. /\ UsersIn(rooms, id) = old /\ HasOneOwner(old) /\ AtMostOnePresenter(old)
        /\ \A u \in DOMAIN old : old[u] \in User
    BY <1>1, <1>4, UsersInIs
  <1>8. /\ Only(id) /\ UsersIn(rooms', id) = users
        /\ HasOneOwner(users) /\ AtMostOnePresenter(users)
    BY <1>3, <1>4, UsersAfter
  <1>9. /\ DOMAIN users = DOMAIN old /\ users[c].Streaming
        /\ \A u \in DOMAIN old : users[u].Owner = old[u].Owner
    BY <1>2, <1>3, <1>6, <1>7 DEF User
  <1>10. OwnerOf(users) = OwnerOf(old)
    BY <1>7, <1>8, <1>9, OwnerIs
  <1>11. ownerBar' = ownerBar
    BY <1>7, <1>8, <1>10, BarsStay
  <1>12. placeBar[c] = id /\ placeBar' = placeBar
    BY <1>5, PlaceIs DEF placeBar
  <1>13. PresenterOf(users) = c
    BY <1>6, <1>8, <1>9, PresenterIs DEF Presenters
  <1>14. CASE c \in Presenters(old)
    <2>1. PresenterOf(old) = c
      BY <1>7, <1>14, PresenterIs
    <2> QED
      BY <1>7, <1>8, <1>11, <1>12, <1>13, <2>1, PresenterStays
  <1>15. CASE c \notin Presenters(old)
    <2>1. Presenters(old) = {}
      BY <1>2, <1>15 DEF ShareDenied
    <2>2. presenterBar[id] = Nobody /\ presenterBar' = [presenterBar EXCEPT ![id] = c]
      BY <1>7, <1>8, <1>13, <2>1, BarsBut, PresenterIs
    <2> QED
      BY <1>11, <1>12, <2>2 DEF Service!Present
  <1> QED
    BY <1>14, <1>15

LEMMA StopImplements ==
    ASSUME TypeOK, Safe, Safe', NEW id \in RoomIds, Resets(id)
    PROVE  Service!Stop(id) \/ UNCHANGED <<placeBar, ownerBar, presenterBar>>
  <1>1. PICK old : old = rooms[id].users
    OBVIOUS
  <1>2. PICK room, ended : /\ Shrinks(id, room, {}, ended)
                           /\ DOMAIN room.users = DOMAIN old
                           /\ \A u \in DOMAIN room.users : room.users[u].Owner = old[u].Owner
                           /\ Presenters(room.users) \subseteq Presenters(old)
    BY <1>1 DEF Resets
  <1>3. PICK users : users = room.users
    OBVIOUS
  <1>4. Changes(id, room) /\ id \in DOMAIN rooms
    BY <1>2 DEF Shrinks, Changes
  <1>5. UsersIn(rooms, id) = old /\ HasOneOwner(old) /\ AtMostOnePresenter(old)
    BY <1>1, <1>4, UsersInIs
  <1>6. /\ Only(id) /\ UsersIn(rooms', id) = users
        /\ HasOneOwner(users) /\ AtMostOnePresenter(users)
    BY <1>3, <1>4, UsersAfter
  <1>7. OwnerOf(users) = OwnerOf(old)
    BY <1>2, <1>3, <1>5, <1>6, OwnerIs
  <1>8. ownerBar' = ownerBar /\ placeBar' = placeBar
    BY <1>5, <1>6, <1>7, BarsStay DEF Resets, placeBar
  <1>9. CASE Presenters(users) = Presenters(old)
    <2>1. PresenterOf(users) = PresenterOf(old)
      BY <1>9 DEF PresenterOf
    <2> QED
      BY <1>5, <1>6, <1>8, <2>1, PresenterStays
  <1>10. CASE Presenters(users) # Presenters(old)
    <2>1. PICK p \in Presenters(old) : p \notin Presenters(users)
      BY <1>2, <1>3, <1>10
    <2>2. Presenters(old) = {p} /\ PresenterOf(old) = p
      BY <1>5, <2>1, PresenterIs
    <2>3. Presenters(users) = {}
      BY <1>2, <1>3, <2>1, <2>2
    <2>4. PresenterOf(users) = Nobody
      BY <1>6, <2>3, PresenterIs
    <2>5. p # Nobody
      BY <1>1, <1>4, <2>1, UsersInIs, PlacesApart DEF Presenters
    <2>6. presenterBar[id] # Nobody /\ presenterBar' = [presenterBar EXCEPT ![id] = Nobody]
      BY <1>5, <1>6, <2>2, <2>4, <2>5, BarsBut
    <2> QED
      BY <1>8, <2>6 DEF Service!Stop
  <1> QED
    BY <1>9, <1>10

LEMMA ExpelImplements ==
    ASSUME TypeOK, Safe, Safe', NEW o \in Clients, NEW c \in Clients, NEW id \in RoomIds,
           Expels(o, c, id)
    PROVE  Service!Expel(o, c, id)
  <1>1. PICK old : old = rooms[id].users
    OBVIOUS
  <1>2. PICK room : /\ Shrinks(id, room, {c}, Involving(rooms[id], c))
                    /\ room.users = Without(old, {c})
    BY <1>1 DEF Expels
  <1>3. PICK users : users = room.users
    OBVIOUS
  <1>4. Changes(id, room) /\ id \in DOMAIN rooms
    BY <1>2 DEF Shrinks, Changes
  <1>5. /\ o \in DOMAIN old /\ old[o].Owner /\ c \in DOMAIN old /\ c # o
    BY <1>1 DEF Expels, MayTarget, OwnsRoom, CurrentRoom
  <1>6. UsersIn(rooms, id) = old /\ HasOneOwner(old) /\ AtMostOnePresenter(old)
    BY <1>1, <1>4, UsersInIs
  <1>7. /\ Only(id) /\ UsersIn(rooms', id) = users
        /\ HasOneOwner(users) /\ AtMostOnePresenter(users)
    BY <1>3, <1>4, UsersAfter
  <1>8. /\ DOMAIN users = DOMAIN old \ {c}
        /\ \A u \in DOMAIN users : users[u] = old[u]
    <2>1. users = Without(old, {c})
      BY <1>2, <1>3
    <2> QED
      BY <2>1 DEF Without, Restrict
  <1>9. OwnerOf(old) = o /\ OwnerOf(users) = o
    BY <1>5, <1>6, <1>7, <1>8, OwnerIs
  <1>10. ownerBar[id] = o /\ ownerBar' = ownerBar
    BY <1>6, <1>7, <1>9, BarsBut, BarsStay
  <1>11. Presenters(users) = Presenters(old) \ {c}
    BY <1>8 DEF Presenters
  <1>12. Service!Stops(c, id)
    BY <1>6, <1>7, <1>11, StopsIs, PlacesApart
  <1>13. placeBar[c] = id
    <2>1. c \in DOMAIN connected /\ connected[c] = id
      BY <1>1, <1>4, <1>5, UsersConnected
    <2> QED
      BY <2>1, PlaceIs
  <1>14. placeBar' = [placeBar EXCEPT ![c] = Away]
    BY PlacedAway DEF Expels
  <1> QED
    BY <1>5, <1>10, <1>12, <1>13, <1>14 DEF Service!Expel

LEMMA DissolveImplements ==
    ASSUME TypeOK, Safe, NEW o \in Clients, NEW id \in RoomIds, Dissolves(o, id)
    PROVE  Service!Dissolve(o, id)
  <1>1. PICK old : old = rooms[id].users
    OBVIOUS
  <1>2. id \in DOMAIN rooms /\ o \in DOMAIN old /\ old[o].Owner
    BY <1>1 DEF Dissolves, OwnsRoom, HasRoom, CurrentRoom
  <1>3. UsersIn(rooms, id) = old /\ HasOneOwner(old)
    BY <1>1, <1>2, UsersInIs
  <1>4. rooms' = Without(rooms, {id}) /\ connected' = Without(connected, DOMAIN old)
    BY <1>1 DEF Dissolves
  <1>5. Only(id) /\ UsersIn(rooms', id) = EmptyMap
    BY <1>4 DEF Only, UsersIn, Without, Restrict
  <1>6. /\ ownerBar[id] = o /\ ownerBar' = [ownerBar EXCEPT ![id] = Nobody]
        /\ presenterBar' = [presenterBar EXCEPT ![id] = Nobody]
    BY <1>2, <1>3, <1>5, BarsBut, NobodyThere, OwnerIs
  <1>7. \A c \in Clients : placeBar[c] = id <=> c \in DOMAIN old
    BY <1>1, <1>2, <1>3, MembersAre DEF Service!Members
  <1>8. placeBar' = [c \in Clients |-> IF placeBar[c] = id THEN Away ELSE placeBar[c]]
    <2>1. \A c \in Clients :
             /\ c \in DOMAIN old => c \notin DOMAIN connected'
             /\ c \notin DOMAIN old => /\ c \in DOMAIN connected' <=> c \in DOMAIN connected
                                       /\ c \in DOMAIN connected => connected'[c] = connected[c]
      BY <1>4 DEF Without, Restrict
    <2> QED
      BY <1>7, <2>1 DEF placeBar
  <1> QED
    BY <1>6, <1>8 DEF Service!Dissolve

(* Every step of the main loop is a step of RoomService or none.           *)
LEMMA KindImplements ==
    ASSUME TypeOK, Safe, Safe', NEW a \in Clients, NEW S, Kind(a, S)
    PROVE  Service!Next \/ UNCHANGED <<placeBar, ownerBar, presenterBar>>
  <1>1. CASE Idles
    BY <1>1 DEF Idles, placeBar, ownerBar, presenterBar
  <1>2. ASSUME NEW c \in Clients, Arrives(c) \/ HangsUp(c)
        PROVE  Service!Next
    BY <1>2, ArriveImplements, HangupImplements DEF Service!Next
  <1>3. ASSUME NEW c \in Clients, NEW id \in RoomIds,
               Departs(c, id) \/ Opens(c, id) \/ Joins(c, id)
        PROVE  Service!Next
    BY <1>3, DepartImplements, OpenImplements, EnterImplements DEF Service!Next
  <1>4. ASSUME NEW c \in Clients, NEW id \in RoomIds, Starts(c, id) \/ Dissolves(c, id)
        PROVE  Service!Next \/ UNCHANGED <<placeBar, ownerBar, presenterBar>>
    BY <1>4, PresentImplements, DissolveImplements DEF Service!Next
  <1>5. ASSUME NEW id \in RoomIds, Resets(id)
        PROVE  Service!Next \/ UNCHANGED <<placeBar, ownerBar, presenterBar>>
    BY <1>5, StopImplements DEF Service!Next
  <1>6. ASSUME NEW o \in Clients, NEW c \in Clients, NEW id \in RoomIds, Expels(o, c, id)
        PROVE  Service!Next
    BY <1>6, ExpelImplements DEF Service!Next
  <1> QED
    BY <1>1, <1>2, <1>3, <1>4, <1>5, <1>6 DEF Kind

(* The main loop keeps what the service promises: what its maps say of who *)
(* is where, who owns and who presents changes only as RoomService allows, *)
(* in one step for each message that changes it.                           *)
THEOREM Refinement == Spec => ImplementsRoomService
  <1>1. Init => Service!Init
    <2> SUFFICES ASSUME Init PROVE Service!Init
      OBVIOUS
    <2>1. DOMAIN connected = {} /\ DOMAIN rooms = {}
      BY DEF Init, EmptyMap
    <2>2. \A r : UsersIn(rooms, r) = EmptyMap
      BY <2>1 DEF UsersIn
    <2> QED
      BY <2>1, <2>2, NobodyThere DEF Service!Init, placeBar, ownerBar, presenterBar
  <1>2. TypeOK /\ Safe /\ Safe' /\ [Next]_vars => [Service!Next]_(Service!vars)
    <2> SUFFICES ASSUME TypeOK, Safe, Safe', [Next]_vars
                 PROVE  Service!Next \/ UNCHANGED <<placeBar, ownerBar, presenterBar>>
      BY DEF Service!vars
    <2>1. CASE Next
      BY <2>1, StepKinds, KindImplements, PlacesApart DEF Orderly
    <2>2. CASE UNCHANGED vars
      BY <2>2 DEF vars, placeBar, ownerBar, presenterBar
    <2> QED
      BY <2>1, <2>2
  <1>3. Spec => []TypeOK /\ []Safe
    BY TypeCorrect, Safety, PlacesApart, PTL
  <1> QED
    BY <1>1, <1>2, <1>3, PTL DEF Spec, ImplementsRoomService, Service!Spec

(* What the service keeps: nobody owns or presents in a room of others.    *)
Kept == Service!TypeOK /\ Service!RoleHoldersAreMembers

LEMMA ServiceKeeps == Kept /\ [Service!Next]_(Service!vars) => Kept'
  <1> SUFFICES ASSUME Kept, [Service!Next]_(Service!vars) PROVE Kept'
    OBVIOUS
  <1> USE ServiceAssumption
  <1> USE DEF Kept, Service!TypeOK, Service!RoleHoldersAreMembers, Service!Members,
              Service!PlacesAssumption
  <1>1. ASSUME NEW c \in Clients, Service!Arrive(c) PROVE Kept'
    BY <1>1 DEF Service!Arrive
  <1>2. ASSUME NEW c \in Clients, Service!Hangup(c) PROVE Kept'
    BY <1>2 DEF Service!Hangup
  <1>3. ASSUME NEW c \in Clients, NEW r \in RoomIds, Service!Open(c, r) PROVE Kept'
    BY <1>3 DEF Service!Open
  <1>4. ASSUME NEW c \in Clients, NEW r \in RoomIds, Service!Enter(c, r) PROVE Kept'
    BY <1>4 DEF Service!Enter
  <1>5. ASSUME NEW c \in Clients, NEW r \in RoomIds, Service!Depart(c, r) PROVE Kept'
    BY <1>5 DEF Service!Depart, Service!Stops
  <1>6. ASSUME NEW o \in Clients, NEW c \in Clients, NEW r \in RoomIds, Service!Expel(o, c, r)
        PROVE  Kept'
    BY <1>6 DEF Service!Expel, Service!Stops
  <1>7. ASSUME NEW o \in Clients, NEW r \in RoomIds, Service!Dissolve(o, r) PROVE Kept'
    BY <1>7 DEF Service!Dissolve
  <1>8. ASSUME NEW c \in Clients, NEW r \in RoomIds, Service!Present(c, r) PROVE Kept'
    BY <1>8 DEF Service!Present
  <1>9. ASSUME NEW r \in RoomIds, Service!Stop(r) PROVE Kept'
    BY <1>9 DEF Service!Stop
  <1>10. CASE UNCHANGED Service!vars
    BY <1>10 DEF Service!vars
  <1> QED
    BY <1>1, <1>2, <1>3, <1>4, <1>5, <1>6, <1>7, <1>8, <1>9, <1>10 DEF Service!Next

(* The owner and the presenter of a room are members of it, and a room is  *)
(* open exactly as long as it has members: the service keeps that, and so  *)
(* do the maps of the main loop, which implement it.                       *)
THEOREM RolesHold ==
    /\ Service!Spec => []Service!RoleHoldersAreMembers
    /\ Spec => []Service!RoleHoldersAreMembers
  <1>1. Service!Init => Kept
    BY ServiceAssumption DEF Service!Init, Kept, Service!TypeOK, Service!RoleHoldersAreMembers,
            Service!Members, Service!PlacesAssumption
  <1>2. Kept => Service!RoleHoldersAreMembers
    BY DEF Kept
  <1>3. Service!Spec => []Service!RoleHoldersAreMembers
    BY <1>1, <1>2, ServiceKeeps, PTL DEF Service!Spec
  <1> QED
    BY <1>3, Refinement DEF ImplementsRoomService
-----------------------------------------------------------------------------
(* The counters balance *)

Seats(rms) == UNION {{r} \X DOMAIN rms[r].users : r \in DOMAIN rms}

LEMMA SeatsIs ==
    ASSUME NEW rms
    PROVE  /\ \A r, c : <<r, c>> \in Seats(rms) <=> r \in DOMAIN rms /\ c \in DOMAIN rms[r].users
           /\ \A x \in Seats(rms) : x = <<x[1], x[2]>>
  BY DEF Seats

LEMMA SeatsWithin ==
    ASSUME NEW rms, NEW C, \A r \in DOMAIN rms : DOMAIN rms[r].users \subseteq C
    PROVE  Seats(rms) \subseteq (DOMAIN rms) \X C
  <1> SUFFICES ASSUME NEW x \in Seats(rms) PROVE x \in (DOMAIN rms) \X C
    OBVIOUS
  <1>1. PICK r \in DOMAIN rms : x \in {r} \X DOMAIN rms[r].users
    BY DEF Seats
  <1> QED
    BY <1>1

LEMMA ProductFinite ==
    ASSUME NEW S, IsFiniteSet(S), NEW T, IsFiniteSet(T)
    PROVE  IsFiniteSet(S \X T)
  BY FS_Product

(* Every room has a connection of its own, so there are finitely many.     *)
LEMMA RoomsFinite ==
    ASSUME TypeOK, Safe
    PROVE  /\ IsFiniteSet(DOMAIN rooms) /\ IsFiniteSet(Seats(rooms))
           /\ IsFiniteSet(UsedIds(rooms))
  <1> DEFINE seated == {c \in DOMAIN connected : connected[c] \in DOMAIN rooms}
             seat   == [c \in seated |-> connected[c]]
  <1>1. IsFiniteSet(seated)
    <2>1. seated \subseteq Clients
      BY ConnectedClient
    <2> QED
      BY <2>1, ClientsAssumption, FS_Subset
  <1>2. \A r \in DOMAIN rooms : \E c \in seated : connected[c] = r
    BY DEF Safe, SafeMaps, HasOneOwner, Agree
  <1>3. seat \in Surjection(seated, DOMAIN rooms)
    <2>1. seat \in [seated -> DOMAIN rooms]
      OBVIOUS
    <2>2. \A r \in DOMAIN rooms : \E c \in seated : seat[c] = r
      BY <1>2
    <2> HIDE DEF seat, seated
    <2> QED
      BY <2>1, <2>2 DEF Surjection
  <1>4. IsFiniteSet(DOMAIN rooms)
    BY <1>1, <1>3, FS_Surjection
  <1> HIDE DEF seated, seat
  <1>5. IsFiniteSet(Seats(rooms))
    <2>1. IsFiniteSet((DOMAIN rooms) \X Clients)
      BY <1>4, ClientsAssumption, ProductFinite
    <2>2. Seats(rooms) \subseteq (DOMAIN rooms) \X Clients
      <3>1. \A r \in DOMAIN rooms : DOMAIN rooms[r].users \subseteq Clients
        BY UsersConnected, ConnectedClient
      <3> QED
        BY <3>1, SeatsWithin
    <2> QED
      BY <2>1, <2>2, FS_Subset
  <1>6. IsFiniteSet(UsedIds(rooms))
    BY RoomMapType, ClientsAssumption, FS_Subset DEF TypeOK
  <1> QED
    BY <1>4, <1>5, <1>6

LEMMA CountMore ==
    ASSUME NEW S, IsFiniteSet(S), NEW N, IsFiniteSet(N), S \cap N = {}
    PROVE  Cardinality(S \cup N) = Cardinality(S) + Cardinality(N)
  <1>1. /\ Cardinality(S \cup N) = Cardinality(S) + Cardinality(N) - Cardinality(S \cap N)
        /\ Cardinality(S) \in Nat /\ Cardinality(N) \in Nat
    BY FS_Union, FS_CardinalityType
  <1>2. Cardinality(S \cap N) = 0
    BY FS_EmptySet
  <1> QED
    BY <1>1, <1>2

LEMMA CountLess ==
    ASSUME NEW S, IsFiniteSet(S), NEW N \in SUBSET S
    PROVE  /\ Cardinality(S \ N) = Cardinality(S) + (-Cardinality(N))
           /\ Cardinality(S) \in Nat /\ Cardinality(N) \in Nat
  <1>1. /\ Cardinality(S \ N) = Cardinality(S) - Cardinality(S \cap N)
        /\ IsFiniteSet(N)
    BY FS_Difference, FS_Subset
  <1>2. S \cap N = N /\ Cardinality(S) \in Nat /\ Cardinality(N) \in Nat
    BY <1>1, FS_CardinalityType
  <1> QED
    BY <1>1, <1>2

LEMMA SeatCount ==
    ASSUME NEW id, NEW S, IsFiniteSet(S)
    PROVE  IsFiniteSet({id} \X S) /\ Cardinality({id} \X S) = Cardinality(S)
  <1>1. /\ IsFiniteSet({id} \X S) /\ Cardinality({id} \X S) = Cardinality({id}) * Cardinality(S)
    BY FS_Singleton, FS_Product
  <1>2. Cardinality({id}) = 1 /\ Cardinality(S) \in Nat
    BY FS_Singleton, FS_CardinalityType
  <1> QED
    BY <1>1, <1>2

(* What a step adds to each set is what it adds to its counter.            *)
Adds(i, j, k) ==
    /\ i \in Int /\ j \in Int /\ k \in Int
    /\ gauge' = Count(gauge, i, j, k)
    /\ Cardinality(DOMAIN rooms') = Cardinality(DOMAIN rooms) + i
    /\ Cardinality(Seats(rooms')) = Cardinality(Seats(rooms)) + j
    /\ Cardinality(UsedIds(rooms')) = Cardinality(UsedIds(rooms)) + k

LEMMA BalanceKept ==
    ASSUME MetricsBalance, NEW i, NEW j, NEW k, Adds(i, j, k)
    PROVE  MetricsBalance'
  <1>1. gauge = [rooms |-> Cardinality(DOMAIN rooms), users |-> Cardinality(Seats(rooms)),
                 sessions |-> Cardinality(UsedIds(rooms))]
    BY DEF MetricsBalance, Seats
  <1>2. gauge' = [rooms |-> gauge.rooms + i, users |-> gauge.users + j,
                  sessions |-> gauge.sessions + k]
    BY DEF Adds, Count
  <1>3. gauge' = [rooms |-> Cardinality(DOMAIN rooms'), users |-> Cardinality(Seats(rooms')),
                  sessions |-> Cardinality(UsedIds(rooms'))]
    BY <1>1, <1>2 DEF Adds
  <1> QED
    BY <1>3 DEF MetricsBalance, Seats

(* A room more or less, or one that changes.                               *)
LEMMA UsedAre ==
    ASSUME NEW rms, IdsDisjoint(rms), NEW id \in DOMAIN rms, NEW s \in DOMAIN rms[id].sessions,
           NEW r \in DOMAIN rms, s \in DOMAIN rms[r].sessions
    PROVE  r = id
  BY DEF IdsDisjoint

LEMMA ChangesCount ==
    ASSUME TypeOK, Safe, NEW id, NEW room, Changes(id, room)
    PROVE  /\ Cardinality(DOMAIN rooms') = Cardinality(DOMAIN rooms) + 0
           /\ \A ended \in SUBSET DOMAIN rooms[id].sessions :
                 DOMAIN room.sessions = DOMAIN rooms[id].sessions \ ended =>
                    /\ Cardinality(UsedIds(rooms')) =
                         Cardinality(UsedIds(rooms)) + (-Cardinality(ended))
                    /\ -Cardinality(ended) \in Int
           /\ \A new \in SUBSET SessionIds :
                 /\ new \cap UsedIds(rooms) = {}
                 /\ DOMAIN room.sessions = DOMAIN rooms[id].sessions \cup new
                 => /\ Cardinality(UsedIds(rooms')) =
                         Cardinality(UsedIds(rooms)) + Cardinality(new)
                    /\ Cardinality(new) \in Int
           /\ \A S \in SUBSET DOMAIN rooms[id].users :
                 DOMAIN room.users = DOMAIN rooms[id].users \ S =>
                    /\ Cardinality(Seats(rooms')) = Cardinality(Seats(rooms)) + (-Cardinality(S))
                    /\ -Cardinality(S) \in Int
           /\ \A c : c \notin DOMAIN rooms[id].users
                 /\ DOMAIN room.users = DOMAIN rooms[id].users \cup {c} =>
                    Cardinality(Seats(rooms')) = Cardinality(Seats(rooms)) + 1
  <1>1. /\ id \in DOMAIN rooms /\ DOMAIN rooms' = DOMAIN rooms /\ rooms'[id] = room
        /\ \A r \in DOMAIN rooms \ {id} : rooms'[r] = rooms[r]
    BY DEF Changes
  <1>2. /\ IsFiniteSet(DOMAIN rooms) /\ IsFiniteSet(Seats(rooms))
        /\ IsFiniteSet(UsedIds(rooms))
    BY RoomsFinite
  <1>3. Cardinality(DOMAIN rooms') = Cardinality(DOMAIN rooms) + 0
    <2>1. Cardinality(DOMAIN rooms) \in Nat
      BY <1>2, FS_CardinalityType
    <2> QED
      BY <1>1, <2>1
  <1>4. ASSUME NEW ended \in SUBSET DOMAIN rooms[id].sessions,
               DOMAIN room.sessions = DOMAIN rooms[id].sessions \ ended
        PROVE  /\ Cardinality(UsedIds(rooms')) =
                     Cardinality(UsedIds(rooms)) + (-Cardinality(ended))
               /\ -Cardinality(ended) \in Int
    <2>1. ended \subseteq UsedIds(rooms)
      BY <1>1 DEF UsedIds
    <2>2. \A s \in ended, r \in DOMAIN rooms : s \in DOMAIN rooms[r].sessions => r = id
      BY <1>1, UsedAre DEF Safe, SafeMaps
    <2>3. \A s : s \in UsedIds(rooms') <=> s \in UsedIds(rooms) \ ended
      BY <1>1, <1>4, <2>2 DEF UsedIds
    <2>4. UsedIds(rooms') = UsedIds(rooms) \ ended
      BY <2>3
    <2>5. Cardinality(ended) \in Nat
      BY <1>2, <2>1, CountLess
    <2> QED
      BY <1>2, <2>1, <2>4, <2>5, CountLess
  <1>5. ASSUME NEW new \in SUBSET SessionIds, new \cap UsedIds(rooms) = {},
               DOMAIN room.sessions = DOMAIN rooms[id].sessions \cup new
        PROVE  /\ Cardinality(UsedIds(rooms')) = Cardinality(UsedIds(rooms)) + Cardinality(new)
               /\ Cardinality(new) \in Int
    <2>1. \A s : s \in UsedIds(rooms') <=> s \in UsedIds(rooms) \/ s \in new
      BY <1>1, <1>5 DEF UsedIds
    <2>2. UsedIds(rooms') = UsedIds(rooms) \cup new
      BY <2>1
    <2>3. IsFiniteSet(new) /\ Cardinality(new) \in Nat
      BY ClientsAssumption, FS_Subset, FS_CardinalityType
    <2> QED
      BY <1>2, <1>5, <2>2, <2>3, CountMore
  <1>6. ASSUME NEW S \in SUBSET DOMAIN rooms[id].users,
               DOMAIN room.users = DOMAIN rooms[id].users \ S
        PROVE  /\ Cardinality(Seats(rooms')) = Cardinality(Seats(rooms)) + (-Cardinality(S))
               /\ -Cardinality(S) \in Int
    <2>1. Seats(rooms') = Seats(rooms) \ ({id} \X S)
      BY <1>1, <1>6 DEF Seats
    <2>2. {id} \X S \in SUBSET Seats(rooms)
      BY <1>1 DEF Seats
    <2>3. IsFiniteSet(S)
      <3>1. DOMAIN rooms[id].users \subseteq Clients
        BY <1>1, UsersConnected, ConnectedClient
      <3> QED
        BY <3>1, ClientsAssumption, FS_Subset
    <2>4. Cardinality({id} \X S) = Cardinality(S) /\ Cardinality(S) \in Nat
      BY <2>3, SeatCount, FS_CardinalityType
    <2>5. Cardinality(Seats(rooms) \ ({id} \X S))
            = Cardinality(Seats(rooms)) + (-Cardinality({id} \X S))
      BY <1>2, <2>2, CountLess
    <2> QED
      BY <2>1, <2>4, <2>5
  <1>7. ASSUME NEW c, c \notin DOMAIN rooms[id].users,
               DOMAIN room.users = DOMAIN rooms[id].users \cup {c}
        PROVE  Cardinality(Seats(rooms')) = Cardinality(Seats(rooms)) + 1
    <2>1. Seats(rooms') = Seats(rooms) \cup {<<id, c>>} /\ <<id, c>> \notin Seats(rooms)
      BY <1>1, <1>7 DEF Seats
    <2> QED
      BY <1>2, <2>1, FS_AddElement
  <1> QED
    BY <1>3, <1>4, <1>5, <1>6, <1>7

LEMMA RemovalCounts ==
    ASSUME TypeOK, Safe, NEW id \in DOMAIN rooms, rooms' = Without(rooms, {id}),
           gauge' = Count(gauge, -1, -Cardinality(DOMAIN rooms[id].users),
                                 -Cardinality(DOMAIN rooms[id].sessions))
    PROVE  Adds(-1, -Cardinality(DOMAIN rooms[id].users), -Cardinality(DOMAIN rooms[id].sessions))
  <1>0. PICK S, ended : S = DOMAIN rooms[id].users /\ ended = DOMAIN rooms[id].sessions
    OBVIOUS
  <1>1. DOMAIN rooms' = DOMAIN rooms \ {id} /\ \A r \in DOMAIN rooms' : rooms'[r] = rooms[r]
    BY DEF Without, Restrict
  <1>2. /\ IsFiniteSet(DOMAIN rooms) /\ IsFiniteSet(Seats(rooms))
        /\ IsFiniteSet(UsedIds(rooms))
    BY RoomsFinite
  <1>3. Cardinality(DOMAIN rooms') = Cardinality(DOMAIN rooms) + (-1)
    <2>1. Cardinality(DOMAIN rooms) \in Nat
      BY <1>2, FS_CardinalityType
    <2>2. Cardinality(DOMAIN rooms \ {id}) = Cardinality(DOMAIN rooms) - 1
      BY <1>2, FS_RemoveElement
    <2> QED
      BY <1>1, <2>1, <2>2
  <1>4. /\ Cardinality(Seats(rooms')) = Cardinality(Seats(rooms)) + (-Cardinality(S))
        /\ -Cardinality(S) \in Int
    <2>1. Seats(rooms') = Seats(rooms) \ ({id} \X S)
      BY <1>0, <1>1 DEF Seats
    <2>2. {id} \X S \in SUBSET Seats(rooms)
      BY <1>0 DEF Seats
    <2>3. IsFiniteSet(S)
      <3>1. S \subseteq Clients
        BY <1>0, UsersConnected, ConnectedClient
      <3> QED
        BY <3>1, ClientsAssumption, FS_Subset
    <2>4. Cardinality({id} \X S) = Cardinality(S) /\ Cardinality(S) \in Nat
      BY <2>3, SeatCount, FS_CardinalityType
    <2>5. Cardinality(Seats(rooms) \ ({id} \X S))
            = Cardinality(Seats(rooms)) + (-Cardinality({id} \X S))
      BY <1>2, <2>2, CountLess
    <2>6. -Cardinality(S) \in Int
      BY <2>4
    <2> QED
      BY <2>1, <2>4, <2>5, <2>6
  <1>5. /\ Cardinality(UsedIds(rooms')) = Cardinality(UsedIds(rooms)) + (-Cardinality(ended))
        /\ -Cardinality(ended) \in Int
    <2>1. ended \subseteq UsedIds(rooms)
      BY <1>0 DEF UsedIds
    <2>2. \A s \in ended, r \in DOMAIN rooms : s \in DOMAIN rooms[r].sessions => r = id
      BY <1>0, UsedAre DEF Safe, SafeMaps
    <2>3. \A s : s \in UsedIds(rooms') <=> s \in UsedIds(rooms) \ ended
      <3>1. ASSUME NEW s \in UsedIds(rooms') PROVE s \in UsedIds(rooms) \ ended
        <4>1. PICK r \in DOMAIN rooms' : s \in DOMAIN rooms'[r].sessions
          BY DEF UsedIds
        <4>2. r \in DOMAIN rooms /\ r # id /\ s \in DOMAIN rooms[r].sessions
          BY <1>1, <4>1
        <4>3. s \in UsedIds(rooms)
          BY <4>2 DEF UsedIds
        <4> QED
          BY <2>2, <4>2, <4>3
      <3>2. ASSUME NEW s \in UsedIds(rooms), s \notin ended PROVE s \in UsedIds(rooms')
        <4>1. PICK r \in DOMAIN rooms : s \in DOMAIN rooms[r].sessions
          BY DEF UsedIds
        <4>2. r # id
          BY <1>0, <3>2, <4>1
        <4>3. r \in DOMAIN rooms' /\ s \in DOMAIN rooms'[r].sessions
          BY <1>1, <4>1, <4>2
        <4> QED
          BY <4>3 DEF UsedIds
      <3> QED
        BY <3>1, <3>2
    <2>4. UsedIds(rooms') = UsedIds(rooms) \ ended
      BY <2>3
    <2>5. Cardinality(ended) \in Nat
      BY <1>2, <2>1, CountLess
    <2>6. Cardinality(UsedIds(rooms) \ ended)
            = Cardinality(UsedIds(rooms)) + (-Cardinality(ended))
      BY <1>2, <2>1, CountLess
    <2>7. -Cardinality(ended) \in Int
      BY <2>5
    <2> QED
      BY <2>4, <2>6, <2>7
  <1> QED
    BY <1>0, <1>3, <1>4, <1>5 DEF Adds

LEMMA OpeningCounts ==
    ASSUME TypeOK, Safe, NEW c, NEW id, Opens(c, id)
    PROVE  Adds(1, 1, 0)
  <1>1. PICK room : /\ rooms' = Assign(rooms, id, room)
                    /\ room.users = Assign(EmptyMap, c, NewUser(TRUE))
                    /\ room.sessions = EmptyMap
    BY DEF Opens
  <1>2. id \notin DOMAIN rooms /\ gauge' = Count(gauge, 1, 1, 0)
    BY DEF Opens
  <1>3. DOMAIN room.users = {c} /\ DOMAIN room.sessions = {}
    BY <1>1 DEF Assign, EmptyMap
  <1>4. /\ DOMAIN rooms' = DOMAIN rooms \cup {id} /\ rooms'[id] = room
        /\ \A r \in DOMAIN rooms : rooms'[r] = rooms[r]
    BY <1>1, <1>2 DEF Assign
  <1>5. /\ IsFiniteSet(DOMAIN rooms) /\ IsFiniteSet(Seats(rooms))
        /\ IsFiniteSet(UsedIds(rooms))
    BY RoomsFinite
  <1>6. Cardinality(DOMAIN rooms') = Cardinality(DOMAIN rooms) + 1
    BY <1>2, <1>4, <1>5, FS_AddElement
  <1>7. Cardinality(Seats(rooms')) = Cardinality(Seats(rooms)) + 1
    <2>1. Seats(rooms') = Seats(rooms) \cup {<<id, c>>} /\ <<id, c>> \notin Seats(rooms)
      BY <1>2, <1>3, <1>4 DEF Seats
    <2> QED
      BY <1>5, <2>1, FS_AddElement
  <1>8. Cardinality(UsedIds(rooms')) = Cardinality(UsedIds(rooms)) + 0
    <2>1. \A s : s \in UsedIds(rooms') <=> s \in UsedIds(rooms)
      BY <1>3, <1>4 DEF UsedIds
    <2>2. UsedIds(rooms') = UsedIds(rooms)
      BY <2>1
    <2>3. Cardinality(UsedIds(rooms)) \in Nat
      BY <1>5, FS_CardinalityType
    <2> QED
      BY <2>2, <2>3
  <1> QED
    BY <1>2, <1>6, <1>7, <1>8 DEF Adds

LEMMA SameSeats ==
    ASSUME TypeOK, Safe, NEW id, NEW room, Changes(id, room),
           DOMAIN room.users = DOMAIN rooms[id].users
    PROVE  Cardinality(Seats(rooms')) = Cardinality(Seats(rooms)) + 0
  <1>1. /\ DOMAIN rooms' = DOMAIN rooms /\ rooms'[id] = room
        /\ \A r \in DOMAIN rooms \ {id} : rooms'[r] = rooms[r]
    BY DEF Changes
  <1>2. Seats(rooms') = Seats(rooms)
    BY <1>1 DEF Seats
  <1>3. Cardinality(Seats(rooms)) \in Nat
    BY RoomsFinite, FS_CardinalityType
  <1> QED
    BY <1>2, <1>3

LEMMA JoiningCounts ==
    ASSUME RoomIdsAreNames, TypeOK, Safe, NEW c, NEW id \in RoomIds, Joins(c, id)
    PROVE  \E k : Adds(0, 1, k)
  <1>1. PICK room, new : /\ Extends(id, room, new)
                         /\ room.users = Assign(rooms[id].users, c, NewUser(FALSE))
                         /\ gauge' = Count(gauge, 0, 1, Cardinality(new))
    BY DEF Joins
  <1>2. Changes(id, room) /\ id \in DOMAIN rooms
    BY <1>1 DEF Extends, Changes
  <1>3. c \notin DOMAIN rooms[id].users
    BY <1>2, UsersConnected DEF Joins, RoomIdsAreNames
  <1>4. DOMAIN room.users = DOMAIN rooms[id].users \cup {c}
    BY <1>1 DEF Assign
  <1>5. Cardinality(Seats(rooms')) = Cardinality(Seats(rooms)) + 1
    BY <1>2, <1>3, <1>4, ChangesCount
  <1>6. /\ new \in SUBSET SessionIds /\ new \cap UsedIds(rooms) = {}
        /\ DOMAIN room.sessions = DOMAIN rooms[id].sessions \cup new
    BY <1>1 DEF Extends
  <1>7. /\ Cardinality(UsedIds(rooms')) = Cardinality(UsedIds(rooms)) + Cardinality(new)
        /\ Cardinality(new) \in Int
    BY <1>2, <1>6, ChangesCount
  <1>8. Cardinality(DOMAIN rooms') = Cardinality(DOMAIN rooms) + 0
    BY <1>2, ChangesCount
  <1> QED
    BY <1>1, <1>5, <1>7, <1>8 DEF Adds

LEMMA StartingCounts ==
    ASSUME TypeOK, Safe, NEW c, NEW id, Starts(c, id)
    PROVE  \E k : Adds(0, 0, k)
  <1>1. PICK room, new : /\ Extends(id, room, new)
                         /\ room.users = [rooms[id].users EXCEPT ![c].Streaming = TRUE]
                         /\ gauge' = Count(gauge, 0, 0, Cardinality(new))
    BY DEF Starts
  <1>2. Changes(id, room) /\ id \in DOMAIN rooms
    BY <1>1 DEF Extends, Changes
  <1>3. DOMAIN room.users = DOMAIN rooms[id].users
    BY <1>1
  <1>4. Cardinality(Seats(rooms')) = Cardinality(Seats(rooms)) + 0
    BY <1>2, <1>3, SameSeats
  <1>5. /\ new \in SUBSET SessionIds /\ new \cap UsedIds(rooms) = {}
        /\ DOMAIN room.sessions = DOMAIN rooms[id].sessions \cup new
    BY <1>1 DEF Extends
  <1>6. /\ Cardinality(UsedIds(rooms')) = Cardinality(UsedIds(rooms)) + Cardinality(new)
        /\ Cardinality(new) \in Int
    BY <1>2, <1>5, ChangesCount
  <1>7. Cardinality(DOMAIN rooms') = Cardinality(DOMAIN rooms) + 0
    BY <1>2, ChangesCount
  <1> QED
    BY <1>1, <1>4, <1>6, <1>7 DEF Adds

(* A room that loses some of its users and some of its sessions.           *)
LEMMA ShrinkingCounts ==
    ASSUME TypeOK, Safe, NEW id, NEW room, Changes(id, room),
           NEW S \in SUBSET DOMAIN rooms[id].users,
           NEW ended \in SUBSET DOMAIN rooms[id].sessions,
           DOMAIN room.users = DOMAIN rooms[id].users \ S,
           DOMAIN room.sessions = DOMAIN rooms[id].sessions \ ended,
           gauge' = Count(gauge, 0, -Cardinality(S), -Cardinality(ended))
    PROVE  Adds(0, -Cardinality(S), -Cardinality(ended))
  <1>1. Cardinality(DOMAIN rooms') = Cardinality(DOMAIN rooms) + 0
    BY ChangesCount
  <1>2. /\ Cardinality(Seats(rooms')) = Cardinality(Seats(rooms)) + (-Cardinality(S))
        /\ -Cardinality(S) \in Int
    BY ChangesCount
  <1>3. /\ Cardinality(UsedIds(rooms')) = Cardinality(UsedIds(rooms)) + (-Cardinality(ended))
        /\ -Cardinality(ended) \in Int
    BY ChangesCount
  <1> QED
    BY <1>1, <1>2, <1>3 DEF Adds

LEMMA DepartingCounts ==
    ASSUME TypeOK, Safe, NEW c, NEW id, Departs(c, id)
    PROVE  \E i, j, k : Adds(i, j, k)
  <1>1. id \in DOMAIN rooms /\ c \in DOMAIN rooms[id].users
    BY DEF Departs
  <1>2. Cardinality({c}) = 1
    BY FS_Singleton
  <1>3. CASE LastLeaves(c, id, rooms, gauge)
    <2>1. /\ DOMAIN rooms[id].users = {c} /\ rooms' = Without(rooms, {id})
          /\ gauge' = Count(gauge, -1, -1, -Cardinality(DOMAIN rooms[id].sessions))
      BY <1>3 DEF LastLeaves
    <2>2. gauge' = Count(gauge, -1, -Cardinality(DOMAIN rooms[id].users),
                                    -Cardinality(DOMAIN rooms[id].sessions))
      BY <1>2, <2>1
    <2>3. Adds(-1, -Cardinality(DOMAIN rooms[id].users), -Cardinality(DOMAIN rooms[id].sessions))
      BY <1>1, <2>1, <2>2, RemovalCounts
    <2> QED
      BY <2>3
  <1>4. CASE OneLeaves(c, id, rooms, gauge)
    <2>1. PICK ended : ended = Involving(rooms[id], c)
      OBVIOUS
    <2>2. PICK room \in Room :
            /\ rooms' = [rooms EXCEPT ![id] = room]
            /\ room.users \in Successions(rooms[id].users, c)
            /\ room.sessions = Without(rooms[id].sessions, ended)
      BY <1>4, <2>1 DEF OneLeaves
    <2>3. gauge' = Count(gauge, 0, -1, -Cardinality(ended))
      BY <1>4, <2>1 DEF OneLeaves
    <2>4. Changes(id, room)
      BY <1>1, <2>2 DEF Changes
    <2>5. ended \in SUBSET DOMAIN rooms[id].sessions
      BY <2>1 DEF Involving
    <2>6. DOMAIN room.users = DOMAIN rooms[id].users \ {c}
      <3>1. rooms[id].users \in Users
        BY <1>1, UsersConnected
      <3>2. PICK users \in Successions(rooms[id].users, c) : users = room.users
        BY <2>2
      <3> QED
        BY <1>1, <3>1, <3>2, SuccessionsType
    <2>7. DOMAIN room.sessions = DOMAIN rooms[id].sessions \ ended
      BY <2>2, GoneIs
    <2>8. gauge' = Count(gauge, 0, -Cardinality({c}), -Cardinality(ended))
      BY <1>2, <2>3
    <2>9. Adds(0, -Cardinality({c}), -Cardinality(ended))
      BY <1>1, <2>4, <2>5, <2>6, <2>7, <2>8, ShrinkingCounts
    <2> QED
      BY <2>9
  <1> QED
    BY <1>3, <1>4 DEF Departs, Leaves

LEMMA ResettingCounts ==
    ASSUME TypeOK, Safe, NEW id, Resets(id)
    PROVE  \E i, j, k : Adds(i, j, k)
  <1>1. PICK room, ended : /\ Shrinks(id, room, {}, ended)
                           /\ DOMAIN room.users = DOMAIN rooms[id].users
    BY DEF Resets
  <1>2. DOMAIN room.users = DOMAIN rooms[id].users \ {}
    BY <1>1
  <1>3. Adds(0, -Cardinality({}), -Cardinality(ended))
    BY <1>1, <1>2, ShrinkingCounts DEF Shrinks
  <1> QED
    BY <1>3

LEMMA ExpellingCounts ==
    ASSUME TypeOK, Safe, NEW o, NEW c, NEW id, Expels(o, c, id)
    PROVE  \E i, j, k : Adds(i, j, k)
  <1>1. PICK ended : ended = Involving(rooms[id], c)
    OBVIOUS
  <1>2. PICK room : /\ Shrinks(id, room, {c}, ended)
                    /\ room.users = Without(rooms[id].users, {c})
    BY <1>1 DEF Expels
  <1>3. {c} \in SUBSET DOMAIN rooms[id].users
    BY DEF Expels, MayTarget, CurrentRoom
  <1>4. DOMAIN room.users = DOMAIN rooms[id].users \ {c}
    BY <1>2, GoneIs
  <1>5. Adds(0, -Cardinality({c}), -Cardinality(ended))
    BY <1>2, <1>3, <1>4, ShrinkingCounts DEF Shrinks
  <1> QED
    BY <1>5

LEMMA DissolvingCounts ==
    ASSUME TypeOK, Safe, NEW o, NEW id, Dissolves(o, id)
    PROVE  \E i, j, k : Adds(i, j, k)
  <1>1. id \in DOMAIN rooms
    BY DEF Dissolves, OwnsRoom, HasRoom
  <1>2. Adds(-1, -Cardinality(DOMAIN rooms[id].users), -Cardinality(DOMAIN rooms[id].sessions))
    BY <1>1, RemovalCounts DEF Dissolves
  <1> QED
    BY <1>2

LEMMA KindBalances ==
    ASSUME RoomIdsAreNames, TypeOK, Safe, MetricsBalance, NEW a \in Clients, NEW S, Kind(a, S)
    PROVE  MetricsBalance'
  <1>1. ASSUME UNCHANGED <<rooms, gauge>> PROVE MetricsBalance'
    BY <1>1 DEF MetricsBalance, UsedIds
  <1>2. CASE \/ Idles \/ \E c \in Clients : Arrives(c) \/ HangsUp(c)
    BY <1>1, <1>2 DEF Idles, Arrives, HangsUp
  <1>3. ASSUME NEW c \in Clients, NEW id \in RoomIds, Departs(c, id) \/ Opens(c, id) \/ Joins(c, id)
        PROVE  \E i, j, k : Adds(i, j, k)
    BY <1>3, DepartingCounts, OpeningCounts, JoiningCounts
  <1>4. ASSUME NEW c \in Clients, NEW id \in RoomIds, Starts(c, id) \/ Dissolves(c, id)
        PROVE  \E i, j, k : Adds(i, j, k)
    BY <1>4, StartingCounts, DissolvingCounts
  <1>5. ASSUME NEW id \in RoomIds, Resets(id)
        PROVE  \E i, j, k : Adds(i, j, k)
    BY <1>5, ResettingCounts
  <1>6. ASSUME NEW o \in Clients, NEW c \in Clients, NEW id \in RoomIds, Expels(o, c, id)
        PROVE  \E i, j, k : Adds(i, j, k)
    BY <1>6, ExpellingCounts
  <1>7. ASSUME \E i, j, k : Adds(i, j, k) PROVE MetricsBalance'
    BY <1>7, BalanceKept
  <1> QED
    BY <1>2, <1>3, <1>4, <1>5, <1>6, <1>7 DEF Kind

(* The counters that /metrics exports balance: every way into a room, out  *)
(* of it and to end it counts, however many sessions one message ends.     *)
THEOREM CountersBalance == RoomIdsAreNames => (Spec => []MetricsBalance)
  <1> SUFFICES ASSUME RoomIdsAreNames PROVE Spec => []MetricsBalance
    OBVIOUS
  <1>1. Init => MetricsBalance
    <2> SUFFICES ASSUME Init PROVE MetricsBalance
      OBVIOUS
    <2>1. DOMAIN rooms = {} /\ gauge = [rooms |-> 0, users |-> 0, sessions |-> 0]
      BY DEF Init, EmptyMap
    <2>2. Seats(rooms) = {} /\ UsedIds(rooms) = {} /\ Cardinality({}) = 0
      BY <2>1, FS_EmptySet DEF Seats, UsedIds
    <2> QED
      BY <2>1, <2>2 DEF MetricsBalance, Seats
  <1>2. TypeOK /\ Safe /\ MetricsBalance /\ [Next]_vars => MetricsBalance'
    <2> SUFFICES ASSUME TypeOK, Safe, MetricsBalance, [Next]_vars PROVE MetricsBalance'
      OBVIOUS
    <2>1. CASE Next
      BY <2>1, StepKinds, KindBalances DEF Orderly
    <2>2. CASE UNCHANGED vars
      BY <2>2 DEF vars, MetricsBalance, UsedIds
    <2> QED
      BY <2>1, <2>2
  <1> QED
    BY <1>1, <1>2, TypeCorrect, Safety, PTL DEF Spec
=============================================================================
