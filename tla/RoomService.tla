---------------------------- MODULE RoomService ----------------------------
(***************************************************************************)
(* What the signalling server promises, with no maps kept in step, no      *)
(* sessions and no messages: a client is away, in the lobby or in one      *)
(* room; a room that is open has one of its members as its owner and at    *)
(* most one of them presenting.                                            *)
(*                                                                         *)
(* The room list and the owner are the server's: a room lives exactly as   *)
(* long as it has members, ownership passes on only when the owner goes,   *)
(* and nobody but the owner and the member itself ends a membership or a   *)
(* presentation.                                                           *)
(***************************************************************************)
EXTENDS FiniteSets

CONSTANTS Clients, RoomIds, Away, Lobby, Nobody

(* What tells places and clients apart.                                    *)
PlacesAssumption == Away # Lobby /\ {Away, Lobby} \cap RoomIds = {} /\ Nobody \notin Clients

VARIABLES
    place,      \* where each client is: Away, Lobby or a room
    owner,      \* the owner of each room, Nobody when it is closed
    presenter   \* who presents in each room, or Nobody

vars == <<place, owner, presenter>>

Members(r) == {c \in Clients : place[c] = r}

TypeOK ==
    /\ place \in [Clients -> RoomIds \cup {Away, Lobby}]
    /\ owner \in [RoomIds -> Clients \cup {Nobody}]
    /\ presenter \in [RoomIds -> Clients \cup {Nobody}]

(* Init: the server has just started. *)
Init ==
    /\ place = [c \in Clients |-> Away]
    /\ owner = [r \in RoomIds |-> Nobody]
    /\ presenter = [r \in RoomIds |-> Nobody]

Arrive(c) ==
    /\ place[c] = Away
    /\ place' = [place EXCEPT ![c] = Lobby]
    /\ UNCHANGED <<owner, presenter>>

Open(c, r) ==
    /\ place[c] = Lobby /\ owner[r] = Nobody
    /\ place' = [place EXCEPT ![c] = r]
    /\ owner' = [owner EXCEPT ![r] = c]
    /\ UNCHANGED presenter

Enter(c, r) ==
    /\ place[c] = Lobby /\ owner[r] # Nobody
    /\ place' = [place EXCEPT ![c] = r]
    /\ UNCHANGED <<owner, presenter>>

(* Whoever leaves stops presenting; an owner hands the room on.            *)
Stops(c, r) == presenter' =
    [presenter EXCEPT ![r] = IF presenter[r] = c THEN Nobody ELSE presenter[r]]

Hangup(c) ==
    /\ place[c] = Lobby
    /\ place' = [place EXCEPT ![c] = Away]
    /\ UNCHANGED <<owner, presenter>>

Depart(c, r) ==
    /\ place[c] = r
    /\ place' = [place EXCEPT ![c] = Away]
    /\ Stops(c, r)
    /\ \E heir \in (Members(r) \ {c}) \cup {Nobody} :
          /\ heir = Nobody <=> Members(r) = {c}
          /\ owner' = [owner EXCEPT ![r] = IF owner[r] = c THEN heir ELSE owner[r]]

Expel(o, c, r) ==
    /\ owner[r] = o /\ place[c] = r /\ c # o
    /\ place' = [place EXCEPT ![c] = Away]
    /\ Stops(c, r)
    /\ UNCHANGED owner

Dissolve(o, r) ==
    /\ owner[r] = o
    /\ place' = [c \in Clients |-> IF place[c] = r THEN Away ELSE place[c]]
    /\ owner' = [owner EXCEPT ![r] = Nobody]
    /\ presenter' = [presenter EXCEPT ![r] = Nobody]

Present(c, r) ==
    /\ place[c] = r /\ presenter[r] = Nobody
    /\ presenter' = [presenter EXCEPT ![r] = c]
    /\ UNCHANGED <<place, owner>>

(* A member stops, or the owner stops it. *)
Stop(r) ==
    /\ presenter[r] # Nobody
    /\ presenter' = [presenter EXCEPT ![r] = Nobody]
    /\ UNCHANGED <<place, owner>>

Next ==
    \/ \E c \in Clients : Arrive(c)
    \/ \E c \in Clients : Hangup(c)
    \/ \E c \in Clients, r \in RoomIds : Open(c, r)
    \/ \E c \in Clients, r \in RoomIds : Enter(c, r)
    \/ \E c \in Clients, r \in RoomIds : Depart(c, r)
    \/ \E o, c \in Clients, r \in RoomIds : Expel(o, c, r)
    \/ \E o \in Clients, r \in RoomIds : Dissolve(o, r)
    \/ \E c \in Clients, r \in RoomIds : Present(c, r)
    \/ \E r \in RoomIds : Stop(r)

Spec == Init /\ [][Next]_vars
-----------------------------------------------------------------------------
(* The owner of an open room and whoever presents in it are members of it, *)
(* and a room is open exactly as long as it has members.                   *)
RoleHoldersAreMembers ==
    \A r \in RoomIds :
        /\ owner[r] = Nobody <=> Members(r) = {}
        /\ {owner[r], presenter[r]} \subseteq Members(r) \cup {Nobody}
=============================================================================
