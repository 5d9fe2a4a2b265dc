-------------------------- MODULE RoomsRefinement --------------------------
(***************************************************************************)
(* The main loop implements RoomService.                                   *)
(***************************************************************************)
EXTENDS Rooms

CONSTANTS Away, Nobody

(* Who owns a room with these users, who presents in it: at most one each. *)
Holder(holders) == IF holders = {} THEN Nobody ELSE CHOOSE c \in holders : TRUE
OwnerOf(users) == Holder({c \in DOMAIN users : users[c].Owner})
PresenterOf(users) == Holder(Presenters(users))
UsersIn(rms, r) == IF r \in DOMAIN rms THEN rms[r].users ELSE EmptyMap

placeBar == [c \in Clients |-> IF c \in DOMAIN connected THEN connected[c] ELSE Away]
ownerBar == [r \in RoomIds |-> OwnerOf(UsersIn(rooms, r))]
presenterBar == [r \in RoomIds |-> PresenterOf(UsersIn(rooms, r))]

Service == INSTANCE RoomService
    WITH Lobby <- NoRoom, place <- placeBar, owner <- ownerBar, presenter <- presenterBar

ASSUME ServiceAssumption == Service!PlacesAssumption

(* Seen through connected, the owner flags and the streaming flags, every  *)
(* message the loop handles is a step of RoomService or none.              *)
ImplementsRoomService == Service!Spec
=============================================================================
