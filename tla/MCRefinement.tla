---------------------------- MODULE MCRefinement ----------------------------
(* The instances of MCRooms, seen as RoomService.                          *)
EXTENDS MCRooms, RoomsRefinement

(* The two rooms are alike as well.                                        *)
RoomSymmetry == Symmetry \cup Permutations(RoomIds)
=============================================================================
