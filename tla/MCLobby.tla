------------------------------ MODULE MCLobby ------------------------------
(* Small instances of Lobby for TLC.                                       *)
EXTENDS Lobby, TLC

CONSTANTS plain,        \* an id that survives the URL
          cut,          \* the same with "&" and more behind it
          hash          \* one that begins with "#"

Links == [id \in RoomIds |-> IF id = hash THEN None ELSE plain]

(* Names are told apart from blank ones only.                              *)
Symmetry == Permutations(Sockets)
=============================================================================
