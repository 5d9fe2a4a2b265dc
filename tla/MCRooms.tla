------------------------------ MODULE MCRooms ------------------------------
(* Small instances of Rooms for TLC.                                       *)
EXTENDS Rooms, TLC

CONSTANTS c1, c2, c3, a1, a2

(* c1 and c2 are behind one address, c3 has its own.                       *)
MCAddr == [c \in Clients |-> IF c = c3 THEN a2 ELSE a1]

(* c1 and c2 also agree on everything else that tells clients apart.       *)
Symmetry == Permutations(SessionIds) \cup Permutations({c1, c2})

(* The outbox is output: no guard reads it, so states that differ only in  *)
(* it have the same future.  The properties about it are about steps, and  *)
(* TLC checks those on every step it takes.                                *)
StateView == <<connected, rooms, lookup, gauge, panicked>>
=============================================================================
