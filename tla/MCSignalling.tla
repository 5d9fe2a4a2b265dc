---------------------------- MODULE MCSignalling ----------------------------
(* Small instances of Signalling for TLC.                                  *)
EXTENDS Signalling, TLC

CONSTANTS a1

MCAddr == [c \in Clients |-> a1]

Symmetry == Permutations(SessionIds) \cup Permutations(Clients)

(* The outbox is on the wires; lookup and gauge are functions of rooms     *)
(* (CredentialsLive, MetricsBalance) that no guard reads.                  *)
StateView == <<connected, rooms, panicked, wires, page, acts>>
=============================================================================
